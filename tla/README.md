# Verification of the optical-network and video scripts

TLA+ models of the scripts in this repository that change shared data: the
migration of two South China controllers into one (`toopTransfer/`), the unlock
of attenuation thresholds (`am/`), the video import (`video/`) and the collection of
network elements (`toopAuto/`); and of the two concurrent parts of the C++ library the
repository carries along (`thrift/lib/cpp`), its thread pool and its log file
transport. TLC checks the models on small instances; TLAPS proves every invariant the runs
check, and most of the action properties, for every instance.

## 1. Inventory

The repository's own code is a collection of PHP command-line scripts. No script is
a server, none uses transactions. The data they share are MongoDB collections,
MySQL tables and files in the working directory. Beside them lies a copy of Apache
Thrift, compiler and run-time libraries; most lines of the repository are there.

| Part | State it touches | Operations | What is hard | What makes it correct |
|---|---|---|---|---|
| `toopTransfer/tunnelTrans.php`, `phyLinkTrans.php`, `phyNodeTrans.php`, `ochNodeTrans.php`, `ochLinkTrans.php` | one collection each in South 1 ("30"), South 2 ("35") and the merged controller (GD); list files `tunnel/*.txt`, `ochLink/*.txt` | for each key: query South, rewrite the site ids, insert into GD, delete in South | crash between insert and delete, a write that times out but was done, inserts whose count is not looked at, PHP variables that outlive their item, running again | nothing is lost unless the log says so; copies are bounded; a finished run has emptied South; no South site id in GD |
| `toopTransfer/siteTopoTrans.php` | view nodes, view links, site nodes, site links | delete view nodes; merge two view links into one; merge two site nodes into GD's; move amplifiers and site links | order of the deletes, merges with null after a crash, shallow merge, `_id` collisions | no link or node part is lost, each is merged once |
| `toopTransfer/mongo/mongoBaseDao.php` | none | query, insert, update, delete | insert and update wait at most 1 s for a majority | counts and exceptions are told apart by the callers |
| `toopTransfer/lib/`, `baseTopoTrans.php` | `omsId.txt` | site constants, HTTP queries with a page size, rewriting of four section ids | page limits (30, 100, 1000) | every listed object is on the page |
| `toopTransfer/mongoTunnelRestore.php`, `neUnregits.php` | tunnel collection; controller | insert a backup; unregister elements of version v1.33 | restore after a partial migration | no tunnel twice |
| `am/amDeadLock.php` | one threshold document per link | read, delete, insert | two operators at once, crash between delete and insert | one document per link, the other direction unchanged |
| `video/import_video_new.php`, `Monitor.php` | table `video`, `new_video_id`, `DelVideoInfo.log`, the message queue, mails | hand each row to the queue, save the cursor, log deletions, mail them | crash between the steps, a table that changes, failures that are ignored | no video skipped, repetitions only after crashes, every deletion mailed |
| `toopAuto/*.php`, `runAll.sh` | MySQL table of network elements | query controllers region by region, insert rows | endless reconnect, values left from the element before | each element with its own values |
| `toopEdit/*.php` | spreadsheets, address pools | split and allocate addresses | boundaries of the ranges | no address twice |
| `video/alading_update.cron.php` and the other `video/*.php` | output files, caches | paged export | count and pages read at different times | complete export |
| `dataChange/`, `pm/`, `lib/`, `docker/` | HBase, logs | single calls | - | - |
| `thrift/lib/cpp/src/concurrency/ThreadManager.cpp` | the task queue and its limit; counts of workers, of idle workers and of workers wanted; three monitors | add a task (waiting for room or not), hand a pending task back, take, expire and execute tasks, grow, shrink, stop, join | lost wakeups, a queue at its limit, adders woken after the pool stopped, the last worker and the controller missing each other | each task executed once; no task slept on; the limit kept; join finishes the work; controllers return |
| `thrift/lib/cpp/src/transport/TFileTransport.cpp` (writing) | two event buffers, flags `closing_` and `forceFlush_`, the file and `offset_` | write, flush, close; swap buffers, pad chunks, write, sync, recover from errors | notify between the last look and the wait, errors at every system call, `offset_` against a file opened with `O_APPEND`, what an earlier process left | events once and in order; flush means on disk; close loses nothing; no event across a chunk |
| the rest of `thrift/`, `dataChange/thrift/`, vendor directories | | third-party code: compiler, generators, protocols, servers, other languages | | |

The transfer scripts are run one after the other by an operator: `baseTopoTrans`
creates the directories, `tunnelTrans` writes the lists of tunnels, `phyLinkTrans`,
`phyNodeTrans` and `ochNodeTrans` read them, `phyLinkTrans` writes the list
`ochLinkTrans` reads, `siteTopoTrans` uses none. A script that fails is run again.

`PROJECT.json` lists the hazards line by line, with the properties on each.

## 2. Modules

| Module | Models |
|---|---|
| `Migration` | what a transfer promises: documents leave South only once GD has them or their failure was reported |
| `DocTransfer` | the query-rewrite-insert-delete loop of five scripts and of `siteLinkProcess` |
| `DocTransferProofs` | theorems on `DocTransfer` |
| `LinkPipeline` | `phyLinkTrans` and `ochLinkTrans` and the list files between them, two instances of `DocTransfer` |
| `LinkPipelineProofs` | theorems on `LinkPipeline` |
| `SiteTopo` | the merging stages of `siteTopoTrans` |
| `SiteTopoProofs` | theorems on `SiteTopo` |
| `AmThreshold` | overlapping runs of `amDeadLock` |
| `AmThresholdProofs` | theorems on `AmThreshold` |
| `VideoImport` | `import_video_new` and the `Monitor` it starts |
| `VideoImportProofs` | theorems on `VideoImport` |
| `NeCollector` | `runAll.sh` and the six collectors it runs |
| `NeCollectorProofs` | theorems on `NeCollector` |
| `ThreadManager` | `ThreadManager::Impl` and `ThreadManager::Worker` of Thrift's C++ library |
| `ThreadManagerProofs` | theorems on `ThreadManager` |
| `FileTransport` | the writing side of `TFileTransport` |
| `FileTransportProofs` | theorems on `FileTransport` |
| `MC...` | the constants TLC uses |

Definitions called "Mutant" in a comment are faulty variants of the definition
after them. They are not part of any specification; each is used in its place
once, to see that a property notices.

### DocTransfer

`src` is what is left in South and `gd[<<d, leg>>]` the number of copies GD has of
document `d`, as rewritten on section `leg`. `list` and `i` are the nested loops of a
script (legs, list file, objects of a tunnel), flattened; `new` is the PHP variable
with the rewritten document. The scripts differ in four respects, which are the
fields of the record `Script`: whether all documents of a cursor are inserted or
the last, whether the variable survives a leg, what happens when it is null, and
on which legs a failed insert is only echoed. Steps are one database call each:
`Query` is `QueryEach` where all documents are inserted, and else `QueryLast`, `QueryNothing`, `QueryNothingCarried` (empty cursor, variable
still set), `InsertOk`, `InsertZero`, `InsertThrow` (written or not), `DeleteOk`,
`DeleteThrow`, `Finish`; `Start` is the operator, `Crash` a process that dies.

What a controller answers while a script runs is part of `list`, chosen at `Start`.
A document is abstracted to its key, its database and the sites its text mentions;
the logs, the sleeps and the telemetry address set by `phyNodeTrans` are left out.
`_id` is removed before the insert, so a second insert is a second document.

### LinkPipeline

Extends `DocTransfer` with `Script = phyLinkProcess` and instantiates it once more for
`ochLinkTrans`, whose collection and variables have names of their own (`ochSrc`, ...).
`ochList` are the files `ochLink/*.txt`. `phyStep` is a step of `phyLinkTrans`; looking up
a link appends its channel to the file first, and a crash may come before or after the
append. `ochLinkTrans` is started with whatever the files hold. The operator runs
either, in any order and as often as `MaxAttempts` allows, never both at once.

### SiteTopo

`stage` and `step` are the place in `run()`; `infoS1`, `infoS2` and `doc` the PHP
variables `$siteNodeInfoS1New`, `$siteNodeInfoS2New` and the merged document. The
three lists of a site node are merged by the same statements and are one list of
parts here. `array_merge` is PHP 7.3 (`docker/Dockerfile`): with a null argument it
warns and returns null. Amplifiers keep their `_id`, so a second insert throws. An insert
of an amplifier that counts other than 1 ends the script (`IlaInsertZero`): the message
is put together from the Cursor object (lines 669 and 701), which is no string, and PHP
stops with an error before the delete.

### AmThreshold

One link, any number of runs, each with its own `pc`, direction and values. A
document knows which run inserted it, so that equal documents stay two.

### VideoImport

`idFile`, `delLog` are the files; `id`, `total`, `row` the variables; `adds` and `dels`
what the queue got. `AddVideo` and `Withdraw` are the site, which shares the table.
`Crash` during the write of `new_video_id` may leave the file empty, as
`file_put_contents` truncates first. The query has no ORDER BY; the model takes rows
to come in the order they were added.

### NeCollector

`script` is the position in `runAll.sh`, `answers` what each controller answered in this
run, `i` the loop over an answer. `values` are the PHP variables `$ne_yang_version`,
`$software_version`, `$telemetry` and `$adapter`; a value is the element it was read
from. The first two are cleared for each element, the others are not. `DbChanges`
lets MySQL come and go; the reconnecting loop stutters while it is away. Under PHP 7.3
`mysqli` returns false on failure and `count(null)` is 0, so a controller whose query
fails is one without elements. `http_request_xml` sets no timeout: a controller that
accepts the request and never answers keeps the script in `Query`, which is therefore
not a fair step. `InsertFails` and `Die` may leave the row stored.

### ThreadManager

Three kinds of threads. A critical section is one action; `wait()` ends it, with the
thread "waiting" until a notification makes it "woken" (or, for an adder, its time is
over), and the thread takes the mutex again in a later step. `monitor_` and
`maxMonitor_` share a mutex and wake different threads: workers and adders.
`workerMonitor_` wakes controllers. Between its critical sections a worker is at a
place of its own: "entered" before it notifies the controller, "execute" with a task
in hand, "leave" and "leaveLast" before it enters `deadWorkers_`.

`stopImpl` sets the state under the mutex and then calls `removeWorker(workerCount_)`,
which throws if there are more workers than wanted (`RemoveAll`), and the state stays
as it is. `start` wakes every worker that sleeps (`notifyAll`). `ExecuteAdds` is a task that adds another: a worker is not allowed to sleep.
`Elapse` lets the expiration of a queued task run out; an expired task is dropped when
someone calls `removeExpiredTasks`, from the front of the queue only.

Left out: `remove()`, which changes nothing; calls of `add` that give up waiting
for the mutex, which change nothing; wakeups without notification; thread creation that
fails; the expire callback, which runs under the mutex; the setter of `pendingTaskCountMax_`
(line 120), which can make room without a notification; and the reading of `idMap_` in
`canSleep` while another thread changes it, which has no defined outcome. The
instance has one controller. Two that resize at once share `workerMonitor_`, where
one notification may wake the wrong one; no property here is about that.

### FileTransport

One client thread, and the writer thread it starts: `enqueueEvent` asserts that no
flush is under way, which is so only if nobody else calls `flush`. `file` are the
records the writer appended, with their place: padding is event 0. `base` is what an earlier process left, `synced` how many
records an `fsync` covers. The writer holds `mutex_` from its last look at
`enqueueBuffer_` to its wait ("toWait"); `Close` and `CloseNotifies` do not take it,
so that the notification may come between the two, and it is the deadline of the
wait (`TimesOut`) that saves the destructor.

`seekToEnd` computes what the reading code leaves in `offset_` and `lastDispatchPtr_`:
`offset_` is the begin of the last block read, not the end of the last event. The start
of the writer adds both, `Reopen` uses `offset_` alone. Where the last chunk does
not fall into events (`Garbled`), the reader may stop anywhere in it. At the start
the writer cuts the file at this place, to "throw away any partial events"; since the
reader has moved `offset_` to the end of the file on a torn event, nothing is cut.

An event whose contents are within `maxEventSize_` but not with its header is accepted
by `write` and dropped by the writer (`Skip`). After an error `hasIOError` is set until
the next event is to be written; `flush` waits that long. Left out: reading,
`resetOutputFile` (line 117), which closes one file and opens another under a running
transport, short writes, an `fsync` that fails (its result is not looked at), and
changes of the parameters while the writer runs.

## 3. Runs

| Run | Shows | Properties | States |
|---|---|---|---|
| `tunnel_transfer` | `tunnelTrans`, three attempts | `NoSilentLoss`, `CopiesAccounted`, `DoneMeansEmptied`, `NoSouthRefInGd`, `AttemptEnds`, `ImplementsMigration` | 315k |
| `link_pipeline` | `phyLinkTrans` and `ochLinkTrans`, two attempts each, a key with two documents | `ChannelsFollowLinks`, `OchRunEnds` | 41k |
| `site_topo` | the merge stages, three attempts | `ViewRefsKept`, `NoViewFragment`, `SiteDataKeptOnFirstRun`, `NoForeignParts`, `IlaKept`, `NoIlaCollisionOnFirstRun` | 50k |
| `am_threshold` | three overlapping runs (runs are symmetric) | `OneThresholdDoc`, `LossNeedsFailure`, `NullNeedsExcuse`, `DeletesWhatItRead` | 171k |
| `video_import` | three imports, two rows, table changing | `PassedRowsHandedOver`, `RepeatsNeedCrashes`, `DeletionsReported`, `OnlyDeletionsReported`, `ImportEnds` | 54k |
| `ne_collector` | two runs of all six collectors, two listings, one death | `CollectedOrLogged`, `OneRowPerRun`, `CarriedWithinRegion`, `RunAllEnds` | 1.1M |
| `thread_manager` | two workers, two adders, one controller, three tasks, room for one | `TasksAccounted`, `NoTaskSleptOn`, `LimitKept`, `BlockedAddNeedsExcuse`, `JoinFinishesWork`, `ControllerReturns` | 362k |
| `file_transport` | five events, three files found at the start, two errors | `EventsInOrder`, `CloseWritesAll`, `CrossingNeedsReopen`, `FlushedMeansOnDisk`, `DestructorReturns`, `SyncedInTime`, `FlushReturnsUnlessError` | 82k |

The loop of `DocTransfer` is run with one script that keeps the last document and, in the
pipeline, with the one that inserts each; what holds of the others is proved for
every value of `Script` (section 4).

What some of the properties do not say. `DeletionsReported` allows one deletion to go
unreported for each import that died, and counts the rows of a mail that failed as
failed: the code can do both, and the property says that it does no more. `NullNeedsExcuse` and
`DeletesWhatItRead` name overlapping runs as an excuse; what overlap cannot do is in
`OneThresholdDoc` and `LossNeedsFailure`. `OneRowPerRun` allows one more row for each run
of `runAll.sh`, as the code inserts it. The table of `video_import` is bounded, so
`ImportEnds` shows that every path advances; that a table that grows for ever does not
keep the import going is the guard of `Fetch`, which compares with the count taken once.
`NoForeignParts` is the only property of the site nodes about later runs: that these may
overwrite GD's lists with null is the finding `site_node_b_rerun`.

Deadlock is not checked: every system ends when the operator stops starting runs.

Bounds. Losing or duplicating a document takes one document and one re-run; three
attempts also let the second attempt fail. The lists contain a key of each
database, a key two legs share, a key met twice and a key without document at
every position, so every leftover of `new` occurs. Three runs of `amDeadLock` are one
more than any lost update needs. Two rows and three imports give every order of
crash, repetition and withdrawal of one row relative to another. Two listings over
twelve scripts are two elements of one answer, of two regions, or of two runs, which
is all that a left-over value or a repeated row relates. In the pipeline two os-links
of a leg share a list file, and a third link carries no channel. Two workers and two
adders compete for one place on the queue, so that a notification has a wrong
receiver whenever there is one; of the three tasks one does not wait, one waits for a
time and one for ever, and that one may expire; two resizing calls grow the pool and
shrink it before it is stopped. The five events are one that fits, two
that need a new chunk, one the writer finds too large and one `write` refuses; two
errors let an error follow a recovery; blocks of three bytes in chunks of four make
`offset_` and the end of the file differ.

Fairness. `AttemptEnds`, `OchRunEnds` and `ImportEnds` assume weak fairness of the steps
of a started process: a PHP process is scheduled until it ends, and each database call
returns or throws, the drivers having timeouts of their own. The mail has one of 30 s;
the client library of the queue is not in the repository and is taken to return, too. In
the pipeline only the steps of `ochLinkTrans` are fair, which takes its `continue` for
the channels that are gone. The queries of the transfer scripts to the controllers have no timeout
(`toopTransfer/lib/Util.php:57`): what they answer is part of `list`, so that `AttemptEnds` is
about a run whose controllers have answered. Nothing is assumed of the operator, the
site or crashes. `RunAllEnds` assumes in its statement what the collectors cannot bring
about: that MySQL is reachable from some time on, since they retry without limit, and
that no query of a controller lasts for ever, since `curl_exec` has no timeout. It says
that nothing else keeps `runAll.sh` from its end.
`ControllerReturns` assumes weak fairness of each worker, woken adder and controller that
is not in `wait()`: the operating system schedules them, and tasks end. The properties of
`FileTransport` assume it of the writer thread and of time; of the client, strong
fairness, since the writer takes `mutex_` and lets it go again and again and the client
must get it at some time. Opening the file again is not assumed to succeed, nor does
anyone have to call `add`, `write`, `flush` or `stop`.

### Findings

Four runs are expected to violate their property.

- `shared_node`: `phyNodeTrans` inserts a second document for a node that two
  tunnels share, since the variable tested at line 111 is not reset. The comment at
  line 134 expects only the delete to have nothing to do.
- `site_node_a`: for site A the merge at `siteTopoTrans.php:453` is shallow and
  replaces GD's lists; the comment at line 455 says the data of the three are
  put together.
- `site_node_b_rerun`: run again after it died past a South delete of site B, between
  the two deletes in the shortest trace, `siteTopoTrans` merges nulls and overwrites
  GD's node B. In the first run B and C are right (`SiteDataKeptOnFirstRun`, and
  `TowersMergedOnce`, which is proved).
- `file_chunk`: after an error `TFileTransport` opens the file again and takes `offset_` as
  `seekToEnd` leaves it, without adding `lastDispatchPtr_` as the start of the writer
  does. The test at the comment "make sure that msg does not cross chunk boundary"
  (`TFileTransport.cpp:444`) is then made with a place before the end of the file, and an
  event crosses. `CrossingNeedsReopen` shows that this is the only way.

`BlockedAddNeedsExcuse` and `FlushReturnsUnlessError` name exceptions the code has and no
comment rules out: `removeNextPending` and the expiry of tasks make room without
notifying `maxMonitor_` (as would a higher limit, which is a constant here), and `flush`
after an error waits for an event nobody may write.

## 4. Proofs

Every invariant of a passing run is also a theorem, for all values of the constants that
meet the ASSUMEs of the component's module. Few of these invariants are inductive. The
proofs rest on invariants that say what each program counter knows; TLC checked these
on the instances of section 3 before they were proved.

`DocTransferProofs`, for every script, from the types of the data and, for the scripts that
keep the last document of a cursor, unique keys:

- `TypeCorrect`, `TransferLosesNothing`: `NoSilentLoss` alone is not inductive, since
  `DeleteOk` removes documents whatever GD has. `ItemInv` says what the program
  counter knows: while inserting, the matching documents are those waiting or
  already in GD; before the delete all are in GD or reported.
- `FinishedRunsEmptySouth`: South stays empty of the keys before index `i`
  (`src` only shrinks), and `done` is reached only with `i` past the list.
- `CopiesBounded`: a document still in South has room for one more insert in the
  current run; the item's place in the run decides how much.
- `RefsRewritten`: what `new` holds was read on a leg whose list names the document
  (`LegInv`), and it keeps that leg when a later item inserts it again.
- `TransferImplementsMigration`: under `merged = {d : Moved(d)}` an insert is a `Copy`
  (or a stutter for a second copy), a tolerated failure a `Report`, a delete a
  `Drop`, by `ItemInv`.

`LinkPipelineProofs`. `PipelineAssumption` says that a channel has a key and a database, as
every document has, and that "no channel" is not a key.

- `ChannelsFollow`: the link that `phyLinkTrans` works on, and every link that has left
  South, has its channel in the list file of a leg of its database (`PhyInv`; the files only
  grow). `ochLinkTrans` has all that is noted in its work list, and the items before its
  index have no document in South any more (`OchInv`); it ends well only past
  the last item.

`SiteTopoProofs`, for any amplifiers, lists and number of attempts; `NullAssumption` says
that null is neither a site id nor a list, so that the two tests for it can be told apart:

- `ViewLinksKept`, `ViewLinksWhole`: as long as the South 2 link is there, so is the South 1
  link, which brings the id; a link is deleted only when GD has its reference or its
  insert was reported (`LinkInv`).
- `ViewLinksMerged`, `SiteDataKept`, `TowersMerged`: until the first run gets to a stage,
  South and GD are as they were at its start (`Untouched`); before it deletes
  anything, GD's document is the merged one (`FirstLinkInv`, `NodeInv`). Nothing of the
  kind holds of a second run, as the findings show.
- `NodesNotMixed`: the variables the sites share are never reset, so `NoForeignParts` needs to
  know what is in them when a document is missing. The South documents go in the
  order of the sites (`OrderInv`): one of B or C is gone only when both of the sites
  before are. So a run has the variables unset, or all it has yet to read is there
  (`ShareInv`).
- `AmplifiersKept`, `AmplifiersNeverCollide`: an amplifier is deleted only when GD has it
  (`AmplifierInv`), as an insert that fails in whatever way ends the run; in the first
  run at most the amplifier about to be deleted is in both databases
  (`FirstAmplifierInv`).

`AmThresholdProofs`, for any set of runs:

- `ThresholdDocUnique`: a document in the database excludes a run about to insert,
  and there is at most one such run (`LockInv`).
- `DeletesRead`: without overlap, what a run holds is what the document says, and it
  is the only run between its read and its insert (`ReadInv`).
- `NullAccounted`: with no excuse, every document holds numbers and so does every value that
  was read (`NumberInv`). The theorem's hypothesis `NumbersAtStart`, that the
  document found at the start has no null in it, is needed: a null read is a null written.
- `LossAccounted`, `TypeCorrect`.

`VideoImportProofs`, for any number of rows and imports. `ImportInv` has a part for each
property: file and variable agree while an import runs, and the cursor is
within the table, which only grows (`CursorInv`); the row about to be passed was
handled (`PassInv`, for `NoRowSkipped`); a row not passed yet was handed over only by
imports that died (`RepeatInv`, for `RepeatsBounded`); what is in the log is mailed before the
log is removed (`MailInv`), and the deletions that neither log, mail nor failure accounts
for are at most the imports that died: a death adds no more than the row in hand, and a
row deleted once is logged by any import that comes to it again (`DeletedInv`, for
`DeletionsAreReported`); the row about to be logged was
deleted (`OnlyInv`, for `NothingElseReported`).

`NeCollectorProofs`, for any answers of the controllers:

- `RowsDistinct`: the rows of this run are of scripts already started and, for the one
  that runs, of elements before its index (`RowInv`); regions differ from script to script.
- `ValuesStayInRegion`: the variables hold values of elements the script has come to
  (`ValuesInv`).
- `NothingUncollected`: every element before the index has its row or its log
  entry (`HandledInv`).

`ThreadManagerProofs`, for any tasks and limit and any finite sets of threads
(`PoolAssumption`; the counters of the code count threads):

- `PendingLimit`: with `LimitKept`, the inductive invariant says that an adder waiting or
  woken has a task in hand, so that what is pushed is one task. That the expired tasks
  are a prefix of the queue takes the least index of a task with time left
  (`PrefixOfQueue`).
- `WorkersNotSleptOn`: `idleCount_` and `workerCount_` are the numbers of workers at certain
  places (`CountInv`), and a worker sleeps only in a pool that is not to shrink: so a
  worker that was woken cannot leave while another sleeps and swallow the wakeup
  (`SleepInv`). `Shift` counts what the move of one thread does to such a number.
- `TasksNeverLost`: the accepted tasks are partitioned into those queued, held, executed,
  expired and handed back; the task of an adder asleep in `add` is none of them
  (`PlaceInv`).
- `AddersNotLeftAsleep`: while adders sleep, woken adders and queued tasks together fill the
  limit, unless a task was handed back or expired (`RoomInv`).

`FileTransportProofs`, for any events, sizes, chunk and buffer sizes and number of errors:

- `EventsKeptInOrder`: the file, `dequeueBuffer_` and `enqueueBuffer_` are each in order and
  follow each other, and together hold what was accepted and not dropped (`OrderInv`). A
  swap keeps that because `dequeueBuffer_` is empty when it happens (`PhaseInv`).
- `FlushIsComplete`: the writer gets to answer a flush only with both buffers empty and the
  file synced, and no event is added while the client waits (`FlushInv`).
- `CloseIsComplete`: without errors the writer goes only with everything written and
  synced (`ErrorInv`).
- `ChunksKept`: `offset_` is the end of the file until the file is opened again
  (`OffsetInv`), also after the start on a file with a torn event.

Only model-checked: liveness (`AttemptEnds`, `OchRunEnds`, `ImportEnds`, `RunAllEnds`, `ControllerReturns`,
`DestructorReturns`, `SyncedInTime`, `FlushReturnsUnlessError`), which is out of the prover's
reach; and `JoinFinishesWork`, which holds for one controller and not for two: a second
`stop` or `join` sets `STOPPED` while the first still waits for its workers.

## 5. Not modelled, and the plan

1. Proofs: `JoinFinishesWork` of `ThreadManager`, under the assumption of one controller.
2. The list of tunnels in front of the pipeline, with `mongoTunnelRestore` after a partial
   migration, and the page limits of the controller queries.
3. `IpPool`: the address arithmetic of `toopEdit` against a reference definition.
4. `AladingExport`: paging against a changing table.
5. Of Thrift, `TimerManager` and the hand-over of connections in `TNonblockingServer`;
   reading in `TFileTransport`.

Left out for good: the Thrift compiler, which is most of the C++ in this repository. It
is a sequential program of some twenty generators that print source text and two
generated tables of a parser; a model would be about wording, and nothing runs
concurrently, fails or is repeated there. Likewise Thrift's protocols (encodings
of values), its sockets (single system calls), and its libraries for other
languages. Of the scripts: the HBase clients and TDW exports, the page and cache scripts
of `video/`, the logging helpers and the container image, which make single calls to outside
services, without state or order to get wrong.
