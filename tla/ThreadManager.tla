--------------------------- MODULE ThreadManager ---------------------------
(***************************************************************************)
(* concurrency/ThreadManager.cpp of the Thrift C++ library: a pool of      *)
(* worker threads that take tasks from a bounded queue.  Three kinds of    *)
(* threads meet here: the workers, the adders, which call add(), and the   *)
(* controllers, which resize, stop or join the pool.                       *)
(*                                                                         *)
(* A critical section is one action: the thread that enters it holds       *)
(* mutex_ (of monitor_ and maxMonitor_) or the mutex of workerMonitor_ to  *)
(* its end or to its wait().  A thread in wait() is "waiting"; notify()    *)
(* makes it "woken", and it takes the mutex again in a later step.         *)
(***************************************************************************)
EXTENDS Naturals, Sequences, FiniteSets

CONSTANTS
  Workers,       \* bound: the worker threads that may be created
  Adders,        \* the threads that add tasks
  Controllers,   \* the threads that resize and stop the pool
  Tasks,         \* the tasks there are to add
  Timeout,       \* Timeout[t]: "forever", "some" or "none", as t is added
  Expiring,      \* the tasks that are added with an expiration
  PendingMax,    \* pendingTaskCountMax_, 0 for no limit; a constant: its setter is not modelled
  MaxCalls,      \* bound: how often the pool is resized
  None           \* no task

VARIABLES
  state, workerCount, workerMaxCount, idleCount, tasks,    \* the members of Impl
  wpc,       \* where each worker is
  wtask,     \* the task each worker executes
  apc,       \* where each adder is
  atask,     \* the task each adder adds
  cpc,       \* where each controller is
  op,        \* what each controller does: "add", "remove" or "stop"
  starting,  \* the threads a controller has created and not started
  late,      \* tasks whose expiration time is over
  accepted,  \* history: tasks that were put on the queue
  lateAdds,  \* history: tasks put on the queue when the pool was no longer STARTED
  ran,       \* history: how often each task was executed
  expired,   \* history: tasks dropped by removeExpiredTasks
  drained,   \* history: tasks returned by removeNextPending
  manned,    \* history: whether the pool had workers when it was stopped or joined
  calls      \* history: number of resizing calls

manager == <<state, workerCount, workerMaxCount, idleCount>>
history == <<accepted, lateAdds, ran, expired, drained>>
adders == <<apc, atask>>
controllers == <<cpc, op, starting, manned, calls>>
vars == <<state, workerCount, workerMaxCount, idleCount, tasks, wpc, wtask, apc, atask,
          cpc, op, starting, late, accepted, lateAdds, ran, expired, drained, manned, calls>>

ASSUME PoolAssumption ==
  /\ Timeout \in [Tasks -> {"forever", "some", "none"}]
  /\ Expiring \subseteq Tasks
  /\ PendingMax \in Nat /\ MaxCalls \in Nat
  /\ None \notin Tasks
  /\ IsFiniteSet(Workers) /\ IsFiniteSet(Adders)

Init ==
  /\ state = "UNINITIALIZED"
  /\ workerCount = 0 /\ workerMaxCount = 0 /\ idleCount = 0
  /\ tasks = <<>>
  /\ wpc = [w \in Workers |-> "new"] /\ wtask = [w \in Workers |-> None]
  /\ apc = [a \in Adders |-> "ready"] /\ atask = [a \in Adders |-> None]
  /\ cpc = [c \in Controllers |-> "ready"] /\ op = [c \in Controllers |-> "add"]
  /\ starting = [c \in Controllers |-> {}]
  /\ late = {}
  /\ accepted = {} /\ lateAdds = {}
  /\ ran = [t \in Tasks |-> 0]
  /\ expired = {} /\ drained = {}
  /\ manned = FALSE
  /\ calls = 0

-----------------------------------------------------------------------------
(* Monitors *)

Waiting(f) == {x \in DOMAIN f : f[x] = "waiting"}

\* What notify() makes of the places f: one waiting thread is woken, if any.
NotifyOne(f) ==
  IF Waiting(f) = {} THEN {f} ELSE {[f EXCEPT ![x] = "woken"] : x \in Waiting(f)}

\* n calls of notify(): that many waiting threads are woken, or all.
NotifySome(f, n) ==
  {[x \in DOMAIN f |-> IF x \in S THEN "woken" ELSE f[x]] :
     S \in {S \in SUBSET Waiting(f) :
              Cardinality(S) = n \/ (Cardinality(S) < n /\ S = Waiting(f))}}

NotifyAll(f) == [x \in DOMAIN f |-> IF f[x] = "waiting" THEN "woken" ELSE f[x]]

-----------------------------------------------------------------------------
(* The queue *)

\* removeExpiredTasks: the tasks at the front whose time is over are dropped,
\* up to the first that has time left.
ExpiredPrefix ==
  CHOOSE n \in 0 .. Len(tasks) :
    /\ \A k \in 1 .. n : tasks[k] \in late
    /\ n < Len(tasks) => tasks[n + 1] \notin late

ExpiredTasks == {tasks[k] : k \in 1 .. ExpiredPrefix}
Unexpired == SubSeq(tasks, ExpiredPrefix + 1, Len(tasks))

Full(q) == PendingMax > 0 /\ Len(q) >= PendingMax

\* Mutant: off by one, the last idle worker is not notified.
PushQuietly(t, q, f) ==
  /\ tasks' = Append(q, t)
  /\ accepted' = accepted \cup {t}
  /\ lateAdds' = IF state = "STARTED" THEN lateAdds ELSE lateAdds \cup {t}
  /\ IF idleCount > 1 THEN wpc' \in NotifyOne(f) ELSE wpc' = f

\* The task is put on the queue q, and an idle worker is notified.
Push(t, q, f) ==
  /\ tasks' = Append(q, t)
  /\ accepted' = accepted \cup {t}
  /\ lateAdds' = IF state = "STARTED" THEN lateAdds ELSE lateAdds \cup {t}
  /\ IF idleCount > 0 THEN wpc' \in NotifyOne(f) ELSE wpc' = f

\* The time of a task on the queue runs out.
Elapse(t) ==
  /\ t \in Expiring \ late
  /\ \E k \in DOMAIN tasks : tasks[k] = t
  /\ late' = late \cup {t}
  /\ UNCHANGED <<manager, tasks, wpc, wtask, adders, controllers, history>>

-----------------------------------------------------------------------------
(* add *)

Fresh == {t \in Tasks \ accepted : \A a \in Adders : atask[a] # t}

\* add() throws at once: not STARTED, or no room and no time to wait for it.
AddThrows(a, t) ==
  /\ apc[a] = "ready" /\ t \in Fresh
  /\ \/ state # "STARTED" /\ UNCHANGED <<tasks, expired>>
     \/ /\ state = "STARTED" /\ Full(Unexpired) /\ Timeout[t] = "none"
        /\ tasks' = Unexpired /\ expired' = expired \cup ExpiredTasks
  /\ UNCHANGED <<manager, wpc, wtask, adders, controllers, late, accepted, lateAdds, ran, drained>>

\* There is room.
Add(a, t) ==
  /\ apc[a] = "ready" /\ t \in Fresh
  /\ state = "STARTED" /\ ~ Full(Unexpired)
  /\ expired' = expired \cup ExpiredTasks
  /\ Push(t, Unexpired, wpc)
  /\ UNCHANGED <<manager, wtask, adders, controllers, late, ran, drained>>

\* There is none: the adder waits on maxMonitor_.
AddWaits(a, t) ==
  /\ apc[a] = "ready" /\ t \in Fresh
  /\ state = "STARTED" /\ Full(Unexpired) /\ Timeout[t] # "none"
  /\ tasks' = Unexpired /\ expired' = expired \cup ExpiredTasks
  /\ apc' = [apc EXCEPT ![a] = "waiting"]
  /\ atask' = [atask EXCEPT ![a] = t]
  /\ UNCHANGED <<manager, wpc, wtask, controllers, late, accepted, lateAdds, ran, drained>>

\* Mutant: a woken adder does not look again.
AddUnchecked(a) ==
  /\ apc[a] = "woken"
  /\ Push(atask[a], tasks, wpc)
  /\ apc' = [apc EXCEPT ![a] = "ready"] /\ atask' = [atask EXCEPT ![a] = None]
  /\ UNCHANGED <<manager, wtask, controllers, late, ran, expired, drained>>

\* The adder was woken: it waits again, or adds its task, in whatever state
\* the pool is by now.
AddWoken(a) ==
  /\ apc[a] = "woken"
  /\ \/ /\ Full(tasks)
        /\ apc' = [apc EXCEPT ![a] = "waiting"]
        /\ UNCHANGED <<tasks, wpc, atask, accepted, lateAdds>>
     \/ /\ ~ Full(tasks)
        /\ Push(atask[a], tasks, wpc)
        /\ apc' = [apc EXCEPT ![a] = "ready"] /\ atask' = [atask EXCEPT ![a] = None]
  /\ UNCHANGED <<manager, wtask, controllers, late, ran, expired, drained>>

\* The wait of the adder times out, and add() throws.
AddTimesOut(a) ==
  /\ apc[a] = "waiting" /\ Timeout[atask[a]] = "some"
  /\ apc' = [apc EXCEPT ![a] = "ready"] /\ atask' = [atask EXCEPT ![a] = None]
  /\ UNCHANGED <<manager, tasks, wpc, wtask, controllers, late, history>>

\* removeNextPending, which does not notify maxMonitor_.
removeNextPending(a) ==
  /\ apc[a] = "ready" /\ state = "STARTED" /\ tasks # <<>>
  /\ tasks' = Tail(tasks)
  /\ drained' = drained \cup {Head(tasks)}
  /\ UNCHANGED <<manager, wpc, wtask, adders, controllers, late, accepted, lateAdds, ran, expired>>

-----------------------------------------------------------------------------
(* Worker::run *)

isActive ==
  workerCount <= workerMaxCount \/ (state = "JOINING" /\ tasks # <<>>)

\* The worker counts itself in, unless the pool is large enough by now.
Enter(w) ==
  /\ wpc[w] = "born"
  /\ LET active == workerCount < workerMaxCount
     IN  /\ workerCount' = IF active THEN workerCount + 1 ELSE workerCount
         /\ wpc' = [wpc EXCEPT ![w] =
              IF ~ active THEN "leave"
              ELSE IF workerCount' = workerMaxCount THEN "entered" ELSE "loop"]
  /\ UNCHANGED <<state, workerMaxCount, idleCount, tasks, wtask, adders, controllers, late, history>>

\* It was the last to enter, and notifies the controller.
NotifyEntered(w) ==
  /\ wpc[w] = "entered"
  /\ wpc' = [wpc EXCEPT ![w] = "loop"]
  /\ cpc' \in NotifyOne(cpc)
  /\ UNCHANGED <<manager, tasks, wtask, adders, op, starting, manned, calls, late, history>>

Ready(w) == wpc[w] \in {"loop", "woken"}

\* idleCount_ without the worker, if it was counted as idle.
OtherIdle(w) == IF wpc[w] = "woken" THEN idleCount - 1 ELSE idleCount

\* No task: the worker waits on monitor_.
Idle(w) ==
  /\ Ready(w) /\ isActive /\ tasks = <<>>
  /\ idleCount' = OtherIdle(w) + 1
  /\ wpc' = [wpc EXCEPT ![w] = "waiting"]
  /\ UNCHANGED <<state, workerCount, workerMaxCount, tasks, wtask, adders, controllers, late, history>>

\* All tasks on the queue had expired: nothing to execute.
TakeNothing(w) ==
  /\ Ready(w) /\ isActive /\ tasks # <<>> /\ Unexpired = <<>>
  /\ idleCount' = OtherIdle(w)
  /\ tasks' = <<>> /\ expired' = expired \cup ExpiredTasks
  /\ wpc' = [wpc EXCEPT ![w] = "loop"]
  /\ UNCHANGED <<state, workerCount, workerMaxCount, wtask, adders, controllers, late,
                 accepted, lateAdds, ran, drained>>

\* Mutant: off by one, the adders are notified only if the queue was over its limit.
TakeQuietly(w) ==
  /\ Ready(w) /\ isActive /\ Unexpired # <<>>
  /\ idleCount' = OtherIdle(w)
  /\ tasks' = Tail(Unexpired) /\ expired' = expired \cup ExpiredTasks
  /\ wpc' = [wpc EXCEPT ![w] = "execute"]
  /\ wtask' = [wtask EXCEPT ![w] = Head(Unexpired)]
  /\ IF Len(tasks) > PendingMax THEN apc' \in NotifyOne(apc) ELSE apc' = apc
  /\ UNCHANGED <<state, workerCount, workerMaxCount, atask, controllers, late,
                 accepted, lateAdds, ran, drained>>

\* Mutant: the task is left at the front of the queue.
TakeWithoutPop(w) ==
  /\ Ready(w) /\ isActive /\ Unexpired # <<>>
  /\ idleCount' = OtherIdle(w)
  /\ tasks' = Unexpired /\ expired' = expired \cup ExpiredTasks
  /\ wpc' = [wpc EXCEPT ![w] = "execute"]
  /\ wtask' = [wtask EXCEPT ![w] = Head(Unexpired)]
  /\ UNCHANGED <<state, workerCount, workerMaxCount, adders, controllers, late,
                 accepted, lateAdds, ran, drained>>

\* The first task that has not expired is taken.  If that leaves room under
\* the limit, one waiting adder is notified.
Take(w) ==
  /\ Ready(w) /\ isActive /\ Unexpired # <<>>
  /\ idleCount' = OtherIdle(w)
  /\ tasks' = Tail(Unexpired) /\ expired' = expired \cup ExpiredTasks
  /\ wpc' = [wpc EXCEPT ![w] = "execute"]
  /\ wtask' = [wtask EXCEPT ![w] = Head(Unexpired)]
  /\ IF PendingMax > 0 /\ ~ Full(tasks') THEN apc' \in NotifyOne(apc) ELSE apc' = apc
  /\ UNCHANGED <<state, workerCount, workerMaxCount, atask, controllers, late,
                 accepted, lateAdds, ran, drained>>

\* The task runs to its end, or throws, which is caught.
Execute(w) ==
  /\ wpc[w] = "execute"
  /\ ran' = [ran EXCEPT ![wtask[w]] = @ + 1]
  /\ wtask' = [wtask EXCEPT ![w] = None]
  /\ wpc' = [wpc EXCEPT ![w] = "loop"]
  /\ UNCHANGED <<manager, tasks, adders, controllers, late, accepted, lateAdds, expired, drained>>

\* The task that runs adds another.  A worker may not sleep (canSleep), so
\* add() throws if there is no room.
ExecuteAdds(w, t) ==
  /\ wpc[w] = "execute" /\ t \in Fresh
  /\ state = "STARTED"
  /\ expired' = expired \cup ExpiredTasks
  /\ \/ Full(Unexpired) /\ tasks' = Unexpired /\ UNCHANGED <<wpc, accepted, lateAdds>>
     \/ ~ Full(Unexpired) /\ Push(t, Unexpired, wpc)
  /\ UNCHANGED <<manager, wtask, adders, controllers, late, ran, drained>>

\* The pool has shrunk: the worker counts itself out, and remembers whether
\* it was the last to do so.
Quit(w) ==
  /\ Ready(w) /\ ~ isActive
  /\ idleCount' = OtherIdle(w)
  /\ workerCount' = workerCount - 1
  /\ wpc' = [wpc EXCEPT ![w] = IF workerCount' = workerMaxCount THEN "leaveLast" ELSE "leave"]
  /\ UNCHANGED <<state, workerMaxCount, tasks, wtask, adders, controllers, late, history>>

\* Mutant: nobody is notified.
LeaveQuietly(w) ==
  /\ wpc[w] \in {"leave", "leaveLast"}
  /\ wpc' = [wpc EXCEPT ![w] = "dead"]
  /\ UNCHANGED <<manager, tasks, wtask, adders, controllers, late, history>>

\* The worker enters deadWorkers_; the last one notifies the controller.
Leave(w) ==
  /\ wpc[w] \in {"leave", "leaveLast"}
  /\ wpc' = [wpc EXCEPT ![w] = "dead"]
  /\ IF wpc[w] = "leaveLast" THEN cpc' \in NotifyOne(cpc) ELSE cpc' = cpc
  /\ UNCHANGED <<manager, tasks, wtask, adders, op, starting, manned, calls, late, history>>

-----------------------------------------------------------------------------
(* start, addWorker, removeWorker, stop and join *)

\* Workers that were added before the start, and wait, are all woken.
start(c) ==
  /\ cpc[c] = "ready" /\ state = "UNINITIALIZED"
  /\ state' = "STARTED"
  /\ wpc' = NotifyAll(wpc)
  /\ UNCHANGED <<workerCount, workerMaxCount, idleCount, tasks, wtask, adders, controllers, late, history>>

\* Threads are created and the pool is to grow by them.
addWorker(c, new) ==
  /\ cpc[c] = "ready" /\ calls < MaxCalls
  /\ new # {} /\ \A w \in new : wpc[w] = "new" /\ \A d \in Controllers : w \notin starting[d]
  /\ workerMaxCount' = workerMaxCount + Cardinality(new)
  /\ starting' = [starting EXCEPT ![c] = new]
  /\ cpc' = [cpc EXCEPT ![c] = "startThreads"] /\ op' = [op EXCEPT ![c] = "add"]
  /\ calls' = calls + 1
  /\ UNCHANGED <<state, workerCount, idleCount, tasks, wpc, wtask, adders, manned, late, history>>

StartThread(c, w) ==
  /\ cpc[c] = "startThreads" /\ w \in starting[c]
  /\ wpc' = [wpc EXCEPT ![w] = "born"]
  /\ starting' = [starting EXCEPT ![c] = @ \ {w}]
  /\ cpc' = [cpc EXCEPT ![c] = IF starting'[c] = {} THEN "await" ELSE "startThreads"]
  /\ UNCHANGED <<manager, tasks, wtask, adders, op, manned, calls, late, history>>

\* The pool is to shrink by n, and idle workers are to find out.
Shrink(n) ==
  /\ workerMaxCount' = workerMaxCount - n
  /\ IF idleCount < n THEN wpc' \in NotifySome(wpc, idleCount) ELSE wpc' = NotifyAll(wpc)

\* More than there are: removeWorker throws, which is no step here.
removeWorker(c, n) ==
  /\ cpc[c] = "ready" /\ calls < MaxCalls
  /\ n <= workerMaxCount
  /\ Shrink(n)
  /\ cpc' = [cpc EXCEPT ![c] = "await"] /\ op' = [op EXCEPT ![c] = "remove"]
  /\ calls' = calls + 1
  /\ UNCHANGED <<state, workerCount, idleCount, tasks, wtask, adders, starting, manned, late, history>>

\* stop and join; a second call finds the first under way and goes on to the
\* last statement of stopImpl.
stopImpl(c, join) ==
  /\ cpc[c] = "ready" /\ state # "STOPPED"
  /\ IF state \in {"STOPPING", "JOINING"}
       THEN cpc' = [cpc EXCEPT ![c] = "stopped"] /\ UNCHANGED <<state, manned>>
       ELSE /\ manned' = (workerCount > 0)
            /\ state' = IF join THEN "JOINING" ELSE "STOPPING"
            /\ cpc' = [cpc EXCEPT ![c] = "removeAll"]
  /\ UNCHANGED <<workerCount, workerMaxCount, idleCount, tasks, wpc, wtask, adders, op,
                 starting, calls, late, history>>

\* removeWorker(workerCount_), as called by stopImpl.
RemoveAll(c) ==
  /\ cpc[c] = "removeAll"
  /\ op' = [op EXCEPT ![c] = "stop"]
  /\ IF workerCount > workerMaxCount
       THEN cpc' = [cpc EXCEPT ![c] = "ready"] /\ UNCHANGED <<workerMaxCount, wpc>>
       ELSE Shrink(workerCount) /\ cpc' = [cpc EXCEPT ![c] = "await"]
  /\ UNCHANGED <<state, workerCount, idleCount, tasks, wtask, adders, starting, manned, calls, late, history>>

\* Mutant: join does not wait for the workers.
AwaitNothing(c) ==
  /\ cpc[c] \in {"await", "woken"}
  /\ cpc' = [cpc EXCEPT ![c] = IF op[c] = "stop" THEN "stopped" ELSE "ready"]
  /\ UNCHANGED <<manager, tasks, wpc, wtask, adders, op, starting, manned, calls, late, history>>

\* The controller waits on workerMonitor_ until the pool has its size, and
\* then, if it was to shrink, forgets the threads that are dead.
Await(c) ==
  /\ cpc[c] \in {"await", "woken"}
  /\ IF workerCount # workerMaxCount
       THEN cpc' = [cpc EXCEPT ![c] = "waiting"] /\ wpc' = wpc
       ELSE /\ cpc' = [cpc EXCEPT ![c] = IF op[c] = "stop" THEN "stopped" ELSE "ready"]
            /\ wpc' = [w \in Workers |->
                 IF op[c] # "add" /\ wpc[w] = "dead" THEN "reaped" ELSE wpc[w]]
  /\ UNCHANGED <<manager, tasks, wtask, adders, op, starting, manned, calls, late, history>>

\* The last statement of stopImpl.
SetStopped(c) ==
  /\ cpc[c] = "stopped"
  /\ state' = "STOPPED"
  /\ cpc' = [cpc EXCEPT ![c] = "ready"]
  /\ UNCHANGED <<workerCount, workerMaxCount, idleCount, tasks, wpc, wtask, adders, op,
                 starting, manned, calls, late, history>>

-----------------------------------------------------------------------------
WorkerStep(w) ==
  \/ Enter(w) \/ NotifyEntered(w) \/ Idle(w) \/ TakeNothing(w) \/ Take(w)
  \/ Execute(w) \/ Quit(w) \/ Leave(w)

AdderCalls(a) ==
  \/ \E t \in Tasks : AddThrows(a, t) \/ Add(a, t) \/ AddWaits(a, t)
  \/ removeNextPending(a)

ControllerCalls(c) ==
  \/ start(c)
  \/ \E new \in SUBSET Workers : addWorker(c, new)
  \/ \E n \in 1 .. Cardinality(Workers) : removeWorker(c, n)
  \/ \E join \in BOOLEAN : stopImpl(c, join)

ControllerStep(c) ==
  (\E w \in Workers : StartThread(c, w)) \/ RemoveAll(c) \/ Await(c) \/ SetStopped(c)

Next ==
  \/ \E w \in Workers : WorkerStep(w) \/ \E t \in Tasks : ExecuteAdds(w, t)
  \/ \E a \in Adders : AdderCalls(a) \/ AddWoken(a) \/ AddTimesOut(a)
  \/ \E c \in Controllers : ControllerCalls(c) \/ ControllerStep(c)
  \/ \E t \in Tasks : Elapse(t)

Spec == Init /\ [][Next]_vars

\* Threads that are not waiting are scheduled, and tasks end.  Nothing makes
\* anyone call add, resize or stop.
FairSpec ==
  /\ Spec
  /\ \A w \in Workers : WF_vars(WorkerStep(w))
  /\ \A a \in Adders : WF_vars(AddWoken(a))
  /\ \A c \in Controllers : WF_vars(ControllerStep(c))

-----------------------------------------------------------------------------
(* Properties *)

TypeOK ==
  /\ state \in {"UNINITIALIZED", "STARTED", "JOINING", "STOPPING", "STOPPED"}
  /\ workerCount \in Nat /\ workerMaxCount \in Nat /\ idleCount \in Nat
  /\ tasks \in Seq(Tasks)
  /\ wpc \in [Workers -> {"new", "born", "entered", "loop", "waiting", "woken", "execute",
                          "leave", "leaveLast", "dead", "reaped"}]
  /\ wtask \in [Workers -> Tasks \cup {None}]
  /\ apc \in [Adders -> {"ready", "waiting", "woken"}]
  /\ atask \in [Adders -> Tasks \cup {None}]
  /\ cpc \in [Controllers -> {"ready", "startThreads", "removeAll", "await", "waiting",
                              "woken", "stopped"}]
  /\ op \in [Controllers -> {"add", "remove", "stop"}]
  /\ starting \in [Controllers -> SUBSET Workers]
  /\ late \subseteq Tasks
  /\ accepted \subseteq Tasks /\ lateAdds \subseteq Tasks
  /\ ran \in [Tasks -> Nat]
  /\ expired \subseteq Tasks /\ drained \subseteq Tasks
  /\ manned \in BOOLEAN
  /\ calls \in 0 .. MaxCalls

Queued(t) == {k \in DOMAIN tasks : tasks[k] = t}
Executing(t) == {w \in Workers : wtask[w] = t}
Finished(t) == ran[t] > 0 \/ t \in expired \/ t \in drained

\* A task that was accepted is in one place: on the queue, with one worker, or
\* finished, and it was executed at most once and only if it neither expired
\* nor was handed back.
TasksAccounted ==
  \A t \in accepted :
    Cardinality(Queued(t)) + Cardinality(Executing(t)) + ran[t]
      + Cardinality({t} \cap expired) + Cardinality({t} \cap drained) = 1

\* No wakeup of a worker is lost: as long as a worker sleeps, there is a worker
\* awake and not busy for every task on the queue.
NoTaskSleptOn ==
  Waiting(wpc) # {} =>
    Cardinality({w \in Workers : wpc[w] \in {"entered", "loop", "woken"}}) >= Len(tasks)

\* The limit on pending tasks is kept, also by adders that are woken late and
\* by adders that slip in between.
LimitKept == PendingMax > 0 => Len(tasks) <= PendingMax

\* An adder that sleeps although there is room, with no other adder woken in
\* its place, needs one of the two ways to make room that notify nobody.  (The
\* limit is a constant here; the setter pendingTaskCountMax(value), when it
\* raises the limit of a running pool, is a third: it notifies nobody either.)
BlockedAddNeedsExcuse ==
  Waiting(apc) # {} /\ ~ Full(tasks) =>
    \/ \E a \in Adders : apc[a] = "woken"
    \/ drained \cup expired # {}

\* When join is through, the tasks that were accepted are finished, except
\* those of adders who were asleep in add() when it was called; unless the
\* pool had no worker to do it.
JoinFinishesWork ==
  [][state = "JOINING" /\ state' = "STOPPED" /\ manned =>
       \A t \in accepted \ lateAdds : Finished(t)]_vars

\* addWorker, removeWorker, stop and join return, if tasks do: the last worker
\* to come or go notifies the controller, which does not miss it.
ControllerReturns == \A c \in Controllers : cpc[c] # "ready" ~> cpc[c] = "ready"
=============================================================================
