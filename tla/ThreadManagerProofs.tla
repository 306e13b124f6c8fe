------------------------ MODULE ThreadManagerProofs ------------------------
(* What TLAPS proves of ThreadManager, for any threads, tasks and limit. *)
EXTENDS ThreadManager, FiniteSetTheorems, WellFoundedInduction, TLAPS

\* The queue holds tasks, and an adder in add() has one to put there.
QueueInv ==
  /\ tasks \in Seq(Tasks)
  /\ apc \in [Adders -> {"ready", "waiting", "woken"}]
  /\ atask \in [Adders -> Tasks \cup {None}]
  /\ \A a \in Adders : apc[a] # "ready" => atask[a] \in Tasks

LimitInv == QueueInv /\ LimitKept

\* A set of natural numbers has a least element.
LEMMA LeastNatural ==
  ASSUME NEW S, S \subseteq Nat, S # {}
  PROVE  \E n \in S : \A m \in S : n <= m
<1> DEFINE R == OpToRel(<, Nat)
<1>1. \A x, y \in Nat : x < y => <<x, y>> \in R
  BY DEF OpToRel
<1>2. IsWellFoundedOn(R, Nat)
  BY NatLessThanWellFounded
<1> HIDE DEF R
<1>3. PICK n \in S : \A m \in S : ~ (<<m, n>> \in R)
  BY <1>2, WFMin
<1>4. \A m \in S : ~ (m < n)
  BY <1>1, <1>3
<1> QED BY <1>3, <1>4

\* removeExpiredTasks stops somewhere on the queue.
LEMMA PrefixOfQueue ==
  ASSUME tasks \in Seq(Tasks)
  PROVE  ExpiredPrefix \in 0 .. Len(tasks)
<1> DEFINE P(n) == /\ \A k \in 1 .. n : tasks[k] \in late
                   /\ n < Len(tasks) => tasks[n + 1] \notin late
           S == {n \in Nat : n < Len(tasks) => tasks[n + 1] \notin late}
<1>1. Len(tasks) \in Nat
  OBVIOUS
<1>2. Len(tasks) \in S
  BY <1>1
<1>3. PICK n \in S : \A m \in S : n <= m
  <2>1. S \subseteq Nat /\ S # {}
    BY <1>2
  <2> HIDE DEF S
  <2> QED BY <2>1, LeastNatural
<1>4. n \in 0 .. Len(tasks)
  BY <1>1, <1>2, <1>3
<1>5. \A k \in 1 .. n : tasks[k] \in late
  <2> SUFFICES ASSUME NEW k \in 1 .. n, tasks[k] \notin late
               PROVE  FALSE
    OBVIOUS
  <2>1. n \in Nat /\ k - 1 \in Nat /\ (k - 1) + 1 = k /\ ~ (n <= k - 1)
    BY <1>4
  <2>2. k - 1 \in S
    BY <2>1
  <2> HIDE DEF S
  <2> QED BY <1>3, <2>1, <2>2
<1>6. P(n)
  BY <1>3, <1>5
<1> QED BY <1>4, <1>6 DEF ExpiredPrefix

\* What it leaves is a queue of tasks, and no longer than before.
LEMMA UnexpiredQueue ==
  ASSUME tasks \in Seq(Tasks)
  PROVE  Unexpired \in Seq(Tasks) /\ Len(Unexpired) <= Len(tasks)
<1>1. ExpiredPrefix \in 0 .. Len(tasks)
  BY PrefixOfQueue
<1> HIDE DEF ExpiredPrefix
<1> QED BY <1>1 DEF Unexpired

\* A notification changes only where the waiting threads are.
LEMMA NotifyAdders ==
  ASSUME QueueInv, NEW f, f \in NotifyOne(apc)
  PROVE  /\ f \in [Adders -> {"ready", "waiting", "woken"}]
         /\ \A a \in Adders : f[a] # "ready" => apc[a] # "ready"
<1>1. CASE Waiting(apc) = {}
  BY <1>1 DEF QueueInv, NotifyOne
<1>2. CASE Waiting(apc) # {}
  <2>1. PICK x \in Waiting(apc) : f = [apc EXCEPT ![x] = "woken"]
    BY <1>2 DEF NotifyOne
  <2> QED BY <2>1 DEF QueueInv, Waiting
<1> QED BY <1>1, <1>2

\* A task put on a queue that is not full keeps it within the limit.
LEMMA PushKeepsLimit ==
  ASSUME PoolAssumption, NEW t \in Tasks, NEW q \in Seq(Tasks), NEW f, Push(t, q, f), ~ Full(q)
  PROVE  tasks' \in Seq(Tasks) /\ LimitKept'
<1>1. tasks' = Append(q, t)
  BY DEF Push
<1>2. Len(tasks') = Len(q) + 1 /\ tasks' \in Seq(Tasks) /\ Len(q) \in Nat
  BY <1>1
<1> QED BY <1>2 DEF Full, LimitKept, PoolAssumption

\* A queue that is not longer than the old one is within the limit, too.
LEMMA ShorterKeepsLimit ==
  ASSUME PoolAssumption, LimitInv, tasks' \in Seq(Tasks), Len(tasks') <= Len(tasks)
  PROVE  LimitKept'
<1>1. Len(tasks) \in Nat /\ Len(tasks') \in Nat
  BY DEF LimitInv, QueueInv
<1> QED BY <1>1 DEF LimitInv, LimitKept, PoolAssumption

\* Every step of every thread keeps the limit.
LEMMA LimitStep ==
  ASSUME LimitInv, [Next]_vars
  PROVE  LimitInv'
<1> USE PoolAssumption
<1>0. /\ tasks \in Seq(Tasks) /\ QueueInv /\ LimitKept
      /\ Unexpired \in Seq(Tasks) /\ Len(Unexpired) <= Len(tasks)
  BY UnexpiredQueue DEF LimitInv, QueueInv
<1> DEFINE Same == UNCHANGED <<tasks, apc, atask>>
<1>1. ASSUME Same
      PROVE  LimitInv'
  BY <1>0, <1>1 DEF LimitInv, QueueInv, LimitKept
<1>2. ASSUME NEW a \in Adders, NEW t \in Tasks, AddThrows(a, t)
      PROVE  LimitInv'
  <2>1. tasks' \in Seq(Tasks) /\ Len(tasks') <= Len(tasks) /\ UNCHANGED <<apc, atask>>
    BY <1>0, <1>2 DEF AddThrows, adders
  <2> QED BY <1>0, <2>1, ShorterKeepsLimit DEF LimitInv, QueueInv
<1>3. ASSUME NEW a \in Adders, NEW t \in Tasks, Add(a, t)
      PROVE  LimitInv'
  <2>1. tasks' \in Seq(Tasks) /\ LimitKept'
    BY <1>0, <1>3, PushKeepsLimit DEF Add
  <2>2. UNCHANGED <<apc, atask>>
    BY <1>3 DEF Add, adders
  <2> QED BY <1>0, <2>1, <2>2 DEF LimitInv, QueueInv
<1>4. ASSUME NEW a \in Adders, NEW t \in Tasks, AddWaits(a, t)
      PROVE  LimitInv'
  <2>1. tasks' = Unexpired /\ LimitKept'
    BY <1>0, <1>4, ShorterKeepsLimit DEF AddWaits
  <2>2. apc' = [apc EXCEPT ![a] = "waiting"] /\ atask' = [atask EXCEPT ![a] = t]
    BY <1>4 DEF AddWaits
  <2> QED BY <1>0, <2>1, <2>2 DEF LimitInv, QueueInv
<1>5. ASSUME NEW a \in Adders, removeNextPending(a)
      PROVE  LimitInv'
  <2>1. tasks' = Tail(tasks) /\ tasks # <<>> /\ UNCHANGED <<apc, atask>>
    BY <1>5 DEF removeNextPending, adders
  <2>2. tasks' \in Seq(Tasks) /\ Len(tasks') <= Len(tasks)
    BY <1>0, <2>1
  <2> QED BY <1>0, <2>1, <2>2, ShorterKeepsLimit DEF LimitInv, QueueInv
<1>6. ASSUME NEW a \in Adders, AddWoken(a)
      PROVE  LimitInv'
  <2>1. CASE Full(tasks)
    BY <1>0, <1>6, <2>1 DEF AddWoken, LimitInv, QueueInv, LimitKept
  <2>2. CASE ~ Full(tasks)
    <3>1. /\ Push(atask[a], tasks, wpc)
          /\ apc' = [apc EXCEPT ![a] = "ready"] /\ atask' = [atask EXCEPT ![a] = None]
      BY <1>6, <2>2 DEF AddWoken
    <3>2. atask[a] \in Tasks
      BY <1>0, <1>6 DEF AddWoken, QueueInv
    <3>3. tasks' \in Seq(Tasks) /\ LimitKept'
      BY <1>0, <2>2, <3>1, <3>2, PushKeepsLimit
    <3> QED BY <1>0, <3>1, <3>3 DEF LimitInv, QueueInv
  <2> QED BY <2>1, <2>2
<1>7. ASSUME NEW a \in Adders, AddTimesOut(a)
      PROVE  LimitInv'
  BY <1>0, <1>7 DEF AddTimesOut, LimitInv, QueueInv, LimitKept
<1>8. ASSUME NEW w \in Workers, TakeNothing(w)
      PROVE  LimitInv'
  <2>1. tasks' = <<>> /\ UNCHANGED <<apc, atask>>
    BY <1>8 DEF TakeNothing, adders
  <2>2. tasks' \in Seq(Tasks) /\ Len(tasks') <= Len(tasks)
    BY <1>0, <2>1
  <2> QED BY <1>0, <2>1, <2>2, ShorterKeepsLimit DEF LimitInv, QueueInv
<1>9. ASSUME NEW w \in Workers, Take(w)
      PROVE  LimitInv'
  <2>1. tasks' = Tail(Unexpired) /\ Unexpired # <<>> /\ atask' = atask
        /\ (apc' = apc \/ apc' \in NotifyOne(apc))
    BY <1>9 DEF Take
  <2>2. tasks' \in Seq(Tasks) /\ Len(tasks') <= Len(tasks)
    BY <1>0, <2>1
  <2>3. /\ apc' \in [Adders -> {"ready", "waiting", "woken"}]
        /\ \A a \in Adders : apc'[a] # "ready" => apc[a] # "ready"
    BY <1>0, <2>1, NotifyAdders DEF QueueInv
  <2> QED BY <1>0, <2>1, <2>2, <2>3, ShorterKeepsLimit DEF LimitInv, QueueInv
<1>10. ASSUME NEW w \in Workers, NEW t \in Tasks, ExecuteAdds(w, t)
       PROVE  LimitInv'
  <2>1. UNCHANGED <<apc, atask>>
    BY <1>10 DEF ExecuteAdds, adders
  <2>2. CASE Full(Unexpired)
    <3>1. tasks' = Unexpired
      BY <1>10, <2>2 DEF ExecuteAdds
    <3> QED BY <1>0, <2>1, <3>1, ShorterKeepsLimit DEF LimitInv, QueueInv
  <2>3. CASE ~ Full(Unexpired)
    <3>1. Push(t, Unexpired, wpc)
      BY <1>10, <2>3 DEF ExecuteAdds
    <3>2. tasks' \in Seq(Tasks) /\ LimitKept'
      BY <1>0, <2>3, <3>1, PushKeepsLimit
    <3> QED BY <1>0, <2>1, <3>2 DEF LimitInv, QueueInv
  <2> QED BY <2>2, <2>3
<1>11. ASSUME NEW w \in Workers,
              \/ Enter(w) \/ NotifyEntered(w) \/ Idle(w) \/ Execute(w) \/ Quit(w) \/ Leave(w)
       PROVE  Same
  BY <1>11 DEF Enter, NotifyEntered, Idle, Execute, Quit, Leave, adders
<1>12. ASSUME NEW c \in Controllers, ControllerCalls(c) \/ ControllerStep(c)
       PROVE  Same
  BY <1>12 DEF ControllerCalls, ControllerStep, start, addWorker, removeWorker, stopImpl,
               StartThread, RemoveAll, Await, SetStopped, adders
<1>13. ASSUME NEW t \in Tasks, Elapse(t)
       PROVE  Same
  BY <1>13 DEF Elapse, adders
<1>14. CASE UNCHANGED vars
  BY <1>1, <1>14 DEF vars
<1>15. ASSUME NEW w \in Workers, WorkerStep(w) \/ \E t \in Tasks : ExecuteAdds(w, t)
       PROVE  LimitInv'
  BY <1>1, <1>8, <1>9, <1>10, <1>11, <1>15 DEF WorkerStep
<1>16. ASSUME NEW a \in Adders, AdderCalls(a) \/ AddWoken(a) \/ AddTimesOut(a)
       PROVE  LimitInv'
  BY <1>2, <1>3, <1>4, <1>5, <1>6, <1>7, <1>16 DEF AdderCalls
<1> QED BY <1>1, <1>12, <1>13, <1>14, <1>15, <1>16 DEF Next

\* The queue never exceeds pendingTaskCountMax_, whatever the number of
\* adders, workers and controllers: every adder looks again under mutex_
\* before it pushes, and only adders push.
THEOREM PendingLimit == Spec => []LimitKept
<1>1. Init => LimitInv
  BY PoolAssumption DEF Init, LimitInv, QueueInv, LimitKept
<1>2. LimitInv /\ [Next]_vars => LimitInv'
  BY LimitStep
<1>3. LimitInv => LimitKept
  BY DEF LimitInv
<1> QED BY <1>1, <1>2, <1>3, PTL DEF Spec

-----------------------------------------------------------------------------
(* The counters *)

Places == {"new", "born", "entered", "loop", "waiting", "woken", "execute",
           "leave", "leaveLast", "dead", "reaped"}
Resting == {"waiting", "woken"}
Counted == {"entered", "loop", "waiting", "woken", "execute"}
Awake == {"entered", "loop", "woken"}

\* The threads that are at one of the places S.
At(f, S) == {x \in DOMAIN f : f[x] \in S}

\* The counters count the workers, threads are started once, and a worker
\* goes to sleep only in a pool that is not to shrink.
CountInv ==
  /\ workerMaxCount \in Nat
  /\ wpc \in [Workers -> Places]
  /\ starting \in [Controllers -> SUBSET Workers]
  /\ idleCount = Cardinality(At(wpc, Resting))
  /\ workerCount = Cardinality(At(wpc, Counted))
  /\ \A c \in Controllers : \A w \in starting[c] : wpc[w] = "new"
  /\ \A c, d \in Controllers : c # d => starting[c] \cap starting[d] = {}
  /\ Waiting(wpc) # {} => workerCount <= workerMaxCount

\* What the move of thread x does to the number of threads at the places S.
Shift(f, g, x, S) ==
  /\ Cardinality(At(f, S)) \in Nat /\ Cardinality(At(g, S)) \in Nat
  /\ (g[x] \in S <=> f[x] \in S) => Cardinality(At(g, S)) = Cardinality(At(f, S))
  /\ g[x] \in S /\ f[x] \notin S => Cardinality(At(g, S)) = Cardinality(At(f, S)) + 1
  /\ g[x] \notin S /\ f[x] \in S => Cardinality(At(f, S)) = Cardinality(At(g, S)) + 1

\* The move of one thread changes the number of threads at S by one at most.
LEMMA Recount ==
  ASSUME NEW D, IsFiniteSet(D), NEW P, NEW f \in [D -> P], NEW g \in [D -> P],
         NEW x \in D, \A y \in D : y # x => g[y] = f[y], NEW S
  PROVE  Shift(f, g, x, S)
<1>2. At(f, S) \in SUBSET D /\ At(g, S) \in SUBSET D
  BY DEF At
<1>3. /\ IsFiniteSet(At(f, S)) /\ Cardinality(At(f, S)) \in Nat
      /\ IsFiniteSet(At(g, S)) /\ Cardinality(At(g, S)) \in Nat
  BY <1>2, FS_Subset, FS_CardinalityType
<1>4. ASSUME g[x] \in S <=> f[x] \in S
      PROVE  At(g, S) = At(f, S)
  BY <1>4 DEF At
<1>5. ASSUME g[x] \in S, f[x] \notin S
      PROVE  At(g, S) = At(f, S) \cup {x} /\ x \notin At(f, S)
  BY <1>5 DEF At
<1>6. ASSUME g[x] \notin S, f[x] \in S
      PROVE  At(f, S) = At(g, S) \cup {x} /\ x \notin At(g, S)
  BY <1>6 DEF At
<1>7. ASSUME g[x] \in S, f[x] \notin S
      PROVE  Cardinality(At(g, S)) = Cardinality(At(f, S)) + 1
  BY <1>3, <1>5, <1>7, FS_AddElement
<1>8. ASSUME g[x] \notin S, f[x] \in S
      PROVE  Cardinality(At(f, S)) = Cardinality(At(g, S)) + 1
  BY <1>3, <1>6, <1>8, FS_AddElement
<1> QED BY <1>3, <1>4, <1>7, <1>8 DEF Shift

\* notify() wakes a waiting thread, or nobody, and moves nobody else.
LEMMA NotifyOneMoves ==
  ASSUME NEW D, NEW P, "woken" \in P, NEW f \in [D -> P], NEW g \in NotifyOne(f)
  PROVE  /\ g \in [D -> P] /\ Waiting(g) \subseteq Waiting(f)
         /\ \A y \in D : g[y] = f[y] \/ (f[y] = "waiting" /\ g[y] = "woken")
BY DEF NotifyOne, Waiting

\* It makes one more thread woken if there is one waiting.
LEMMA NotifyOneCount ==
  ASSUME NEW D, IsFiniteSet(D), NEW P, "woken" \in P, NEW f \in [D -> P], NEW g \in NotifyOne(f),
         NEW S, "waiting" \notin S, "woken" \in S, Waiting(f) # {}
  PROVE  /\ Cardinality(At(f, S)) \in Nat
         /\ Cardinality(At(g, S)) = Cardinality(At(f, S)) + 1
<1>1. PICK x \in Waiting(f) : g = [f EXCEPT ![x] = "woken"]
  BY DEF NotifyOne
<1>2. /\ x \in D /\ f[x] = "waiting" /\ g \in [D -> P] /\ g[x] = "woken"
      /\ \A y \in D : y # x => g[y] = f[y]
  BY <1>1 DEF Waiting
<1>3. Shift(f, g, x, S)
  BY <1>2, Recount
<1> QED BY <1>2, <1>3 DEF Shift

\* Only worker w moves, or nobody does.
Moves(w) ==
  /\ wpc' \in [Workers -> Places]
  /\ \A y \in Workers : y # w => wpc'[y] = wpc[y]

\* The counters of the pool, and the move of one worker.
LEMMA WorkerMoves ==
  ASSUME CountInv, NEW w \in Workers, Moves(w)
  PROVE  /\ idleCount \in Nat /\ workerCount \in Nat
         /\ (wpc'[w] \in Resting <=> wpc[w] \in Resting) => Cardinality(At(wpc', Resting)) = idleCount
         /\ wpc'[w] \in Resting /\ wpc[w] \notin Resting =>
              Cardinality(At(wpc', Resting)) = idleCount + 1
         /\ wpc'[w] \notin Resting /\ wpc[w] \in Resting =>
              Cardinality(At(wpc', Resting)) = idleCount - 1 /\ idleCount > 0
         /\ (wpc'[w] \in Counted <=> wpc[w] \in Counted) => Cardinality(At(wpc', Counted)) = workerCount
         /\ wpc'[w] \in Counted /\ wpc[w] \notin Counted =>
              Cardinality(At(wpc', Counted)) = workerCount + 1
         /\ wpc'[w] \notin Counted /\ wpc[w] \in Counted =>
              Cardinality(At(wpc', Counted)) = workerCount - 1 /\ workerCount > 0
         /\ wpc'[w] # "waiting" => Waiting(wpc') \subseteq Waiting(wpc)
<1>1. /\ IsFiniteSet(Workers) /\ wpc \in [Workers -> Places] /\ wpc' \in [Workers -> Places]
      /\ \A y \in Workers : y # w => wpc'[y] = wpc[y]
  BY PoolAssumption DEF CountInv, Moves
<1>2. Shift(wpc, wpc', w, Resting) /\ Shift(wpc, wpc', w, Counted)
  BY <1>1, Recount
<1>3. idleCount = Cardinality(At(wpc, Resting)) /\ workerCount = Cardinality(At(wpc, Counted))
  BY DEF CountInv
<1>4. wpc'[w] # "waiting" => Waiting(wpc') \subseteq Waiting(wpc)
  BY <1>1 DEF Waiting
<1> QED BY <1>2, <1>3, <1>4 DEF Shift

\* The pool is to shrink: every sleeping worker is woken.  There are no more
\* of them than idleCount_, so that many notify() reach them all, too.
LEMMA ShrinkWakesAll ==
  ASSUME CountInv, NEW n, Shrink(n)
  PROVE  /\ wpc' \in [Workers -> Places]
         /\ \A w \in Workers : wpc'[w] = IF wpc[w] = "waiting" THEN "woken" ELSE wpc[w]
<1>1. /\ IsFiniteSet(Workers) /\ wpc \in [Workers -> Places]
      /\ idleCount = Cardinality(At(wpc, Resting))
  BY PoolAssumption DEF CountInv
<1>2. CASE wpc' = NotifyAll(wpc)
  BY <1>1, <1>2 DEF NotifyAll, Places
<1>3. CASE wpc' \in NotifySome(wpc, idleCount)
  <2>1. PICK S \in SUBSET Waiting(wpc) :
          /\ Cardinality(S) = idleCount \/ S = Waiting(wpc)
          /\ wpc' = [x \in DOMAIN wpc |-> IF x \in S THEN "woken" ELSE wpc[x]]
    BY <1>3 DEF NotifySome
  <2>2. Waiting(wpc) \in SUBSET At(wpc, Resting) /\ At(wpc, Resting) \in SUBSET Workers
    BY <1>1 DEF Waiting, At, Resting
  <2>3. IsFiniteSet(At(wpc, Resting))
    BY <1>1, <2>2, FS_Subset
  <2>4. S = Waiting(wpc)
    <3>1. S \in SUBSET At(wpc, Resting)
      BY <2>2
    <3>2. Cardinality(S) = idleCount => At(wpc, Resting) = S
      BY <1>1, <2>3, <3>1, FS_Subset
    <3> QED BY <2>1, <2>2, <3>2
  <2> QED BY <1>1, <2>1, <2>4 DEF Waiting, Places
<1> QED BY <1>2, <1>3 DEF Shrink

\* The threads that are woken stay in the count.
LEMMA ShrinkKeepsCounts ==
  ASSUME CountInv, NEW n, Shrink(n)
  PROVE  /\ At(wpc', Resting) = At(wpc, Resting)
         /\ At(wpc', Counted) = At(wpc, Counted)
         /\ Waiting(wpc') = {}
BY ShrinkWakesAll DEF CountInv, At, Resting, Counted, Waiting

\* The start of the pool wakes every sleeping worker, too.
LEMMA StartWakesAll ==
  ASSUME CountInv, NEW c, start(c)
  PROVE  /\ wpc' \in [Workers -> Places]
         /\ \A w \in Workers : wpc'[w] = IF wpc[w] = "waiting" THEN "woken" ELSE wpc[w]
         /\ At(wpc', Resting) = At(wpc, Resting)
         /\ At(wpc', Counted) = At(wpc, Counted)
         /\ Waiting(wpc') = {}
<1>1. wpc \in [Workers -> Places] /\ wpc' = NotifyAll(wpc)
  BY DEF CountInv, start
<1>2. /\ wpc' \in [Workers -> Places]
      /\ \A w \in Workers : wpc'[w] = IF wpc[w] = "waiting" THEN "woken" ELSE wpc[w]
  BY <1>1 DEF NotifyAll, Places
<1> QED BY <1>1, <1>2 DEF At, Resting, Counted, Waiting

\* The task put on the queue wakes at most a sleeping worker.
LEMMA PushKeepsCounts ==
  ASSUME CountInv, NEW t, NEW q, Push(t, q, wpc)
  PROVE  /\ wpc' \in [Workers -> Places] /\ Waiting(wpc') \subseteq Waiting(wpc)
         /\ \A y \in Workers : wpc'[y] = wpc[y] \/ (wpc[y] = "waiting" /\ wpc'[y] = "woken")
         /\ At(wpc', Resting) = At(wpc, Resting) /\ At(wpc', Counted) = At(wpc, Counted)
<1>1. wpc \in [Workers -> Places]
  BY DEF CountInv
<1>2. CASE wpc' = wpc
  BY <1>1, <1>2
<1>3. CASE wpc' \in NotifyOne(wpc)
  <2>1. PICK g \in NotifyOne(wpc) : wpc' = g
    BY <1>3
  <2>2. /\ g \in [Workers -> Places] /\ Waiting(g) \subseteq Waiting(wpc)
        /\ \A y \in Workers : g[y] = wpc[y] \/ (wpc[y] = "waiting" /\ g[y] = "woken")
    <3>1. "woken" \in Places
      BY DEF Places
    <3> QED BY <1>1, <3>1, NotifyOneMoves
  <2>3. At(g, Resting) = At(wpc, Resting) /\ At(g, Counted) = At(wpc, Counted)
    BY <1>1, <2>2 DEF At, Resting, Counted
  <2> QED BY <2>1, <2>2, <2>3
<1> QED BY <1>2, <1>3 DEF Push

\* Every step keeps the counters right.
LEMMA CountStep ==
  ASSUME CountInv, [Next]_vars
  PROVE  CountInv'
<1> USE DEF manager, controllers, adders, history
<1>0. /\ wpc \in [Workers -> Places] /\ workerMaxCount \in Nat
      /\ starting \in [Controllers -> SUBSET Workers] /\ IsFiniteSet(Workers)
      /\ idleCount = Cardinality(At(wpc, Resting)) /\ workerCount = Cardinality(At(wpc, Counted))
      /\ idleCount \in Nat /\ workerCount \in Nat
  <2>1. At(wpc, Resting) \in SUBSET Workers /\ At(wpc, Counted) \in SUBSET Workers
    BY DEF CountInv, At
  <2> QED BY <2>1, FS_Subset, FS_CardinalityType, PoolAssumption DEF CountInv
<1>1. ASSUME UNCHANGED <<wpc, starting, idleCount, workerCount, workerMaxCount>>
      PROVE  CountInv'
  BY <1>1 DEF CountInv
<1>2. ASSUME NEW t, NEW q, Push(t, q, wpc),
             UNCHANGED <<starting, idleCount, workerCount, workerMaxCount>>
      PROVE  CountInv'
  <2>1. \A c \in Controllers : \A w \in starting[c] : wpc'[w] = "new"
    BY <1>0, <1>2, PushKeepsCounts DEF CountInv
  <2> QED BY <1>2, <2>1, PushKeepsCounts DEF CountInv
\* A worker moves, and the counters move with it.
<1>3. ASSUME NEW w \in Workers, Moves(w), wpc[w] # "new",
             UNCHANGED <<starting, workerMaxCount>>,
             idleCount' = Cardinality(At(wpc', Resting)),
             workerCount' = Cardinality(At(wpc', Counted)),
             \/ wpc'[w] = "waiting" /\ workerCount' <= workerMaxCount
             \/ wpc'[w] # "waiting" /\ (workerCount' <= workerMaxCount \/ workerCount' <= workerCount)
      PROVE  CountInv'
  <2>1. wpc' \in [Workers -> Places]
    BY <1>3 DEF Moves
  <2>2. \A c \in Controllers : \A v \in starting[c] : wpc'[v] = "new"
    BY <1>0, <1>3 DEF CountInv, Moves
  <2>3. At(wpc', Counted) \in SUBSET Workers
    BY <2>1 DEF At
  <2>4. workerCount' \in Nat
    BY <1>0, <1>3, <2>3, FS_Subset, FS_CardinalityType
  <2>5. Waiting(wpc') # {} => workerCount' <= workerMaxCount
    <3>1. CASE wpc'[w] = "waiting"
      BY <1>3, <3>1
    <3>2. CASE wpc'[w] # "waiting"
      <4>1. Waiting(wpc') \subseteq Waiting(wpc)
        BY <1>3, <3>2, WorkerMoves
      <4> QED BY <1>0, <1>3, <2>4, <3>2, <4>1 DEF CountInv
    <3> QED BY <3>1, <3>2
  <2> QED BY <1>0, <1>3, <2>1, <2>2, <2>5 DEF CountInv
<1>4. ASSUME NEW w \in Workers, WorkerStep(w)
      PROVE  CountInv'
  <2>0. \A v \in Places : wpc' = [wpc EXCEPT ![w] = v] => Moves(w) /\ wpc'[w] = v
    BY <1>0 DEF Moves
  <2> USE DEF Resting, Counted
  <2>1. CASE Enter(w)
    <3> DEFINE v == IF ~ (workerCount < workerMaxCount) THEN "leave"
                    ELSE IF workerCount' = workerMaxCount THEN "entered" ELSE "loop"
    <3>1. /\ wpc[w] = "born"
          /\ UNCHANGED <<starting, workerMaxCount, idleCount>>
          /\ workerCount' = IF workerCount < workerMaxCount THEN workerCount + 1 ELSE workerCount
      BY <2>1 DEF Enter
    <3>2. Moves(w) /\ wpc'[w] = v
      BY <2>0, <2>1 DEF Enter, Places
    <3>3. /\ Cardinality(At(wpc', Resting)) = idleCount
          /\ workerCount < workerMaxCount => Cardinality(At(wpc', Counted)) = workerCount + 1
          /\ ~ (workerCount < workerMaxCount) => Cardinality(At(wpc', Counted)) = workerCount
      BY <3>1, <3>2, WorkerMoves
    <3>4. wpc'[w] # "waiting" /\ (workerCount' <= workerMaxCount \/ workerCount' <= workerCount)
      BY <1>0, <3>1, <3>2
    <3> QED BY <1>3, <3>1, <3>2, <3>3, <3>4
  <2>2. CASE NotifyEntered(w)
    <3>1. /\ wpc[w] = "entered"
          /\ UNCHANGED <<starting, workerMaxCount, idleCount, workerCount>>
      BY <2>2 DEF NotifyEntered
    <3>2. Moves(w) /\ wpc'[w] = "loop"
      BY <2>0, <2>2 DEF NotifyEntered, Places
    <3>3. idleCount' = Cardinality(At(wpc', Resting)) /\ workerCount' = Cardinality(At(wpc', Counted))
      BY <3>1, <3>2, WorkerMoves
    <3> QED BY <1>0, <1>3, <3>1, <3>2, <3>3
  <2>3. CASE Idle(w)
    <3>1. /\ wpc[w] \in {"loop", "woken"}
          /\ UNCHANGED <<starting, workerMaxCount, workerCount>>
          /\ workerCount <= workerMaxCount
          /\ idleCount' = IF wpc[w] = "woken" THEN idleCount - 1 + 1 ELSE idleCount + 1
      BY <2>3 DEF Idle, Ready, isActive, OtherIdle
    <3>2. Moves(w) /\ wpc'[w] = "waiting"
      BY <2>0, <2>3 DEF Idle, Places
    <3>3. idleCount' = Cardinality(At(wpc', Resting)) /\ workerCount' = Cardinality(At(wpc', Counted))
      BY <1>0, <3>1, <3>2, WorkerMoves
    <3> QED BY <1>3, <3>1, <3>2, <3>3
  <2>4. CASE TakeNothing(w) \/ Take(w)
    <3>1. PICK v \in {"loop", "execute"} : wpc' = [wpc EXCEPT ![w] = v]
      BY <2>4 DEF TakeNothing, Take
    <3>2. /\ wpc[w] \in {"loop", "woken"}
          /\ UNCHANGED <<starting, workerMaxCount, workerCount>>
          /\ idleCount' = IF wpc[w] = "woken" THEN idleCount - 1 ELSE idleCount
      BY <2>4 DEF TakeNothing, Take, Ready, OtherIdle
    <3>3. Moves(w) /\ wpc'[w] = v
      BY <2>0, <3>1 DEF Places
    <3>4. idleCount' = Cardinality(At(wpc', Resting)) /\ workerCount' = Cardinality(At(wpc', Counted))
      BY <3>2, <3>3, WorkerMoves
    <3> QED BY <1>0, <1>3, <3>2, <3>3, <3>4
  <2>5. CASE Execute(w)
    <3>1. /\ wpc[w] = "execute"
          /\ UNCHANGED <<starting, workerMaxCount, idleCount, workerCount>>
      BY <2>5 DEF Execute
    <3>2. Moves(w) /\ wpc'[w] = "loop"
      BY <2>0, <2>5 DEF Execute, Places
    <3>3. idleCount' = Cardinality(At(wpc', Resting)) /\ workerCount' = Cardinality(At(wpc', Counted))
      BY <3>1, <3>2, WorkerMoves
    <3> QED BY <1>0, <1>3, <3>1, <3>2, <3>3
  <2>6. CASE Quit(w)
    <3>1. PICK v \in {"leave", "leaveLast"} : wpc' = [wpc EXCEPT ![w] = v]
      BY <2>6 DEF Quit
    <3>2. /\ wpc[w] \in {"loop", "woken"} /\ UNCHANGED <<starting, workerMaxCount>>
          /\ idleCount' = IF wpc[w] = "woken" THEN idleCount - 1 ELSE idleCount
          /\ workerCount' = workerCount - 1
      BY <2>6 DEF Quit, Ready, OtherIdle
    <3>3. Moves(w) /\ wpc'[w] = v
      BY <2>0, <3>1 DEF Places
    <3>4. idleCount' = Cardinality(At(wpc', Resting)) /\ workerCount' = Cardinality(At(wpc', Counted))
      BY <3>2, <3>3, WorkerMoves
    <3>5. workerCount' <= workerCount
      BY <1>0, <3>2
    <3> QED BY <1>3, <3>2, <3>3, <3>4, <3>5
  <2>7. CASE Leave(w)
    <3>1. /\ wpc[w] \in {"leave", "leaveLast"}
          /\ UNCHANGED <<starting, workerMaxCount, idleCount, workerCount>>
      BY <2>7 DEF Leave
    <3>2. Moves(w) /\ wpc'[w] = "dead"
      BY <2>0, <2>7 DEF Leave, Places
    <3>3. idleCount' = Cardinality(At(wpc', Resting)) /\ workerCount' = Cardinality(At(wpc', Counted))
      BY <3>1, <3>2, WorkerMoves
    <3> QED BY <1>0, <1>3, <3>1, <3>2, <3>3
  <2> QED BY <1>4, <2>1, <2>2, <2>3, <2>4, <2>5, <2>6, <2>7 DEF WorkerStep
<1>5. ASSUME NEW w \in Workers, NEW t \in Tasks, ExecuteAdds(w, t)
      PROVE  CountInv'
  BY <1>1, <1>2, <1>5 DEF ExecuteAdds
<1>6. ASSUME NEW a \in Adders, AdderCalls(a) \/ AddWoken(a) \/ AddTimesOut(a)
      PROVE  CountInv'
  BY <1>1, <1>2, <1>6 DEF AdderCalls, AddThrows, Add, AddWaits, removeNextPending, AddWoken, AddTimesOut
<1>7. ASSUME NEW c \in Controllers, NEW new \in SUBSET Workers, addWorker(c, new)
      PROVE  CountInv'
  <2>1. /\ workerMaxCount' = workerMaxCount + Cardinality(new)
        /\ starting' = [starting EXCEPT ![c] = new]
        /\ \A w \in new : wpc[w] = "new" /\ \A d \in Controllers : w \notin starting[d]
        /\ UNCHANGED <<wpc, idleCount, workerCount>>
    BY <1>7 DEF addWorker
  <2>2. Cardinality(new) \in Nat
    BY <1>0, FS_Subset, FS_CardinalityType
  <2>3. workerMaxCount' \in Nat /\ workerMaxCount <= workerMaxCount'
    BY <1>0, <2>1, <2>2
  <2>4. /\ starting' \in [Controllers -> SUBSET Workers]
        /\ \A d \in Controllers : starting'[d] = IF d = c THEN new ELSE starting[d]
    BY <1>0, <2>1
  <2>5. /\ \A d \in Controllers : \A w \in starting'[d] : wpc[w] = "new"
        /\ \A d, e \in Controllers : d # e => starting'[d] \cap starting'[e] = {}
    BY <2>1, <2>4 DEF CountInv
  <2>6. Waiting(wpc) # {} => workerCount <= workerMaxCount'
    BY <1>0, <2>3 DEF CountInv
  <2> QED BY <1>0, <2>1, <2>3, <2>4, <2>5, <2>6 DEF CountInv
<1>8. ASSUME NEW c \in Controllers, NEW w \in Workers, StartThread(c, w)
      PROVE  CountInv'
  <2>1. /\ w \in starting[c] /\ wpc' = [wpc EXCEPT ![w] = "born"] /\ wpc[w] = "new"
        /\ starting' = [starting EXCEPT ![c] = @ \ {w}]
        /\ UNCHANGED <<idleCount, workerCount, workerMaxCount>>
    BY <1>8 DEF StartThread, CountInv
  <2>2. Moves(w) /\ wpc'[w] = "born"
    BY <1>0, <2>1 DEF Moves, Places
  <2>3. /\ idleCount' = Cardinality(At(wpc', Resting)) /\ workerCount' = Cardinality(At(wpc', Counted))
        /\ Waiting(wpc') \subseteq Waiting(wpc)
    BY <2>1, <2>2, WorkerMoves DEF Resting, Counted
  <2>4. /\ starting' \in [Controllers -> SUBSET Workers]
        /\ \A d \in Controllers : starting'[d] = IF d = c THEN starting[d] \ {w} ELSE starting[d]
    BY <1>0, <2>1
  <2>5. \A d \in Controllers : w \notin starting'[d]
    BY <2>1, <2>4 DEF CountInv
  <2>6. \A d \in Controllers : \A v \in starting'[d] : v \in starting[d] /\ v # w /\ v \in Workers
    BY <1>0, <2>4, <2>5
  <2>7. \A d \in Controllers : \A v \in starting'[d] : wpc'[v] = "new"
    BY <2>2, <2>6 DEF CountInv, Moves
  <2>8. \A d, e \in Controllers : d # e => starting'[d] \cap starting'[e] = {}
    BY <2>4 DEF CountInv
  <2> QED BY <1>0, <2>1, <2>2, <2>3, <2>4, <2>7, <2>8 DEF CountInv, Moves
<1>9. ASSUME NEW n \in Nat, n <= workerMaxCount, Shrink(n),
             UNCHANGED <<idleCount, workerCount, starting>>
      PROVE  CountInv'
  <2>1. workerMaxCount' = workerMaxCount - n
    BY <1>9 DEF Shrink
  <2>2. workerMaxCount' \in Nat
    BY <1>0, <1>9, <2>1
  <2>3. /\ wpc' \in [Workers -> Places]
        /\ \A w \in Workers : wpc'[w] = IF wpc[w] = "waiting" THEN "woken" ELSE wpc[w]
    BY <1>9, ShrinkWakesAll
  <2>4. \A d \in Controllers : \A v \in starting[d] : wpc'[v] = "new"
    BY <1>0, <2>3 DEF CountInv
  <2>5. At(wpc', Resting) = At(wpc, Resting) /\ At(wpc', Counted) = At(wpc, Counted) /\ Waiting(wpc') = {}
    BY <1>9, ShrinkKeepsCounts
  <2> QED BY <1>9, <2>2, <2>3, <2>4, <2>5 DEF CountInv
<1>10. ASSUME NEW c \in Controllers, NEW n \in 1 .. Cardinality(Workers), removeWorker(c, n)
       PROVE  CountInv'
  <2>1. Cardinality(Workers) \in Nat
    BY <1>0, FS_CardinalityType
  <2>2. n \in Nat
    BY <2>1
  <2> QED BY <1>9, <1>10, <2>2 DEF removeWorker
<1>11. ASSUME NEW c \in Controllers, RemoveAll(c)
       PROVE  CountInv'
  BY <1>0, <1>1, <1>9, <1>11 DEF RemoveAll
<1>12. ASSUME NEW c \in Controllers, Await(c)
       PROVE  CountInv'
  <2>1. UNCHANGED <<starting, idleCount, workerCount, workerMaxCount>>
    BY <1>12 DEF Await
  <2>2. /\ wpc' \in [Workers -> Places]
        /\ \A w \in Workers : wpc'[w] = wpc[w] \/ (wpc[w] = "dead" /\ wpc'[w] = "reaped")
    BY <1>0, <1>12 DEF Await, Places
  <2>3. /\ At(wpc', Resting) = At(wpc, Resting) /\ At(wpc', Counted) = At(wpc, Counted)
        /\ Waiting(wpc') = Waiting(wpc)
    BY <1>0, <2>2 DEF At, Resting, Counted, Waiting
  <2>4. \A d \in Controllers : \A v \in starting[d] : wpc'[v] = "new"
    BY <1>0, <2>2 DEF CountInv
  <2> QED BY <2>1, <2>2, <2>3, <2>4 DEF CountInv
<1>13. ASSUME NEW c \in Controllers, (\E join \in BOOLEAN : stopImpl(c, join)) \/ SetStopped(c)
       PROVE  CountInv'
  BY <1>1, <1>13 DEF stopImpl, SetStopped
<1>14. ASSUME NEW t \in Tasks, Elapse(t)
       PROVE  CountInv'
  BY <1>1, <1>14 DEF Elapse
<1>15. CASE UNCHANGED vars
  BY <1>1, <1>15 DEF vars
<1>16. ASSUME NEW c \in Controllers, start(c)
       PROVE  CountInv'
  <2>1. UNCHANGED <<idleCount, workerCount, workerMaxCount, starting>>
    BY <1>16 DEF start, controllers
  <2>2. /\ wpc' \in [Workers -> Places] /\ Waiting(wpc') = {}
        /\ At(wpc', Resting) = At(wpc, Resting) /\ At(wpc', Counted) = At(wpc, Counted)
    BY <1>16, StartWakesAll
  <2>3. \A d \in Controllers : \A v \in starting[d] : wpc'[v] = "new"
    BY <1>0, <1>16, StartWakesAll DEF CountInv
  <2> QED BY <2>1, <2>2, <2>3 DEF CountInv
<1>17. ASSUME NEW c \in Controllers, ControllerCalls(c) \/ ControllerStep(c)
       PROVE  CountInv'
  BY <1>7, <1>8, <1>10, <1>11, <1>12, <1>13, <1>17, <1>16 DEF ControllerCalls, ControllerStep
<1> QED BY <1>4, <1>5, <1>6, <1>14, <1>15, <1>17 DEF Next

-----------------------------------------------------------------------------
(* The sleeping workers *)

\* The number of workers that are awake does not depend on anybody else.
LEMMA AwakeNumber ==
  ASSUME CountInv
  PROVE  Cardinality(At(wpc, Awake)) \in Nat
<1>1. At(wpc, Awake) \in SUBSET Workers
  BY DEF CountInv, At
<1> QED BY <1>1, FS_Subset, FS_CardinalityType, PoolAssumption

\* A worker sleeps only if there are workers awake for all the tasks.
SleepInv == Waiting(wpc) # {} => Cardinality(At(wpc, Awake)) >= Len(tasks)

\* SleepInv is the property, in terms of At.
LEMMA SleepMeans == ASSUME CountInv PROVE SleepInv <=> NoTaskSleptOn
<1>1. At(wpc, Awake) = {w \in Workers : wpc[w] \in {"entered", "loop", "woken"}}
  BY DEF CountInv, At, Awake
<1> QED BY <1>1 DEF SleepInv, NoTaskSleptOn

\* A task is put on the queue, which may have been cleared of tasks before.
LEMMA PushWakes ==
  ASSUME CountInv, SleepInv, tasks \in Seq(Tasks), NEW t \in Tasks, NEW q \in Seq(Tasks),
         Len(q) <= Len(tasks), Push(t, q, wpc)
  PROVE  SleepInv'
<1> SUFFICES ASSUME Waiting(wpc') # {}
             PROVE  Cardinality(At(wpc', Awake)) >= Len(tasks')
  BY DEF SleepInv
<1>1. /\ wpc \in [Workers -> Places] /\ IsFiniteSet(Workers) /\ "woken" \in Places
      /\ "waiting" \notin Awake /\ "woken" \in Awake
  BY PoolAssumption DEF CountInv, Places, Awake
<1>2. Waiting(wpc) # {}
  BY PushKeepsCounts
<1>3. idleCount > 0
  <2>1. Waiting(wpc) \subseteq At(wpc, Resting) /\ At(wpc, Resting) \in SUBSET Workers
    BY <1>1 DEF Waiting, At, Resting
  <2>2. IsFiniteSet(At(wpc, Resting)) /\ At(wpc, Resting) # {}
    BY <1>1, <1>2, <2>1, FS_Subset
  <2>3. idleCount \in Nat /\ idleCount # 0
    BY <2>2, FS_EmptySet, FS_CardinalityType DEF CountInv
  <2> QED BY <2>3
<1>4. wpc' \in NotifyOne(wpc)
  BY <1>3 DEF Push
<1>5. /\ Cardinality(At(wpc, Awake)) \in Nat
      /\ Cardinality(At(wpc', Awake)) = Cardinality(At(wpc, Awake)) + 1
  BY <1>1, <1>2, <1>4, NotifyOneCount
<1>6. Len(tasks') = Len(q) + 1 /\ Len(q) \in Nat /\ Len(tasks) \in Nat
  BY DEF Push
<1>7. Cardinality(At(wpc, Awake)) >= Len(tasks)
  BY <1>2 DEF SleepInv
<1> QED BY <1>5, <1>6, <1>7

\* The queue gets no longer, and the workers that are awake no fewer.
LEMMA FewerTasks ==
  ASSUME CountInv, SleepInv, tasks \in Seq(Tasks), tasks' \in Seq(Tasks), Len(tasks') <= Len(tasks),
         Waiting(wpc') \subseteq Waiting(wpc),
         At(wpc', Awake) = At(wpc, Awake)
  PROVE  SleepInv'
<1>1. Cardinality(At(wpc, Awake)) \in Nat /\ Len(tasks) \in Nat /\ Len(tasks') \in Nat
  BY AwakeNumber
<1> QED BY <1>1 DEF SleepInv

\* Every step leaves enough workers awake.
LEMMA SleepStep ==
  ASSUME LimitInv, CountInv, SleepInv, [Next]_vars
  PROVE  SleepInv'
<1> USE DEF manager, controllers, adders, history
<1>0. /\ tasks \in Seq(Tasks) /\ wpc \in [Workers -> Places] /\ IsFiniteSet(Workers)
      /\ Unexpired \in Seq(Tasks) /\ Len(Unexpired) <= Len(tasks) /\ Len(tasks) \in Nat
      /\ tasks' \in Seq(Tasks) /\ Len(tasks') \in Nat
  BY UnexpiredQueue, LimitStep, PoolAssumption DEF LimitInv, QueueInv, CountInv
<1>1. ASSUME wpc' = wpc, Len(tasks') <= Len(tasks)
      PROVE  SleepInv'
  BY <1>0, <1>1, FewerTasks
<1>2. ASSUME NEW a \in Adders, NEW t \in Tasks, AddThrows(a, t) \/ AddWaits(a, t)
      PROVE  SleepInv'
  BY <1>0, <1>1, <1>2 DEF AddThrows, AddWaits
<1>3. ASSUME NEW a \in Adders, removeNextPending(a)
      PROVE  SleepInv'
  <2>1. wpc' = wpc /\ tasks' = Tail(tasks) /\ tasks # <<>>
    BY <1>3 DEF removeNextPending
  <2> QED BY <1>0, <1>1, <2>1
<1>4. ASSUME NEW a \in Adders, NEW t \in Tasks, Add(a, t)
      PROVE  SleepInv'
  BY <1>0, <1>4, PushWakes DEF Add
<1>5. ASSUME NEW a \in Adders, AddWoken(a)
      PROVE  SleepInv'
  <2>1. atask[a] \in Tasks
    BY <1>5 DEF AddWoken, LimitInv, QueueInv
  <2>2. (wpc' = wpc /\ tasks' = tasks) \/ Push(atask[a], tasks, wpc)
    BY <1>5 DEF AddWoken
  <2> QED BY <1>0, <1>1, <2>1, <2>2, PushWakes
<1>6. ASSUME NEW a \in Adders, AddTimesOut(a)
      PROVE  SleepInv'
  BY <1>0, <1>1, <1>6 DEF AddTimesOut
<1>7. ASSUME NEW w \in Workers, NEW t \in Tasks, ExecuteAdds(w, t)
      PROVE  SleepInv'
  <2>1. (wpc' = wpc /\ tasks' = Unexpired) \/ Push(t, Unexpired, wpc)
    BY <1>7 DEF ExecuteAdds
  <2> QED BY <1>0, <1>1, <2>1, PushWakes
\* A worker moves without going to sleep.
<1>8. ASSUME NEW w \in Workers, Moves(w), wpc'[w] # "waiting", Len(tasks') <= Len(tasks),
             wpc[w] \in Awake => wpc'[w] \in Awake \/ Len(tasks') < Len(tasks) \/ tasks' = <<>>
      PROVE  SleepInv'
  <2>1. wpc' \in [Workers -> Places] /\ \A y \in Workers : y # w => wpc'[y] = wpc[y]
    BY <1>8 DEF Moves
  <2>2. Shift(wpc, wpc', w, Awake)
    BY <1>0, <2>1, Recount
  <2>3. Waiting(wpc') \subseteq Waiting(wpc)
    BY <1>8, WorkerMoves
  <2>4. tasks' = <<>> => Len(tasks') = 0
    OBVIOUS
  <2> QED BY <1>0, <1>8, <2>2, <2>3, <2>4 DEF SleepInv, Shift
<1>9. ASSUME NEW w \in Workers, WorkerStep(w)
      PROVE  SleepInv'
  <2>0. \A v \in Places : wpc' = [wpc EXCEPT ![w] = v] => Moves(w) /\ wpc'[w] = v
    BY <1>0 DEF Moves
  <2>1. CASE Enter(w)
    <3>1. \E v \in {"leave", "entered", "loop"} : Moves(w) /\ wpc'[w] = v
      BY <2>0, <2>1 DEF Enter, Places
    <3> QED BY <1>0, <1>8, <2>1, <3>1 DEF Enter, Awake
  <2>2. CASE NotifyEntered(w)
    <3>1. Moves(w) /\ wpc'[w] = "loop"
      BY <2>0, <2>2 DEF NotifyEntered, Places
    <3> QED BY <1>0, <1>8, <2>2, <3>1 DEF NotifyEntered, Awake
  <2>3. CASE Idle(w)
    <3>1. tasks' = <<>>
      BY <2>3 DEF Idle
    <3>2. CountInv'
      BY CountStep
    <3>3. Cardinality(At(wpc, Awake))' \in Nat
      BY <1>0, <3>2, FS_Subset, FS_CardinalityType DEF CountInv, At
    <3> QED BY <3>1, <3>3 DEF SleepInv
  <2>4. CASE TakeNothing(w)
    <3>1. Moves(w) /\ wpc'[w] = "loop"
      BY <2>0, <2>4 DEF TakeNothing, Places
    <3>2. tasks' = <<>> /\ Len(tasks') <= Len(tasks)
      BY <1>0, <2>4 DEF TakeNothing
    <3> QED BY <1>8, <3>1, <3>2
  <2>5. CASE Take(w)
    <3>1. Moves(w) /\ wpc'[w] = "execute"
      BY <2>0, <2>5 DEF Take, Places
    <3>2. tasks' = Tail(Unexpired) /\ Unexpired # <<>>
      BY <2>5 DEF Take
    <3>3. Len(tasks') < Len(tasks)
      BY <1>0, <3>2
    <3> QED BY <1>0, <1>8, <3>1, <3>3
  <2>6. CASE Execute(w)
    <3>1. Moves(w) /\ wpc'[w] = "loop"
      BY <2>0, <2>6 DEF Execute, Places
    <3> QED BY <1>0, <1>8, <2>6, <3>1 DEF Execute, Awake
  <2>7. CASE Quit(w)
    <3>1. PICK v \in {"leave", "leaveLast"} : Moves(w) /\ wpc'[w] = v
      BY <2>0, <2>7 DEF Quit, Places
    <3>2. Waiting(wpc') \subseteq Waiting(wpc)
      BY <3>1, WorkerMoves
    <3>3. ~ (workerCount <= workerMaxCount)
      BY <2>7 DEF Quit, isActive
    <3> QED BY <3>2, <3>3 DEF CountInv, SleepInv
  <2>8. CASE Leave(w)
    <3>1. Moves(w) /\ wpc'[w] = "dead"
      BY <2>0, <2>8 DEF Leave, Places
    <3> QED BY <1>0, <1>8, <2>8, <3>1 DEF Leave, Awake
  <2> QED BY <1>9, <2>1, <2>2, <2>3, <2>4, <2>5, <2>6, <2>7, <2>8 DEF WorkerStep
<1>10. ASSUME NEW c \in Controllers, NEW w \in Workers, StartThread(c, w)
       PROVE  SleepInv'
  <2>1. Moves(w) /\ wpc'[w] = "born" /\ wpc[w] = "new" /\ tasks' = tasks
    BY <1>0, <1>10 DEF StartThread, CountInv, Moves, Places
  <2> QED BY <1>0, <1>8, <2>1 DEF Awake
<1>11. ASSUME NEW n, Shrink(n)
       PROVE  SleepInv'
  BY <1>11, ShrinkKeepsCounts DEF SleepInv
<1>12. ASSUME NEW c \in Controllers, Await(c)
       PROVE  SleepInv'
  <2>1. /\ wpc' \in [Workers -> Places] /\ tasks' = tasks
        /\ \A w \in Workers : wpc'[w] = wpc[w] \/ (wpc[w] = "dead" /\ wpc'[w] = "reaped")
    BY <1>0, <1>12 DEF Await, Places
  <2>2. At(wpc', Awake) = At(wpc, Awake) /\ Waiting(wpc') = Waiting(wpc)
    BY <1>0, <2>1 DEF At, Awake, Waiting
  <2> QED BY <1>0, <2>1, <2>2, FewerTasks
<1>13. ASSUME NEW c \in Controllers, ControllerCalls(c)
       PROVE  SleepInv'
  <2>1. CASE start(c)
    BY <2>1, StartWakesAll DEF SleepInv
  <2> QED BY <1>0, <1>1, <1>11, <1>13, <2>1 DEF ControllerCalls, addWorker, removeWorker, stopImpl
<1>14. ASSUME NEW c \in Controllers, RemoveAll(c) \/ SetStopped(c)
       PROVE  SleepInv'
  BY <1>0, <1>1, <1>11, <1>14 DEF RemoveAll, SetStopped
<1>15. ASSUME NEW t \in Tasks, Elapse(t)
       PROVE  SleepInv'
  BY <1>0, <1>1, <1>15 DEF Elapse
<1>16. CASE UNCHANGED vars
  BY <1>0, <1>1, <1>16 DEF vars
<1>17. ASSUME NEW a \in Adders, AdderCalls(a) \/ AddWoken(a) \/ AddTimesOut(a)
       PROVE  SleepInv'
  BY <1>2, <1>3, <1>4, <1>5, <1>6, <1>17 DEF AdderCalls
<1> QED BY <1>7, <1>9, <1>10, <1>12, <1>13, <1>14, <1>15, <1>16, <1>17 DEF Next, ControllerStep

\* The pool starts with nothing on the queue and nobody in it.
LEMMA PoolStarts == ASSUME Init PROVE LimitInv /\ CountInv /\ SleepInv
<1>1. LimitInv
  BY PoolAssumption DEF Init, LimitInv, QueueInv, LimitKept
<1>2. At(wpc, Resting) = {} /\ At(wpc, Counted) = {} /\ Waiting(wpc) = {}
  BY DEF Init, At, Resting, Counted, Waiting
<1>3. CountInv
  BY <1>2, FS_EmptySet DEF Init, CountInv, Places
<1> QED BY <1>1, <1>2, <1>3 DEF SleepInv

\* No wakeup of a worker is lost: an adder notifies under mutex_ for every task
\* it puts on the queue, as long as idleCount_ says that anyone sleeps.
THEOREM WorkersNotSleptOn == Spec => []NoTaskSleptOn
<1>1. Init => LimitInv /\ CountInv /\ SleepInv
  BY PoolStarts
<1>2. LimitInv /\ CountInv /\ SleepInv /\ [Next]_vars => LimitInv' /\ CountInv' /\ SleepInv'
  BY LimitStep, CountStep, SleepStep
<1>3. CountInv /\ SleepInv => NoTaskSleptOn
  BY SleepMeans
<1> QED BY <1>1, <1>2, <1>3, PTL DEF Spec

-----------------------------------------------------------------------------
(* The tasks *)

Elems(q) == {q[k] : k \in DOMAIN q}
Distinct(q) == \A j, k \in DOMAIN q : q[j] = q[k] => j = k
Held == {wtask[w] : w \in Workers} \ {None}
Ran == {t \in Tasks : ran[t] = 1}

\* Dropping the tasks at the front leaves the others, each once.
LEMMA DropFront ==
  ASSUME NEW q \in Seq(Tasks), Distinct(q), NEW n \in 0 .. Len(q)
  PROVE  LET r == SubSeq(q, n + 1, Len(q))
             X == {q[k] : k \in 1 .. n}
         IN  /\ Distinct(r) /\ Elems(q) = Elems(r) \cup X /\ Elems(r) \cap X = {}
<1> DEFINE r == SubSeq(q, n + 1, Len(q))
           X == {q[k] : k \in 1 .. n}
<1>1. /\ Len(q) \in Nat /\ n \in Nat /\ DOMAIN q = 1 .. Len(q)
      /\ DOMAIN r = 1 .. (Len(q) - n) /\ \A k \in 1 .. (Len(q) - n) : r[k] = q[k + n]
  OBVIOUS
<1> HIDE DEF r
<1>2. Distinct(r)
  <2> SUFFICES ASSUME NEW j \in DOMAIN r, NEW k \in DOMAIN r, r[j] = r[k]
               PROVE  j = k
    BY DEF Distinct
  <2>1. /\ j \in 1 .. (Len(q) - n) /\ k \in 1 .. (Len(q) - n)
        /\ j + n \in DOMAIN q /\ k + n \in DOMAIN q
    BY <1>1
  <2>2. q[j + n] = q[k + n]
    BY <1>1, <2>1
  <2>3. j + n = k + n
    BY <2>1, <2>2 DEF Distinct
  <2> QED BY <1>1, <2>1, <2>3
<1>3. ASSUME NEW k \in DOMAIN q
      PROVE  q[k] \in Elems(r) \cup X
  <2>1. CASE k \in 1 .. n
    BY <2>1
  <2>2. CASE k \notin 1 .. n
    <3>1. k - n \in 1 .. (Len(q) - n) /\ (k - n) + n = k
      BY <1>1, <2>2
    <3>2. k - n \in DOMAIN r /\ r[k - n] = q[k]
      BY <1>1, <3>1
    <3> QED BY <3>2 DEF Elems
  <2> QED BY <2>1, <2>2
<1>4. ASSUME NEW k \in DOMAIN r
      PROVE  r[k] \in Elems(q) /\ r[k] \notin X
  <2>1. k \in 1 .. (Len(q) - n) /\ k + n \in DOMAIN q /\ r[k] = q[k + n]
    BY <1>1
  <2>2. \A j \in 1 .. n : j \in DOMAIN q /\ j # k + n
    BY <1>1, <2>1
  <2> QED BY <2>1, <2>2 DEF Elems, Distinct
<1>5. X \subseteq Elems(q)
  BY <1>1 DEF Elems
<1>6. Elems(q) \subseteq Elems(r) \cup X
  BY <1>3 DEF Elems
<1>7. Elems(r) \subseteq Elems(q) /\ Elems(r) \cap X = {}
  BY <1>4 DEF Elems
<1> QED BY <1>2, <1>5, <1>6, <1>7 DEF r

\* removeExpiredTasks moves tasks from the queue to the expired ones.
LEMMA UnexpiredParts ==
  ASSUME tasks \in Seq(Tasks), Distinct(tasks)
  PROVE  /\ Distinct(Unexpired) /\ Elems(tasks) = Elems(Unexpired) \cup ExpiredTasks
         /\ Elems(Unexpired) \cap ExpiredTasks = {}
<1>1. ExpiredPrefix \in 0 .. Len(tasks)
  BY PrefixOfQueue
<1> HIDE DEF ExpiredPrefix
<1> QED BY <1>1, DropFront DEF Unexpired, ExpiredTasks

\* The first task leaves the queue.
LEMMA TailParts ==
  ASSUME NEW q \in Seq(Tasks), Distinct(q), q # <<>>
  PROVE  /\ Distinct(Tail(q)) /\ Elems(q) = Elems(Tail(q)) \cup {Head(q)}
         /\ Head(q) \notin Elems(Tail(q)) /\ Head(q) \in Tasks /\ Tail(q) \in Seq(Tasks)
<1>1. 1 \in 0 .. Len(q) /\ Tail(q) = SubSeq(q, 1 + 1, Len(q)) /\ Head(q) = q[1]
      /\ Head(q) \in Tasks /\ Tail(q) \in Seq(Tasks)
  OBVIOUS
<1>2. {q[k] : k \in 1 .. 1} = {Head(q)}
  BY <1>1
<1> QED BY <1>1, <1>2, DropFront

\* A task that is not on the queue is put there.
LEMMA AppendParts ==
  ASSUME NEW q \in Seq(Tasks), Distinct(q), NEW t \in Tasks, t \notin Elems(q)
  PROVE  Distinct(Append(q, t)) /\ Elems(Append(q, t)) = Elems(q) \cup {t}
<1> DEFINE r == Append(q, t)
<1>1. /\ Len(q) \in Nat /\ DOMAIN q = 1 .. Len(q) /\ DOMAIN r = 1 .. (Len(q) + 1)
      /\ r[Len(q) + 1] = t /\ \A k \in DOMAIN q : r[k] = q[k]
  OBVIOUS
<1> HIDE DEF r
<1>2. \A k \in DOMAIN r : k \in DOMAIN q \/ k = Len(q) + 1
  BY <1>1
<1>3. DOMAIN q \subseteq DOMAIN r /\ Len(q) + 1 \in DOMAIN r
  BY <1>1
<1>4. Elems(r) = Elems(q) \cup {t}
  BY <1>1, <1>2, <1>3 DEF Elems
<1>5. \A k \in DOMAIN q : q[k] # t
  BY DEF Elems
<1>6. Distinct(r)
  BY <1>1, <1>2, <1>5 DEF Distinct
<1> QED BY <1>4, <1>6 DEF r

\* The tasks A are on the queue, held, executed, expired or handed back, and
\* each of them only once.
Partition(Q, H, R, E, D, A) ==
  /\ A = Q \cup H \cup R \cup E \cup D
  /\ Q \cap (H \cup R \cup E \cup D) = {}
  /\ H \cap (R \cup E \cup D) = {}
  /\ R \cap (E \cup D) = {}
  /\ E \cap D = {}

\* A worker holds a task while it executes it, and the tasks of the adders in
\* add() are not accepted yet.
OwnInv ==
  /\ wtask \in [Workers -> Tasks \cup {None}]
  /\ \A w, v \in Workers : wtask[w] = wtask[v] /\ wtask[w] # None => w = v
  /\ \A w \in Workers : wpc[w] = "execute" <=> wtask[w] # None
  /\ \A a, b \in Adders : atask[a] = atask[b] /\ atask[a] # None => a = b
  /\ \A a \in Adders : atask[a] \notin accepted
  /\ accepted \subseteq Tasks

\* Every accepted task is in one place.
PlaceInv ==
  /\ OwnInv
  /\ ran \in [Tasks -> {0, 1}]
  /\ Distinct(tasks)
  /\ Partition(Elems(tasks), Held, Ran, expired, drained, accepted)

\* The two parts of add(): the expired tasks are dropped, and a task that was
\* not accepted before is put on what is left of the queue.
LEMMA CullKeepsPlaces ==
  ASSUME LimitInv, PlaceInv
  PROVE  /\ Unexpired \in Seq(Tasks) /\ Distinct(Unexpired)
         /\ Partition(Elems(Unexpired), Held, Ran, expired \cup ExpiredTasks, drained, accepted)
<1>1. tasks \in Seq(Tasks) /\ Distinct(tasks)
  BY DEF LimitInv, QueueInv, PlaceInv
<1>2. /\ Distinct(Unexpired) /\ Elems(tasks) = Elems(Unexpired) \cup ExpiredTasks
      /\ Elems(Unexpired) \cap ExpiredTasks = {}
  BY <1>1, UnexpiredParts
<1>3. Partition(Elems(tasks), Held, Ran, expired, drained, accepted)
  BY DEF PlaceInv
<1>4. Partition(Elems(Unexpired), Held, Ran, expired \cup ExpiredTasks, drained, accepted)
  BY <1>2, <1>3 DEF Partition
<1> QED BY <1>1, <1>2, <1>4, UnexpiredQueue

\* A task that add() pushes was in no place before.
LEMMA PushKeepsPlaces ==
  ASSUME NEW q \in Seq(Tasks), Distinct(q), NEW t \in Tasks, t \notin accepted, NEW E,
         Partition(Elems(q), Held, Ran, E, drained, accepted), Push(t, q, wpc)
  PROVE  /\ Distinct(tasks') /\ accepted' = accepted \cup {t}
         /\ Partition(Elems(tasks'), Held, Ran, E, drained, accepted')
<1>1. tasks' = Append(q, t) /\ accepted' = accepted \cup {t}
  BY DEF Push
<1>2. t \notin Elems(q)
  BY DEF Partition
<1>3. Distinct(tasks') /\ Elems(tasks') = Elems(q) \cup {t}
  BY <1>1, <1>2, AppendParts
<1>4. Partition(Elems(q) \cup {t}, Held, Ran, E, drained, accepted \cup {t})
  BY DEF Partition
<1> QED BY <1>1, <1>3, <1>4

\* What the workers hold and have executed, where they did neither.
LEMMA HeldKept ==
  ASSUME UNCHANGED <<wtask, ran>>
  PROVE  Held' = Held /\ Ran' = Ran
BY DEF Held, Ran

\* Workers may fall asleep, be woken and come and go, and an adder may leave
\* add() or have its task accepted.
LEMMA OwnKept ==
  ASSUME OwnInv, wtask' = wtask, \A w \in Workers : wpc'[w] = "execute" <=> wpc[w] = "execute",
         accepted' \subseteq Tasks,
         \A a \in Adders : atask'[a] \in {atask[a], None},
         \A a \in Adders : atask'[a] # None => atask'[a] \notin accepted'
  PROVE  OwnInv'
BY PoolAssumption DEF OwnInv

\* Every step moves tasks from one place to another.
LEMMA PlaceStep ==
  ASSUME LimitInv, CountInv, PlaceInv, [Next]_vars
  PROVE  PlaceInv'
<1> USE DEF manager, controllers, adders, history
<1>0. /\ tasks \in Seq(Tasks) /\ wpc \in [Workers -> Places]
      /\ atask \in [Adders -> Tasks \cup {None}]
      /\ ran \in [Tasks -> {0, 1}] /\ OwnInv /\ Distinct(tasks) /\ accepted \subseteq Tasks
      /\ wtask \in [Workers -> Tasks \cup {None}] /\ None \notin Tasks
      /\ Partition(Elems(tasks), Held, Ran, expired, drained, accepted)
      /\ \A a \in Adders : atask[a] \notin accepted
  BY PoolAssumption DEF LimitInv, QueueInv, CountInv, PlaceInv, OwnInv
<1>1. /\ Unexpired \in Seq(Tasks) /\ Distinct(Unexpired)
      /\ Partition(Elems(Unexpired), Held, Ran, expired \cup ExpiredTasks, drained, accepted)
  BY CullKeepsPlaces
\* No task moves.
<1>2. ASSUME UNCHANGED <<tasks, wtask, ran, expired, drained, accepted, atask>>,
             \A w \in Workers : wpc'[w] = "execute" <=> wpc[w] = "execute"
      PROVE  PlaceInv'
  <2>1. OwnInv'
    BY <1>0, <1>2 DEF OwnInv
  <2> QED BY <1>0, <1>2, <2>1, HeldKept DEF PlaceInv
\* Tasks expire, and nothing else happens to them.
<1>3. ASSUME tasks' = Unexpired, expired' = expired \cup ExpiredTasks, OwnInv',
             UNCHANGED <<wtask, ran, drained, accepted>>
      PROVE  PlaceInv'
  BY <1>0, <1>1, <1>3, HeldKept DEF PlaceInv
<1>4. ASSUME NEW a \in Adders, NEW t \in Tasks, AddThrows(a, t)
      PROVE  PlaceInv'
  <2>1. UNCHANGED <<wpc, wtask, ran, drained, accepted, atask>>
    BY <1>4 DEF AddThrows
  <2>2. OwnInv'
    BY <1>0, <2>1 DEF OwnInv
  <2> QED BY <1>2, <1>3, <1>4, <2>1, <2>2 DEF AddThrows
\* A task that no adder and no worker has is put on the queue.
<1>5. ASSUME NEW t \in Fresh, Push(t, Unexpired, wpc), expired' = expired \cup ExpiredTasks,
             UNCHANGED <<wtask, ran, drained, atask>>
      PROVE  PlaceInv'
  <2>1. t \in Tasks /\ t \notin accepted /\ \A a \in Adders : atask[a] # t
    BY DEF Fresh
  <2>2. /\ Distinct(tasks') /\ accepted' = accepted \cup {t}
        /\ Partition(Elems(tasks'), Held, Ran, expired \cup ExpiredTasks, drained, accepted')
    BY <1>1, <1>5, <2>1, PushKeepsPlaces
  <2>3. \A w \in Workers : wpc'[w] = "execute" <=> wpc[w] = "execute"
    BY <1>5, PushKeepsCounts
  <2>4. OwnInv'
    BY <1>0, <1>5, <2>1, <2>2, <2>3, OwnKept
  <2> QED BY <1>0, <1>5, <2>2, <2>4, HeldKept DEF PlaceInv
<1>6. ASSUME NEW a \in Adders, NEW t \in Tasks, Add(a, t)
      PROVE  PlaceInv'
  BY <1>5, <1>6 DEF Add
<1>7. ASSUME NEW w \in Workers, NEW t \in Tasks, ExecuteAdds(w, t)
      PROVE  PlaceInv'
  <2>1. CASE Push(t, Unexpired, wpc)
    BY <1>5, <1>7, <2>1 DEF ExecuteAdds
  <2>2. CASE tasks' = Unexpired /\ UNCHANGED <<wpc, accepted>>
    <3>1. UNCHANGED <<wpc, wtask, accepted, atask>>
      BY <1>7, <2>2 DEF ExecuteAdds
    <3>2. OwnInv'
      BY <1>0, <3>1 DEF OwnInv
    <3> QED BY <1>3, <1>7, <2>2, <3>2 DEF ExecuteAdds
  <2> QED BY <1>7, <2>1, <2>2 DEF ExecuteAdds
<1>8. ASSUME NEW a \in Adders, NEW t \in Tasks, AddWaits(a, t)
      PROVE  PlaceInv'
  <2>1. /\ atask' = [atask EXCEPT ![a] = t] /\ UNCHANGED <<wpc, wtask, accepted>>
        /\ t \notin accepted /\ \A b \in Adders : atask[b] # t
    BY <1>8 DEF AddWaits, Fresh
  <2>2. OwnInv'
    BY <1>0, <2>1 DEF OwnInv
  <2> QED BY <1>3, <1>8, <2>2 DEF AddWaits
<1>9. ASSUME NEW a \in Adders, AddWoken(a)
      PROVE  PlaceInv'
  <2>1. CASE UNCHANGED <<tasks, wpc, atask, accepted, lateAdds>>
    BY <1>2, <1>9, <2>1 DEF AddWoken
  <2>2. CASE Push(atask[a], tasks, wpc) /\ atask' = [atask EXCEPT ![a] = None]
    <3>1. atask[a] \in Tasks /\ atask[a] \notin accepted
      BY <1>0, <1>9 DEF AddWoken, LimitInv, QueueInv
    <3>2. /\ Distinct(tasks') /\ accepted' = accepted \cup {atask[a]}
          /\ Partition(Elems(tasks'), Held, Ran, expired, drained, accepted')
      BY <1>0, <2>2, <3>1, PushKeepsPlaces
    <3>3. \A w \in Workers : wpc'[w] = "execute" <=> wpc[w] = "execute"
      BY <2>2, PushKeepsCounts
    <3>4. UNCHANGED <<wtask, ran, expired, drained>>
      BY <1>9 DEF AddWoken
    <3>5. \A b \in Adders : atask'[b] = IF b = a THEN None ELSE atask[b]
      BY <1>0, <2>2
    <3>6. \A b \in Adders : atask'[b] # None => atask'[b] \notin accepted'
      BY <1>0, <3>2, <3>5 DEF OwnInv
    <3>7. OwnInv'
      BY <1>0, <3>1, <3>2, <3>3, <3>4, <3>5, <3>6, OwnKept
    <3> QED BY <1>0, <3>2, <3>4, <3>7, HeldKept DEF PlaceInv
  <2> QED BY <1>9, <2>1, <2>2 DEF AddWoken
<1>10. ASSUME NEW a \in Adders, AddTimesOut(a)
       PROVE  PlaceInv'
  <2>1. /\ atask' = [atask EXCEPT ![a] = None]
        /\ UNCHANGED <<tasks, wpc, wtask, ran, expired, drained, accepted>>
    BY <1>10 DEF AddTimesOut
  <2>2. OwnInv'
    BY <1>0, <2>1 DEF OwnInv
  <2> QED BY <1>0, <2>1, <2>2, HeldKept DEF PlaceInv
<1>11. ASSUME NEW a \in Adders, removeNextPending(a)
       PROVE  PlaceInv'
  <2>1. /\ tasks # <<>> /\ tasks' = Tail(tasks) /\ drained' = drained \cup {Head(tasks)}
        /\ UNCHANGED <<wpc, wtask, ran, expired, accepted, atask>>
    BY <1>11 DEF removeNextPending
  <2>2. OwnInv'
    BY <1>0, <2>1 DEF OwnInv
  <2>3. /\ Distinct(tasks') /\ Elems(tasks) = Elems(tasks') \cup {Head(tasks)}
        /\ Head(tasks) \notin Elems(tasks')
    BY <1>0, <2>1, TailParts
  <2>4. Partition(Elems(tasks'), Held, Ran, expired, drained', accepted)
    BY <1>0, <2>1, <2>3 DEF Partition
  <2> QED BY <1>0, <2>1, <2>2, <2>3, <2>4, HeldKept DEF PlaceInv
<1>12. ASSUME NEW w \in Workers, TakeNothing(w)
       PROVE  PlaceInv'
  <2>1. /\ tasks' = Unexpired /\ expired' = expired \cup ExpiredTasks
        /\ UNCHANGED <<wtask, ran, drained, accepted, atask>>
        /\ wpc[w] # "execute" /\ wpc' = [wpc EXCEPT ![w] = "loop"]
    BY <1>12 DEF TakeNothing, Ready
  <2>2. OwnInv'
    BY <1>0, <2>1 DEF OwnInv
  <2> QED BY <1>3, <2>1, <2>2
<1>13. ASSUME NEW w \in Workers, Take(w)
       PROVE  PlaceInv'
  <2> DEFINE h == Head(Unexpired)
  <2>1. /\ Unexpired # <<>> /\ tasks' = Tail(Unexpired) /\ expired' = expired \cup ExpiredTasks
        /\ UNCHANGED <<ran, drained, accepted, atask>>
        /\ wpc[w] # "execute" /\ wpc' = [wpc EXCEPT ![w] = "execute"]
        /\ wtask' = [wtask EXCEPT ![w] = h]
    BY <1>13 DEF Take, Ready
  <2>2. /\ Distinct(tasks') /\ Elems(Unexpired) = Elems(tasks') \cup {h}
        /\ h \notin Elems(tasks') /\ h \in Tasks
    BY <1>1, <2>1, TailParts
  <2> HIDE DEF h
  <2>3. h \notin Held /\ wtask[w] = None
    BY <1>0, <1>1, <2>1, <2>2 DEF Partition, OwnInv
  <2>4. \A v \in Workers : wtask[v] # h
    BY <1>0, <2>2, <2>3 DEF Held
  <2>5. OwnInv'
    BY <1>0, <2>1, <2>2, <2>4 DEF OwnInv
  <2>6. Held' = Held \cup {h}
    <3>1. \A v \in Workers : wtask'[v] = IF v = w THEN h ELSE wtask[v]
      BY <1>0, <2>1
    <3> QED BY <1>0, <2>2, <2>3, <3>1 DEF Held
  <2>7. Ran' = Ran
    BY <2>1 DEF Ran
  <2>8. Partition(Elems(tasks'), Held \cup {h}, Ran, expired', drained, accepted)
    BY <1>1, <2>1, <2>2 DEF Partition
  <2> QED BY <1>0, <2>1, <2>2, <2>5, <2>6, <2>7, <2>8 DEF PlaceInv
<1>14. ASSUME NEW w \in Workers, Execute(w)
       PROVE  PlaceInv'
  <2> DEFINE h == wtask[w]
  <2>1. /\ UNCHANGED <<tasks, expired, drained, accepted, atask>>
        /\ wpc[w] = "execute" /\ wpc' = [wpc EXCEPT ![w] = "loop"]
        /\ wtask' = [wtask EXCEPT ![w] = None] /\ ran' = [ran EXCEPT ![h] = @ + 1]
    BY <1>14 DEF Execute
  <2>2. h \in Tasks /\ h \in Held /\ h \notin Ran
    BY <1>0, <2>1 DEF OwnInv, Held, Partition
  <2>3. ran[h] = 0
    BY <1>0, <2>2 DEF Ran
  <2>4. ran' \in [Tasks -> {0, 1}] /\ Ran' = Ran \cup {h}
    BY <1>0, <2>1, <2>2, <2>3 DEF Ran
  <2>5. \A v \in Workers : wtask'[v] = IF v = w THEN None ELSE wtask[v]
    BY <1>0, <2>1
  <2>6. Held' = Held \ {h}
    BY <1>0, <2>2, <2>5 DEF Held, OwnInv
  <2>7. OwnInv'
    BY <1>0, <2>1, <2>5 DEF OwnInv
  <2>8. Partition(Elems(tasks), Held \ {h}, Ran \cup {h}, expired, drained, accepted)
    BY <1>0, <2>2 DEF Partition
  <2> QED BY <1>0, <2>1, <2>4, <2>6, <2>7, <2>8 DEF PlaceInv
<1>15. ASSUME NEW w \in Workers, Enter(w) \/ NotifyEntered(w) \/ Idle(w) \/ Quit(w) \/ Leave(w)
       PROVE  PlaceInv'
  <2>1. /\ UNCHANGED <<tasks, wtask, ran, expired, drained, accepted, atask>> /\ wpc[w] # "execute"
        /\ \E v \in Places \ {"execute"} : wpc' = [wpc EXCEPT ![w] = v]
    BY <1>15 DEF Enter, NotifyEntered, Idle, Quit, Leave, Ready, Places
  <2>2. \A v \in Workers : wpc'[v] = "execute" <=> wpc[v] = "execute"
    BY <1>0, <2>1
  <2> QED BY <1>2, <2>1, <2>2
<1>16. ASSUME NEW c \in Controllers, NEW w \in Workers, StartThread(c, w)
       PROVE  PlaceInv'
  <2>1. /\ UNCHANGED <<tasks, wtask, ran, expired, drained, accepted, atask>>
        /\ wpc[w] = "new" /\ wpc' = [wpc EXCEPT ![w] = "born"]
    BY <1>16 DEF StartThread, CountInv
  <2>2. \A v \in Workers : wpc'[v] = "execute" <=> wpc[v] = "execute"
    BY <1>0, <2>1
  <2> QED BY <1>2, <2>1, <2>2
<1>17. ASSUME NEW n, Shrink(n), UNCHANGED <<tasks, wtask, ran, expired, drained, accepted, atask>>
       PROVE  PlaceInv'
  BY <1>2, <1>17, ShrinkWakesAll
<1>18. ASSUME NEW c \in Controllers, Await(c)
       PROVE  PlaceInv'
  <2>1. /\ UNCHANGED <<tasks, wtask, ran, expired, drained, accepted, atask>>
        /\ \A w \in Workers : wpc'[w] = "execute" <=> wpc[w] = "execute"
    BY <1>0, <1>18 DEF Await
  <2> QED BY <1>2, <2>1
<1>19. ASSUME NEW c \in Controllers, ControllerCalls(c)
       PROVE  PlaceInv'
  <2>1. CASE start(c)
    <3>1. UNCHANGED <<tasks, wtask, ran, expired, drained, accepted, atask>>
      BY <2>1 DEF start
    <3> QED BY <1>2, <2>1, <3>1, StartWakesAll
  <2> QED BY <1>2, <1>17, <1>19, <2>1 DEF ControllerCalls, addWorker, removeWorker, stopImpl
<1>20. ASSUME NEW c \in Controllers, RemoveAll(c) \/ SetStopped(c)
       PROVE  PlaceInv'
  BY <1>2, <1>17, <1>20 DEF RemoveAll, SetStopped
<1>21. ASSUME NEW t \in Tasks, Elapse(t)
       PROVE  PlaceInv'
  BY <1>2, <1>21 DEF Elapse
<1>22. CASE UNCHANGED vars
  BY <1>2, <1>22 DEF vars
<1>23. ASSUME NEW w \in Workers, WorkerStep(w)
       PROVE  PlaceInv'
  BY <1>12, <1>13, <1>14, <1>15, <1>23 DEF WorkerStep
<1>24. ASSUME NEW a \in Adders, AdderCalls(a) \/ AddWoken(a) \/ AddTimesOut(a)
       PROVE  PlaceInv'
  BY <1>4, <1>6, <1>8, <1>9, <1>10, <1>11, <1>24 DEF AdderCalls
<1> QED BY <1>7, <1>16, <1>18, <1>19, <1>20, <1>21, <1>22, <1>23, <1>24 DEF Next, ControllerStep

\* A task is somewhere once, or it is not there.
LEMMA OncePlaces ==
  ASSUME PlaceInv, NEW t \in Tasks
  PROVE  /\ Cardinality(Queued(t)) = IF t \in Elems(tasks) THEN 1 ELSE 0
         /\ Cardinality(Executing(t)) = IF t \in Held THEN 1 ELSE 0
         /\ ran[t] = IF t \in Ran THEN 1 ELSE 0
         /\ \A S : Cardinality({t} \cap S) = IF t \in S THEN 1 ELSE 0
<1>0. t # None
  BY PoolAssumption
<1>1. Cardinality(Queued(t)) = IF t \in Elems(tasks) THEN 1 ELSE 0
  <2>1. CASE t \in Elems(tasks)
    <3>1. PICK k \in DOMAIN tasks : tasks[k] = t
      BY <2>1 DEF Elems
    <3>2. Queued(t) = {k}
      BY <3>1 DEF Queued, PlaceInv, Distinct
    <3> QED BY <2>1, <3>2, FS_Singleton
  <2>2. CASE t \notin Elems(tasks)
    <3>1. Queued(t) = {}
      BY <2>2 DEF Queued, Elems
    <3> QED BY <2>2, <3>1, FS_EmptySet
  <2> QED BY <2>1, <2>2
<1>2. Cardinality(Executing(t)) = IF t \in Held THEN 1 ELSE 0
  <2>1. CASE t \in Held
    <3>1. PICK w \in Workers : wtask[w] = t
      BY <2>1 DEF Held
    <3>2. Executing(t) = {w}
      BY <1>0, <3>1 DEF Executing, PlaceInv, OwnInv
    <3> QED BY <2>1, <3>2, FS_Singleton
  <2>2. CASE t \notin Held
    <3>1. Executing(t) = {}
      BY <1>0, <2>2 DEF Executing, Held
    <3> QED BY <2>2, <3>1, FS_EmptySet
  <2> QED BY <2>1, <2>2
<1>3. ran[t] = IF t \in Ran THEN 1 ELSE 0
  BY DEF PlaceInv, Ran
<1>4. ASSUME NEW S
      PROVE  Cardinality({t} \cap S) = IF t \in S THEN 1 ELSE 0
  <2>1. CASE t \in S
    <3>1. {t} \cap S = {t}
      BY <2>1
    <3> QED BY <2>1, <3>1, FS_Singleton
  <2>2. CASE t \notin S
    <3>1. {t} \cap S = {}
      BY <2>2
    <3> QED BY <2>2, <3>1, FS_EmptySet
  <2> QED BY <2>1, <2>2
<1> QED BY <1>1, <1>2, <1>3, <1>4

\* A task in one place only is counted once.
LEMMA PlacesCount == ASSUME PlaceInv PROVE TasksAccounted
<1> SUFFICES ASSUME NEW t \in accepted
             PROVE  Cardinality(Queued(t)) + Cardinality(Executing(t)) + ran[t]
                      + Cardinality({t} \cap expired) + Cardinality({t} \cap drained) = 1
  BY DEF TasksAccounted
<1>1. t \in Tasks
  BY DEF PlaceInv, OwnInv
<1>2. /\ t \in Elems(tasks) \/ t \in Held \/ t \in Ran \/ t \in expired \/ t \in drained
      /\ t \in Elems(tasks) => ~ (t \in Held \/ t \in Ran \/ t \in expired \/ t \in drained)
      /\ t \in Held => ~ (t \in Ran \/ t \in expired \/ t \in drained)
      /\ t \in Ran => ~ (t \in expired \/ t \in drained)
      /\ t \in expired => ~ (t \in drained)
  BY DEF PlaceInv, Partition
<1>3. /\ Cardinality(Queued(t)) = IF t \in Elems(tasks) THEN 1 ELSE 0
      /\ Cardinality(Executing(t)) = IF t \in Held THEN 1 ELSE 0
      /\ ran[t] = IF t \in Ran THEN 1 ELSE 0
      /\ Cardinality({t} \cap expired) = IF t \in expired THEN 1 ELSE 0
      /\ Cardinality({t} \cap drained) = IF t \in drained THEN 1 ELSE 0
  BY <1>1, OncePlaces
<1> QED BY <1>2, <1>3

\* At the start no task is accepted.
LEMMA PlacesStart == ASSUME Init PROVE PlaceInv
<1>1. OwnInv
  BY DEF Init, OwnInv
<1>2. Elems(tasks) = {} /\ Held = {} /\ Ran = {} /\ Distinct(tasks)
  BY DEF Init, Elems, Held, Ran, Distinct
<1> QED BY <1>1, <1>2 DEF Init, PlaceInv, Partition

\* A task that add() accepted is executed at most once and is never lost or
\* kept twice, whoever adds, takes, expires or drains tasks at the same time.
THEOREM TasksNeverLost == Spec => []TasksAccounted
<1>1. Init => LimitInv /\ CountInv /\ PlaceInv
  BY PoolStarts, PlacesStart
<1>2. LimitInv /\ CountInv /\ PlaceInv /\ [Next]_vars => LimitInv' /\ CountInv' /\ PlaceInv'
  BY LimitStep, CountStep, PlaceStep
<1>3. PlaceInv => TasksAccounted
  BY PlacesCount
<1> QED BY <1>1, <1>2, <1>3, PTL DEF Spec

-----------------------------------------------------------------------------
(* The sleeping adders *)

\* removeExpiredTasks that drops nothing leaves the queue as it was.
LEMMA NothingExpired ==
  ASSUME tasks \in Seq(Tasks), ExpiredTasks = {}
  PROVE  Unexpired = tasks
<1>1. ExpiredPrefix \in 0 .. Len(tasks)
  BY PrefixOfQueue
<1> HIDE DEF ExpiredPrefix
<1>2. ~ (1 \in 1 .. ExpiredPrefix)
  BY DEF ExpiredTasks
<1>3. ExpiredPrefix = 0
  BY <1>1, <1>2
<1> QED BY <1>3 DEF Unexpired

\* As long as no room was made silently, there is a woken adder for every
\* place on the queue that was freed while others sleep.
RoomInv ==
  /\ PendingMax = 0 => At(apc, {"waiting", "woken"}) = {}
  /\ Waiting(apc) # {} /\ drained \cup expired = {} =>
       Cardinality(At(apc, {"woken"})) + Len(tasks) >= PendingMax

\* The adders that are woken are a number.
LEMMA WokenNumber ==
  ASSUME NEW f \in [Adders -> {"ready", "waiting", "woken"}]
  PROVE  Cardinality(At(f, {"woken"})) \in Nat
<1>1. At(f, {"woken"}) \in SUBSET Adders
  BY DEF At
<1> QED BY <1>1, FS_Subset, FS_CardinalityType, PoolAssumption

\* A task is put on the queue by somebody who did not have to sleep.
LEMMA PushFillsRoom ==
  ASSUME LimitInv, RoomInv, NEW t \in Tasks, Push(t, Unexpired, wpc), apc' = apc,
         expired' = expired \cup ExpiredTasks, drained' = drained
  PROVE  RoomInv'
<1>1. tasks \in Seq(Tasks) /\ Len(tasks) \in Nat
  BY DEF LimitInv, QueueInv
<1>2. Cardinality(At(apc, {"woken"})) \in Nat
  BY WokenNumber DEF LimitInv, QueueInv
<1>3. expired' = {} => Len(tasks') = Len(tasks) + 1 /\ expired = {}
  BY <1>1, NothingExpired DEF Push
<1> QED BY <1>1, <1>2, <1>3, PoolAssumption DEF RoomInv

\* Every step that makes room wakes an adder, but for the two that say so.
LEMMA RoomStep ==
  ASSUME LimitInv, RoomInv, [Next]_vars
  PROVE  RoomInv'
<1> USE DEF manager, controllers, adders, history
<1> DEFINE APlaces == {"ready", "waiting", "woken"}
           N == Cardinality(At(apc, {"woken"}))
<1>0. /\ tasks \in Seq(Tasks) /\ Len(tasks) \in Nat /\ PendingMax \in Nat
      /\ apc \in [Adders -> APlaces] /\ IsFiniteSet(Adders)
      /\ Unexpired \in Seq(Tasks) /\ Len(Unexpired) \in Nat
      /\ tasks' \in Seq(Tasks) /\ Len(tasks') \in Nat /\ N \in Nat
  BY UnexpiredQueue, LimitStep, WokenNumber, PoolAssumption DEF LimitInv, QueueInv
<1>1. ASSUME UNCHANGED <<tasks, apc, expired, drained>>
      PROVE  RoomInv'
  BY <1>1 DEF RoomInv
<1>2. ASSUME tasks' = Unexpired, apc' = apc, expired' = expired \cup ExpiredTasks, drained' = drained
      PROVE  RoomInv'
  <2>1. expired' = {} => tasks' = tasks /\ expired = {}
    BY <1>0, <1>2, NothingExpired
  <2> QED BY <1>2, <2>1 DEF RoomInv
<1>3. ASSUME NEW a \in Adders, NEW t \in Tasks, AddThrows(a, t)
      PROVE  RoomInv'
  BY <1>1, <1>2, <1>3 DEF AddThrows
<1>4. ASSUME NEW a \in Adders, NEW t \in Tasks, Add(a, t)
      PROVE  RoomInv'
  BY <1>4, PushFillsRoom DEF Add
<1>5. ASSUME NEW w \in Workers, NEW t \in Tasks, ExecuteAdds(w, t)
      PROVE  RoomInv'
  BY <1>2, <1>5, PushFillsRoom DEF ExecuteAdds
\* An adder moves.
<1>6. ASSUME NEW a \in Adders, NEW v \in APlaces, apc' = [apc EXCEPT ![a] = v]
      PROVE  /\ apc' \in [Adders -> APlaces] /\ apc'[a] = v
             /\ \A b \in Adders : b # a => apc'[b] = apc[b]
             /\ Shift(apc, apc', a, {"woken"})
  <2>1. /\ apc' \in [Adders -> APlaces] /\ apc'[a] = v
        /\ \A b \in Adders : b # a => apc'[b] = apc[b]
    BY <1>0, <1>6
  <2>2. Shift(apc, apc', a, {"woken"})
    <3> HIDE DEF APlaces
    <3> QED BY <1>0, <2>1, Recount
  <2> QED BY <2>1, <2>2
<1>7. ASSUME NEW a \in Adders, NEW t \in Tasks, AddWaits(a, t)
      PROVE  RoomInv'
  <2>1. /\ tasks' = Unexpired /\ PendingMax > 0 /\ Len(Unexpired) >= PendingMax
    BY <1>7 DEF AddWaits, Full
  <2>2. Shift(apc, apc', a, {"woken"})
    BY <1>6, <1>7 DEF AddWaits
  <2>3. Cardinality(At(apc', {"woken"})) \in Nat
    BY <2>2 DEF Shift
  <2> QED BY <1>0, <2>1, <2>3 DEF RoomInv
<1>8. ASSUME NEW a \in Adders, AddWoken(a)
      PROVE  RoomInv'
  <2>1. apc[a] = "woken" /\ UNCHANGED <<expired, drained>>
    BY <1>8 DEF AddWoken
  <2>2. PendingMax > 0
    BY <1>0, <2>1 DEF RoomInv, At
  <2>3. CASE Full(tasks) /\ apc' = [apc EXCEPT ![a] = "waiting"] /\ tasks' = tasks
    <3>1. Shift(apc, apc', a, {"woken"})
      BY <1>6, <2>3
    <3>2. Cardinality(At(apc', {"woken"})) \in Nat /\ Len(tasks') >= PendingMax
      BY <2>3, <3>1 DEF Shift, Full
    <3> QED BY <1>0, <2>2, <3>2 DEF RoomInv
  <2>4. CASE Push(atask[a], tasks, wpc) /\ apc' = [apc EXCEPT ![a] = "ready"]
    <3>1. /\ Shift(apc, apc', a, {"woken"}) /\ apc'[a] = "ready"
          /\ \A b \in Adders : b # a => apc'[b] = apc[b]
          /\ apc' \in [Adders -> APlaces]
      BY <1>6, <2>4
    <3>2. N = Cardinality(At(apc', {"woken"})) + 1 /\ Cardinality(At(apc', {"woken"})) \in Nat
      BY <2>1, <3>1 DEF Shift
    <3>3. Waiting(apc') \subseteq Waiting(apc)
      BY <1>0, <3>1 DEF Waiting
    <3>4. Len(tasks') = Len(tasks) + 1
      BY <1>0, <2>4 DEF Push
    <3> HIDE DEF N
    <3>5. Waiting(apc) # {} /\ drained \cup expired = {} => N + Len(tasks) >= PendingMax
      BY DEF RoomInv, N
    <3>6. Waiting(apc') # {} /\ drained \cup expired = {} =>
            Cardinality(At(apc', {"woken"})) + Len(tasks') >= PendingMax
      BY <1>0, <3>2, <3>3, <3>4, <3>5
    <3> QED BY <1>0, <2>1, <2>2, <3>6 DEF RoomInv
  <2> QED BY <1>8, <2>3, <2>4 DEF AddWoken
<1>9. ASSUME NEW a \in Adders, AddTimesOut(a)
      PROVE  RoomInv'
  <2>1. /\ apc[a] = "waiting" /\ apc' = [apc EXCEPT ![a] = "ready"]
        /\ UNCHANGED <<tasks, expired, drained>>
    BY <1>9 DEF AddTimesOut
  <2>2. At(apc', {"woken"}) = At(apc, {"woken"}) /\ Waiting(apc') \subseteq Waiting(apc)
        /\ At(apc', {"waiting", "woken"}) \subseteq At(apc, {"waiting", "woken"})
    BY <1>0, <2>1 DEF At, Waiting
  <2> QED BY <2>1, <2>2 DEF RoomInv
<1>10. ASSUME NEW a \in Adders, removeNextPending(a)
       PROVE  RoomInv'
  <2>1. apc' = apc /\ drained' # {}
    BY <1>10 DEF removeNextPending
  <2> QED BY <2>1 DEF RoomInv
<1>11. ASSUME NEW w \in Workers, TakeNothing(w)
       PROVE  RoomInv'
  BY <1>2, <1>11 DEF TakeNothing
<1>12. ASSUME NEW w \in Workers, Take(w)
       PROVE  RoomInv'
  <2>1. /\ Unexpired # <<>> /\ tasks' = Tail(Unexpired) /\ expired' = expired \cup ExpiredTasks
        /\ drained' = drained
        /\ IF PendingMax > 0 /\ ~ Full(tasks') THEN apc' \in NotifyOne(apc) ELSE apc' = apc
    BY <1>12 DEF Take
  <2>2. CASE PendingMax = 0
    <3>1. apc' = apc /\ Waiting(apc) = {}
      BY <2>1, <2>2 DEF RoomInv, At, Waiting
    <3> QED BY <2>2, <3>1 DEF RoomInv
  <2>3. CASE PendingMax > 0 /\ Full(tasks')
    <3>1. apc' = apc /\ Len(tasks') >= PendingMax
      BY <2>1, <2>3 DEF Full
    <3> QED BY <1>0, <2>3, <3>1 DEF RoomInv
  <2>4. CASE PendingMax > 0 /\ ~ Full(tasks')
    <3> SUFFICES ASSUME Waiting(apc') # {}, drained' \cup expired' = {}
                 PROVE  Cardinality(At(apc', {"woken"})) + Len(tasks') >= PendingMax
      BY <1>0, <2>4 DEF RoomInv
    <3>1. Unexpired = tasks /\ drained \cup expired = {}
      BY <1>0, <2>1, NothingExpired
    <3>2. Len(tasks') = Len(tasks) - 1
      BY <1>0, <2>1, <3>1
    <3>3. PICK g \in NotifyOne(apc) : apc' = g
      BY <2>1, <2>4
    <3>4. "woken" \in APlaces /\ "waiting" \notin {"woken"} /\ "woken" \in {"woken"}
      OBVIOUS
    <3>5. Waiting(g) \subseteq Waiting(apc)
      <4> HIDE DEF APlaces
      <4> QED BY <1>0, <3>4, NotifyOneMoves
    <3>6. Waiting(apc) # {}
      BY <3>3, <3>5
    <3>7. Cardinality(At(g, {"woken"})) = N + 1
      <4> HIDE DEF APlaces
      <4> QED BY <1>0, <3>4, <3>6, NotifyOneCount
    <3> HIDE DEF N
    <3>8. N + Len(tasks) >= PendingMax
      BY <3>1, <3>6 DEF RoomInv, N
    <3> QED BY <1>0, <3>2, <3>3, <3>7, <3>8
  <2> QED BY <1>0, <2>2, <2>3, <2>4
<1>13. ASSUME NEW w \in Workers,
              Enter(w) \/ NotifyEntered(w) \/ Idle(w) \/ Execute(w) \/ Quit(w) \/ Leave(w)
       PROVE  RoomInv'
  BY <1>1, <1>13 DEF Enter, NotifyEntered, Idle, Execute, Quit, Leave
<1>14. ASSUME NEW c \in Controllers, ControllerCalls(c) \/ ControllerStep(c)
       PROVE  RoomInv'
  BY <1>1, <1>14 DEF ControllerCalls, ControllerStep, start, addWorker, removeWorker, stopImpl,
                     StartThread, RemoveAll, Await, SetStopped
<1>15. ASSUME NEW t \in Tasks, Elapse(t)
       PROVE  RoomInv'
  BY <1>1, <1>15 DEF Elapse
<1>16. CASE UNCHANGED vars
  BY <1>1, <1>16 DEF vars
<1>17. ASSUME NEW w \in Workers, WorkerStep(w)
       PROVE  RoomInv'
  BY <1>11, <1>12, <1>13, <1>17 DEF WorkerStep
<1>18. ASSUME NEW a \in Adders, AdderCalls(a) \/ AddWoken(a) \/ AddTimesOut(a)
       PROVE  RoomInv'
  BY <1>3, <1>4, <1>7, <1>8, <1>9, <1>10, <1>18 DEF AdderCalls
<1> QED BY <1>5, <1>14, <1>15, <1>16, <1>17, <1>18 DEF Next

\* With room on the queue and an adder asleep, RoomInv gives a woken adder.
LEMMA RoomMeans == ASSUME LimitInv, RoomInv PROVE BlockedAddNeedsExcuse
<1> SUFFICES ASSUME Waiting(apc) # {}, ~ Full(tasks), drained \cup expired = {}
             PROVE  \E a \in Adders : apc[a] = "woken"
  BY DEF BlockedAddNeedsExcuse
<1>1. /\ apc \in [Adders -> {"ready", "waiting", "woken"}] /\ Len(tasks) \in Nat
      /\ PendingMax \in Nat
  BY PoolAssumption DEF LimitInv, QueueInv
<1>2. PendingMax > 0
  BY <1>1 DEF RoomInv, At, Waiting
<1>3. Cardinality(At(apc, {"woken"})) \in Nat
  BY <1>1, WokenNumber
<1>4. Cardinality(At(apc, {"woken"})) # 0
  BY <1>1, <1>2, <1>3 DEF RoomInv, Full
<1>5. At(apc, {"woken"}) # {}
  BY <1>4, FS_EmptySet
<1> QED BY <1>1, <1>5 DEF At

\* The worker that takes a task from a full queue wakes an adder, and nobody
\* else takes the place without filling it: an adder is left asleep beside
\* room only by removeNextPending and removeExpiredTasks.
THEOREM AddersNotLeftAsleep == Spec => []BlockedAddNeedsExcuse
<1>1. Init => LimitInv /\ RoomInv
  <2> SUFFICES ASSUME Init
               PROVE  LimitInv /\ RoomInv
    OBVIOUS
  <2>1. At(apc, {"waiting", "woken"}) = {} /\ Waiting(apc) = {}
    BY DEF Init, At, Waiting
  <2> QED BY <2>1, PoolStarts DEF RoomInv
<1>2. LimitInv /\ RoomInv /\ [Next]_vars => LimitInv' /\ RoomInv'
  BY LimitStep, RoomStep
<1>3. LimitInv /\ RoomInv => BlockedAddNeedsExcuse
  BY RoomMeans
<1> QED BY <1>1, <1>2, <1>3, PTL DEF Spec
=============================================================================
