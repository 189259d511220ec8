----------------------------- MODULE ThreadPool -----------------------------
(***************************************************************************)
(* include/lld/Core/Parallel.h: the Latch, the ThreadPoolExecutor and the  *)
(* TaskGroup every parallel phase of the linker runs on.                   *)
(*                                                                         *)
(* A client thread (Main) owns a TaskGroup, spawns tasks into it, syncs,   *)
(* and at exit destroys the static executor.  The body of a task may spawn *)
(* further tasks: into the group it belongs to (parallel_quick_sort), or   *)
(* into a group of its own which it syncs before it returns (a             *)
(* parallel_for_each inside a task, as OutputELFWriter::writeFile and      *)
(* AtomSection::write do).                                                 *)
(*                                                                         *)
(* Every critical section of a std::mutex is one action; what happens      *)
(* outside the mutexes (notify_one after the unlock, the gap between       *)
(* _latch.inc() and add()) is a step of its own.                           *)
(***************************************************************************)
EXTENDS Integers, Sequences, FiniteSets

CONSTANTS
  Main,         \* the client thread
  Tasks,        \* the closures that are ever spawned
  Parent,       \* [Tasks -> Tasks \cup {Main}]: whose body spawns it
  GroupOf,      \* [Tasks -> Tasks \cup {Main}]: the owner of its TaskGroup
  ThreadCount,  \* the constructor's argument, hardware_concurrency()
  Width         \* number of values of a Latch's uint32_t counter

Groups == Tasks \cup {Main}

\* The constructor starts one thread, which starts ThreadCount - 1 others and
\* then calls work() itself: even a ThreadCount of 0 makes one worker.
Workers == {0} \cup 1 .. (ThreadCount - 1)
Threads == Workers \cup {Main}

NoTask == Main

ASSUME TreeAssumption ==
  /\ IsFiniteSet(Tasks)
  /\ Main \notin Tasks
  /\ Main \notin Int
  /\ Parent \in [Tasks -> Groups]
  /\ GroupOf \in [Tasks -> Groups]
  \* a body reaches only its own group and the one it was spawned in
  /\ \A t \in Tasks : \/ GroupOf[t] = Parent[t]
                      \/ Parent[t] \in Tasks /\ GroupOf[t] = GroupOf[Parent[t]]
  \* nobody spawns its own ancestor
  /\ \A T \in (SUBSET Tasks) \ {{}} : \E t \in T : Parent[t] \notin T

ASSUME CountAssumption ==
  /\ ThreadCount \in Nat
  /\ Width \in Nat
  /\ ThreadCount < Width
  /\ Cardinality(Tasks) < Width

VARIABLES
  workStack,  \* ThreadPoolExecutor::_workStack, its top is the last element
  stop,       \* ThreadPoolExecutor::_stop
  done,       \* the count of ThreadPoolExecutor::_done
  latch,      \* the count of each TaskGroup's _latch
  pc,         \* where each thread is
  task,       \* the task a worker runs, NoTask in between
  todo,       \* what the body a thread runs has yet to spawn
  adding,     \* the closure a thread is between inc() and notify_one() for
  spawned,    \* tasks whose _latch.inc() has happened
  finished    \* tasks whose body and _latch.dec() have happened

vars == <<workStack, stop, done, latch, pc, task, todo, adding,
          spawned, finished>>

pool == <<workStack, stop, done>>
-----------------------------------------------------------------------------
ChildrenOf(b) == {t \in Tasks : Parent[t] = b}

\* The closures that run a body: Main itself is the body of its own spawns.
BodyOf(th) == IF th = Main THEN Main ELSE task[th]

\* A task whose children sit in its own group syncs that group at its end
\* (~TaskGroup destroys _latch, and ~Latch syncs).
OwnsGroup(b) == b = Main \/ \E t \in Tasks : GroupOf[t] = b

\* Latch::_count is unsigned: it wraps at both ends.
Decr(n) == IF n = 0 THEN Width - 1 ELSE n - 1
Incr(n) == IF n = Width - 1 THEN 0 ELSE n + 1

\* Broken: _done(threadCount - 1), as if only the extra threads counted.
InitDoneShort ==
  /\ workStack = <<>>
  /\ stop = FALSE
  /\ done = ThreadCount - 1
  /\ latch = [g \in Groups |-> 0]
  /\ pc = [th \in Threads |-> IF th = Main THEN "body"
                              ELSE IF th = 0 THEN "starting" ELSE "unborn"]
  /\ task = [w \in Workers |-> NoTask]
  /\ todo = [th \in Threads |-> IF th = Main THEN ChildrenOf(Main) ELSE {}]
  /\ adding = [th \in Threads |-> NoTask]
  /\ spawned = {}
  /\ finished = {}

Init ==
  /\ workStack = <<>>
  /\ stop = FALSE
  /\ done = ThreadCount
  /\ latch = [g \in Groups |-> 0]
  /\ pc = [th \in Threads |-> IF th = Main THEN "body"
                              ELSE IF th = 0 THEN "starting" ELSE "unborn"]
  /\ task = [w \in Workers |-> NoTask]
  /\ todo = [th \in Threads |-> IF th = Main THEN ChildrenOf(Main) ELSE {}]
  /\ adding = [th \in Threads |-> NoTask]
  /\ spawned = {}
  /\ finished = {}

(* The thread the constructor detaches: start the other workers, in order, *)
(* then become one.                                                        *)
StartWorker ==
  /\ pc[0] = "starting"
  /\ \E w \in Workers :
       /\ pc[w] = "unborn"
       /\ \A v \in 1 .. (w - 1) : pc[v] # "unborn"
       /\ pc' = [pc EXCEPT ![w] = "work"]
  /\ UNCHANGED <<pool, latch, task, todo, adding, spawned, finished>>

StartSelf ==
  /\ pc[0] = "starting"
  /\ \A w \in Workers : pc[w] # "unborn"
  /\ pc' = [pc EXCEPT ![0] = "work"]
  /\ UNCHANGED <<pool, latch, task, todo, adding, spawned, finished>>

(* TaskGroup::spawn, first half: _latch.inc() before the task is queued.   *)
SpawnInc(th) ==
  /\ pc[th] = "body"
  /\ \E t \in todo[th] :
       /\ latch' = [latch EXCEPT ![GroupOf[t]] = Incr(@)]
       /\ todo' = [todo EXCEPT ![th] = @ \ {t}]
       /\ adding' = [adding EXCEPT ![th] = t]
       /\ spawned' = spawned \cup {t}
  /\ pc' = [pc EXCEPT ![th] = "add"]
  /\ UNCHANGED <<pool, task, finished>>

\* Broken: the closure is moved from before it is pushed.
PushMovedFrom(th) ==
  /\ pc[th] = "add"
  /\ workStack' = Append(workStack, NoTask)
  /\ pc' = [pc EXCEPT ![th] = "notify"]
  /\ UNCHANGED <<stop, done, latch, task, todo, adding, spawned, finished>>

(* ThreadPoolExecutor::add: push under the mutex ...                       *)
AddPush(th) ==
  /\ pc[th] = "add"
  /\ workStack' = Append(workStack, adding[th])
  /\ pc' = [pc EXCEPT ![th] = "notify"]
  /\ UNCHANGED <<stop, done, latch, task, todo, adding, spawned, finished>>

\* Broken: notify only when the stack was empty before the push.
NotifyIfWasEmpty(th) ==
  /\ pc[th] = "notify"
  /\ IF Len(workStack) > 1 \/ \A w \in Workers : pc[w] # "idle"
     THEN pc' = [pc EXCEPT ![th] = "body"]
     ELSE \E w \in Workers :
            /\ pc[w] = "idle"
            /\ pc' = [pc EXCEPT ![th] = "body", ![w] = "work"]
  /\ adding' = [adding EXCEPT ![th] = NoTask]
  /\ UNCHANGED <<pool, latch, task, todo, spawned, finished>>

(* ... and notify_one after the unlock: one of the workers asleep in       *)
(* _cond.wait, any of them, wakes up; none does when none is asleep.       *)
AddNotify(th) ==
  /\ pc[th] = "notify"
  /\ LET asleep == {w \in Workers : pc[w] = "idle"}
     IN  IF asleep = {}
         THEN pc' = [pc EXCEPT ![th] = "body"]
         ELSE \E w \in asleep :
                pc' = [pc EXCEPT ![th] = "body", ![w] = "work"]
  /\ adding' = [adding EXCEPT ![th] = NoTask]
  /\ UNCHANGED <<pool, latch, task, todo, spawned, finished>>

\* Broken: a wake-up is taken for the count being 0 (wait with no predicate).
SyncNoPredicate(th) ==
  /\ pc[th] \in {"body", "sync"}
  /\ todo[th] = {}
  /\ OwnsGroup(BodyOf(th))
  /\ pc[th] = "body" => latch[BodyOf(th)] = 0
  /\ pc' = [pc EXCEPT ![th] = "synced"]
  /\ UNCHANGED <<pool, latch, task, todo, adding, spawned, finished>>

(* ~TaskGroup and TaskGroup::sync: the owner of a group that has spawned   *)
(* all it wants blocks while the count is not 0.                           *)
SyncPass(th) ==
  /\ pc[th] \in {"body", "sync"}
  /\ todo[th] = {}
  /\ OwnsGroup(BodyOf(th))
  /\ latch[BodyOf(th)] = 0
  /\ pc' = [pc EXCEPT ![th] = "synced"]
  /\ UNCHANGED <<pool, latch, task, todo, adding, spawned, finished>>

SyncWait(th) ==
  /\ pc[th] \in {"body", "sync"}
  /\ todo[th] = {}
  /\ OwnsGroup(BodyOf(th))
  /\ latch[BodyOf(th)] # 0
  /\ pc' = [pc EXCEPT ![th] = "syncWait"]
  /\ UNCHANGED <<pool, latch, task, todo, adding, spawned, finished>>

(* ThreadPoolExecutor::work: take the task on top of the stack ...         *)
Take(w) ==
  /\ pc[w] = "work"
  /\ ~stop
  /\ workStack # <<>>
  /\ LET t == workStack[Len(workStack)]
     IN  /\ workStack' = SubSeq(workStack, 1, Len(workStack) - 1)
         /\ task' = [task EXCEPT ![w] = t]
         /\ todo' = [todo EXCEPT ![w] = ChildrenOf(t)]
  /\ pc' = [pc EXCEPT ![w] = "body"]
  /\ UNCHANGED <<stop, done, latch, adding, spawned, finished>>

(* ... or sleep until the predicate may have changed ...                   *)
Sleep(w) ==
  /\ pc[w] = "work"
  /\ ~stop
  /\ workStack = <<>>
  /\ pc' = [pc EXCEPT ![w] = "idle"]
  /\ UNCHANGED <<pool, latch, task, todo, adding, spawned, finished>>

(* ... or, once stopped, leave the loop whatever is still queued.          *)
LeaveLoop(w) ==
  /\ pc[w] = "work"
  /\ stop
  /\ pc' = [pc EXCEPT ![w] = "leaving"]
  /\ UNCHANGED <<pool, latch, task, todo, adding, spawned, finished>>

DoneDec(w) ==
  /\ pc[w] = "leaving"
  /\ done' = Decr(done)
  /\ pc' = [pc EXCEPT ![w] = "exited",
                      ![Main] = IF @ = "doneWait" /\ done' = 0
                                THEN "destroy" ELSE @]
  /\ UNCHANGED <<workStack, stop, latch, task, todo, adding, spawned, finished>>

(* A condition variable may wake a thread for no reason; the predicate is  *)
(* tested again.                                                           *)
SpuriousWake(th) ==
  /\ pc[th] \in {"idle", "syncWait"}
  /\ pc' = [pc EXCEPT ![th] = IF @ = "idle" THEN "work" ELSE "sync"]
  /\ UNCHANGED <<pool, latch, task, todo, adding, spawned, finished>>

\* Broken: the destructor of a task's own TaskGroup does not sync.
TaskDoneUnsynced(w) ==
  /\ task[w] # NoTask
  /\ todo[w] = {}
  /\ pc[w] = "body"
  /\ latch' = [latch EXCEPT ![GroupOf[task[w]]] = Decr(@)]
  /\ finished' = finished \cup {task[w]}
  /\ pc' = [pc EXCEPT ![w] = "work"]
  /\ task' = [task EXCEPT ![w] = NoTask]
  /\ UNCHANGED <<pool, todo, adding, spawned>>

\* Broken: dec() does not notify.
TaskDoneQuietly(w) ==
  /\ task[w] # NoTask
  /\ todo[w] = {}
  /\ pc[w] = IF OwnsGroup(task[w]) THEN "synced" ELSE "body"
  /\ latch' = [latch EXCEPT ![GroupOf[task[w]]] = Decr(@)]
  /\ finished' = finished \cup {task[w]}
  /\ pc' = [pc EXCEPT ![w] = "work"]
  /\ task' = [task EXCEPT ![w] = NoTask]
  /\ UNCHANGED <<pool, todo, adding, spawned>>

(* The closure TaskGroup::spawn queues: after f(), _latch.dec(), which     *)
(* notifies every thread in sync() when the count reaches 0.               *)
TaskDone(w) ==
  /\ task[w] # NoTask
  /\ todo[w] = {}
  /\ pc[w] = IF OwnsGroup(task[w]) THEN "synced" ELSE "body"
  /\ LET t == task[w]
         g == GroupOf[t]
     IN  /\ latch' = [latch EXCEPT ![g] = Decr(@)]
         /\ finished' = finished \cup {t}
         /\ pc' = [th \in Threads |->
                     IF th = w THEN "work"
                     ELSE IF pc[th] = "syncWait" /\ BodyOf(th) = g
                             /\ latch'[g] = 0
                          THEN "sync" ELSE pc[th]]
  /\ task' = [task EXCEPT ![w] = NoTask]
  /\ UNCHANGED <<pool, todo, adding, spawned>>

(* ~ThreadPoolExecutor, run when the program exits.                        *)
SetStop ==
  /\ pc[Main] = "synced"
  /\ stop' = TRUE
  /\ pc' = [pc EXCEPT ![Main] = "notifyAll"]
  /\ UNCHANGED <<workStack, done, latch, task, todo, adding, spawned, finished>>

\* Broken: notify_one where the destructor says notify_all.
NotifyJustOne ==
  /\ pc[Main] = "notifyAll"
  /\ IF \A w \in Workers : pc[w] # "idle"
     THEN pc' = [pc EXCEPT ![Main] = "destroy"]
     ELSE \E w \in Workers :
            /\ pc[w] = "idle"
            /\ pc' = [pc EXCEPT ![Main] = "destroy", ![w] = "work"]
  /\ UNCHANGED <<pool, latch, task, todo, adding, spawned, finished>>

NotifyAll ==
  /\ pc[Main] = "notifyAll"
  /\ pc' = [th \in Threads |-> IF th = Main THEN "destroy"
                               ELSE IF pc[th] = "idle" THEN "work"
                               ELSE pc[th]]
  /\ UNCHANGED <<pool, latch, task, todo, adding, spawned, finished>>

(* ~Latch of _done: sync, after which the members of the executor are gone *)
WaitDone ==
  /\ pc[Main] = "destroy"
  /\ pc' = [pc EXCEPT ![Main] = IF done = 0 THEN "gone" ELSE "doneWait"]
  /\ UNCHANGED <<pool, latch, task, todo, adding, spawned, finished>>

WorkerStep(w) ==
  \/ Take(w) \/ Sleep(w) \/ LeaveLoop(w) \/ DoneDec(w) \/ TaskDone(w)

BodyStep(th) ==
  \/ SpawnInc(th) \/ AddPush(th) \/ AddNotify(th) \/ SyncPass(th) \/ SyncWait(th)

DestroyStep == SetStop \/ NotifyAll \/ WaitDone

Terminated ==
  /\ pc[Main] = "gone"
  /\ \A w \in Workers : pc[w] = "exited"
  /\ UNCHANGED vars

Next ==
  \/ StartWorker
  \/ StartSelf
  \/ \E th \in Threads : BodyStep(th) \/ SpuriousWake(th)
  \/ \E w \in Workers : WorkerStep(w)
  \/ DestroyStep
  \/ Terminated

(* Every thread is a running operating-system thread: what it can do, it   *)
(* eventually does.  Nothing is assumed of spurious wake-ups.              *)
Fairness ==
  /\ WF_vars(StartWorker \/ StartSelf)
  /\ \A th \in Threads : WF_vars(BodyStep(th))
  /\ \A w \in Workers : WF_vars(WorkerStep(w))
  /\ WF_vars(DestroyStep)

Spec == Init /\ [][Next]_vars
FairSpec == Spec /\ Fairness
-----------------------------------------------------------------------------
Locations == {"unborn", "starting", "work", "idle", "body", "add", "notify",
              "sync", "syncWait", "synced", "leaving", "exited",
              "notifyAll", "destroy", "doneWait", "gone"}

(* Every variable has its type; a queued, running or finished closure is   *)
(* one that was spawned.                                                   *)
TypeOK ==
  /\ workStack \in Seq(Tasks)
  /\ stop \in BOOLEAN
  /\ done \in 0 .. Width - 1
  /\ latch \in [Groups -> 0 .. Width - 1]
  /\ pc \in [Threads -> Locations]
  /\ task \in [Workers -> Tasks \cup {NoTask}]
  /\ todo \in [Threads -> SUBSET Tasks]
  /\ adding \in [Threads -> Tasks \cup {NoTask}]
  /\ spawned \in SUBSET Tasks
  /\ finished \in SUBSET Tasks

\* The spawned tasks of group g that have yet to call _latch.dec().
Pending(g) == {t \in spawned \ finished : GroupOf[t] = g}

(* A group's latch counts exactly its unfinished tasks, from before a task *)
(* can be seen by a worker to after its body has returned.  This is why    *)
(* dec() never meets a count of 0 (undefined behaviour, Parallel.h:43).    *)
LatchCounts == \A g \in Groups : latch[g] = Cardinality(Pending(g))

\* Group g's owner has returned from sync(): the TaskGroup may be destroyed.
Dead(g) ==
  \/ g = Main /\ pc[Main] \in {"synced", "notifyAll", "destroy",
                               "doneWait", "gone"}
  \/ g \in finished
  \/ \E w \in Workers : task[w] = g /\ g # NoTask /\ pc[w] = "synced"

(* When sync() returns, every task of the group, those spawned by other    *)
(* tasks of the group included, has run to its end.                        *)
SyncMeansDone ==
  \A g \in Groups : Dead(g) => \A t \in Tasks : GroupOf[t] = g => t \in finished

(* No task touches the latch of a group whose owner has returned from      *)
(* sync(): the latch lives on the owner's stack.                           *)
DeadLatchUntouched ==
  [][\A g \in Groups : Dead(g) => latch'[g] = latch[g]]_vars

\* Workers asleep in _cond.wait, and those about to test its predicate.
Asleep == {w \in Workers : pc[w] = "idle"}
Looking == {w \in Workers : pc[w] = "work"}
Notifying == {th \in Threads : pc[th] = "notify"}

(* No wake-up is lost: while a worker sleeps, each queued task has a       *)
(* worker on its way to it or a notify_one still to come for it.           *)
NoLostWakeup ==
  ~stop /\ Asleep # {} =>
    Len(workStack) <= Cardinality(Looking) + Cardinality(Notifying)

(* ~ThreadPoolExecutor returns only after the last worker has left work(): *)
(* the mutex and the stack it uses are members of the executor.            *)
PoolOutlivesWorkers ==
  pc[Main] = "gone" => \A w \in Workers : pc[w] = "exited"

(* Parallel.h:43: "Calling dec() on a Latch with a count of 0 has          *)
(* undefined behaivor."  The executor's _done must never see one.          *)
NoDecAtZero == \A w \in Workers : pc[w] = "leaving" => done # 0

\* Owners whose sync() has returned, as TaskGroup counts them.
SyncedOwners == {g \in {Main} \cup {GroupOf[t] : t \in Tasks} : Dead(g)}

(* The executor, its queue and the latches keep what TaskGroup promises: a *)
(* task is only spawned into a group that is still there, sync() returns   *)
(* when all of the group has run, and, given fair threads, every task runs *)
(* and every sync() returns.                                               *)
Group == INSTANCE TaskGroup WITH synced <- SyncedOwners
KeepsPromise == Group!Spec

(* Every sync() returns.                                                   *)
SyncReturns ==
  \A th \in Threads : pc[th] \in {"sync", "syncWait"} ~> pc[th] = "synced"

(* The program exits: the tasks all run, the executor's destructor returns *)
(* and every worker leaves.                                                *)
PoolShutsDown == <>(/\ finished = Tasks
                    /\ pc[Main] = "gone"
                    /\ \A w \in Workers : pc[w] = "exited")
=============================================================================
