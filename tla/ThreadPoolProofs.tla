-------------------------- MODULE ThreadPoolProofs --------------------------
(***************************************************************************)
(* Proofs about ThreadPool, for every spawn tree and every thread count.   *)
(***************************************************************************)
EXTENDS ThreadPool, FiniteSetTheorems, SequenceTheorems, TLAPS

\* A worker is inside the body of its task.
InBody == {"body", "add", "notify", "sync", "syncWait", "synced"}

\* The worker stages and the main thread's own stages of pc.
WorkerPlaces ==
  /\ pc[Main] \in InBody \cup {"notifyAll", "destroy", "doneWait", "gone"}
  /\ \A w \in Workers :
       /\ pc[w] \in InBody \cup {"unborn", "starting", "work", "idle",
                                 "leaving", "exited"}
       /\ pc[w] \in InBody <=> task[w] # NoTask
  /\ \A th \in Threads :
       /\ pc[th] = "add" => adding[th] \in Tasks
       /\ pc[th] \notin {"body", "add", "notify"} => todo[th] = {}

\* Where a spawned task that has not finished is.
Held(t) == \E th \in Threads : pc[th] = "add" /\ adding[th] = t
Queued(t) == \E i \in 1 .. Len(workStack) : workStack[i] = t
Running(t) == \E w \in Workers : task[w] = t

(* A spawned task is in one place at a time, until it is finished.         *)
OnePlace ==
  /\ finished \subseteq spawned
  /\ \A t \in Tasks : Held(t) \/ Queued(t) \/ Running(t) => t \in spawned \ finished
  /\ \A t \in Tasks : /\ ~(Held(t) /\ Queued(t))
                      /\ ~(Held(t) /\ Running(t))
                      /\ ~(Queued(t) /\ Running(t))
  /\ \A a, b \in Threads :
       pc[a] = "add" /\ pc[b] = "add" /\ adding[a] = adding[b] => a = b
  /\ \A i, j \in 1 .. Len(workStack) : workStack[i] = workStack[j] => i = j
  /\ \A v, w \in Workers : task[v] = task[w] /\ task[v] # NoTask => v = w

\* Task t's body has begun.
Begun(b) == b = Main \/ b \in finished \/ Running(b)

(* The children of a body are spawned, or left in the todo of the thread   *)
(* that runs it; before it runs none is.                                   *)
Children ==
  /\ \A th \in Threads : todo[th] \subseteq ChildrenOf(BodyOf(th)) \ spawned
  /\ todo[Main] = ChildrenOf(Main) \ spawned
  /\ \A w \in Workers : task[w] # NoTask => todo[w] = ChildrenOf(task[w]) \ spawned
  /\ \A t \in finished : ChildrenOf(t) \subseteq spawned
  /\ \A t \in Tasks : ~Begun(t) => ChildrenOf(t) \cap spawned = {}

(* Once sync() has returned the count stays 0.                             *)
DeadDrained == \A g \in Groups : Dead(g) => Pending(g) = {}

Inv == /\ TypeOK
       /\ WorkerPlaces
       /\ OnePlace
       /\ Children
       /\ LatchCounts
       /\ DeadDrained
-----------------------------------------------------------------------------
(* Facts about the constants, used everywhere below.                       *)
LEMMA ConstantFacts ==
  /\ Main \notin Tasks /\ Main \notin Workers
  /\ 0 \in Workers
  /\ Workers \subseteq Threads /\ Main \in Threads
  /\ Tasks \subseteq Groups /\ Main \in Groups
  /\ Parent \in [Tasks -> Groups] /\ GroupOf \in [Tasks -> Groups]
  /\ ThreadCount \in Nat /\ Width \in Nat /\ 0 < Width
BY TreeAssumption, CountAssumption DEF Groups, Workers, Threads

(* The counters stay in the range of uint32_t, whatever happens.           *)
LEMMA CountRange ==
  ASSUME NEW n \in 0 .. Width - 1
  PROVE  Decr(n) \in 0 .. Width - 1 /\ Incr(n) \in 0 .. Width - 1
BY ConstantFacts DEF Decr, Incr

Typed == TypeOK /\ WorkerPlaces

(* The constructor sets it up: the queue is empty and main is in its body. *)
LEMMA InitTyped == Init => Typed
<1> SUFFICES ASSUME Init PROVE Typed
  OBVIOUS
<1> USE ConstantFacts DEF Init
<1>1. TypeOK
  <2>1. workStack \in Seq(Tasks)
    BY EmptySeq
  <2>2. done \in 0 .. Width - 1 /\ latch \in [Groups -> 0 .. Width - 1]
    BY CountAssumption
  <2>3. pc \in [Threads -> Locations]
    BY DEF Locations
  <2>4. /\ task \in [Workers -> Tasks \cup {NoTask}]
        /\ todo \in [Threads -> SUBSET Tasks]
        /\ adding \in [Threads -> Tasks \cup {NoTask}]
    BY DEF ChildrenOf
  <2> QED BY <2>1, <2>2, <2>3, <2>4 DEF TypeOK
<1>2. WorkerPlaces
  BY ConstantFacts DEF Init, WorkerPlaces, InBody, NoTask, Threads
<1> QED BY <1>1, <1>2 DEF Typed

(* Every step of every thread keeps types and places; one step per action. *)
LEMMA TypedInvariant == Typed /\ [Next]_vars => Typed'
<1> SUFFICES ASSUME TypeOK, WorkerPlaces, [Next]_vars
             PROVE  TypeOK' /\ WorkerPlaces'
  BY DEF Typed
<1> USE ConstantFacts
<1>1. CASE StartWorker
  <2>1. PICK w \in Workers : pc[w] = "unborn" /\ pc' = [pc EXCEPT ![w] = "work"]
    BY <1>1 DEF StartWorker
  <2>2. UNCHANGED <<pool, latch, task, todo, adding, spawned, finished>>
    BY <1>1 DEF StartWorker
  <2> QED BY <2>1, <2>2 DEF TypeOK, WorkerPlaces, InBody, Locations, pool, Threads
<1>2. CASE StartSelf
  BY <1>2 DEF StartSelf, TypeOK, WorkerPlaces, InBody, Locations, pool, Threads
<1>3. ASSUME NEW th \in Threads, SpawnInc(th)
      PROVE  TypeOK' /\ WorkerPlaces'
  <2>1. PICK t \in todo[th] :
          /\ latch' = [latch EXCEPT ![GroupOf[t]] = Incr(@)]
          /\ todo' = [todo EXCEPT ![th] = @ \ {t}]
          /\ adding' = [adding EXCEPT ![th] = t]
          /\ spawned' = spawned \cup {t}
    BY <1>3 DEF SpawnInc
  <2>2. t \in Tasks /\ GroupOf[t] \in Groups
    BY <2>1 DEF TypeOK
  <2>3. Incr(latch[GroupOf[t]]) \in 0 .. Width - 1
    BY <2>2, CountRange DEF TypeOK
  <2>4. TypeOK'
    BY <1>3, <2>1, <2>2, <2>3 DEF SpawnInc, TypeOK, Locations, pool
  <2>5. WorkerPlaces'
    BY <1>3, <2>1, <2>2 DEF SpawnInc, TypeOK, WorkerPlaces, InBody, Threads
  <2> QED BY <2>4, <2>5
<1>4. ASSUME NEW th \in Threads, AddPush(th)
      PROVE  TypeOK' /\ WorkerPlaces'
  BY <1>4, AppendProperties DEF AddPush, TypeOK, WorkerPlaces, InBody, Locations, Threads
<1>5. ASSUME NEW th \in Threads, AddNotify(th)
      PROVE  TypeOK' /\ WorkerPlaces'
  <2>1. /\ pc[th] = "notify"
        /\ adding' = [adding EXCEPT ![th] = NoTask]
        /\ UNCHANGED <<pool, latch, task, todo, spawned, finished>>
    BY <1>5 DEF AddNotify
  <2>2. CASE pc' = [pc EXCEPT ![th] = "body"]
    BY <2>1, <2>2 DEF TypeOK, WorkerPlaces, InBody, Locations, pool, NoTask, Threads
  <2>3. CASE \E w \in Workers : /\ pc[w] = "idle"
                                /\ pc' = [pc EXCEPT ![th] = "body", ![w] = "work"]
    <3>1. PICK w \in Workers : /\ pc[w] = "idle"
                               /\ pc' = [pc EXCEPT ![th] = "body", ![w] = "work"]
      BY <2>3
    <3>2. TypeOK'
      BY <2>1, <3>1 DEF TypeOK, Locations, pool, NoTask
    <3>3. WorkerPlaces'
      BY <2>1, <3>1 DEF TypeOK, WorkerPlaces, InBody, Threads
    <3> QED BY <3>2, <3>3
  <2> QED BY <1>5, <2>2, <2>3 DEF AddNotify
<1>6. ASSUME NEW th \in Threads, SyncPass(th)
      PROVE  TypeOK' /\ WorkerPlaces'
  BY <1>6 DEF SyncPass, TypeOK, WorkerPlaces, InBody, Locations, pool, Threads
<1>7. ASSUME NEW th \in Threads, SyncWait(th)
      PROVE  TypeOK' /\ WorkerPlaces'
  BY <1>7 DEF SyncWait, TypeOK, WorkerPlaces, InBody, Locations, pool, Threads
<1>8. ASSUME NEW w \in Workers, Take(w)
      PROVE  TypeOK' /\ WorkerPlaces'
  <2>1. /\ workStack[Len(workStack)] \in Tasks
        /\ SubSeq(workStack, 1, Len(workStack) - 1) \in Seq(Tasks)
    BY <1>8, LenProperties, EmptySeq, ElementOfSeq, SubSeqProperties
    DEF Take, TypeOK
  <2> QED BY <1>8, <2>1
          DEF Take, TypeOK, WorkerPlaces, InBody, Locations, NoTask, ChildrenOf, Threads
<1>9. ASSUME NEW w \in Workers, Sleep(w)
      PROVE  TypeOK' /\ WorkerPlaces'
  BY <1>9 DEF Sleep, TypeOK, WorkerPlaces, InBody, Locations, pool, Threads
<1>10. ASSUME NEW w \in Workers, LeaveLoop(w)
       PROVE  TypeOK' /\ WorkerPlaces'
  BY <1>10 DEF LeaveLoop, TypeOK, WorkerPlaces, InBody, Locations, pool, Threads
<1>11. ASSUME NEW w \in Workers, DoneDec(w)
       PROVE  TypeOK' /\ WorkerPlaces'
  BY <1>11, CountRange DEF DoneDec, TypeOK, WorkerPlaces, InBody, Locations, Threads
<1>12. ASSUME NEW th \in Threads, SpuriousWake(th)
       PROVE  TypeOK' /\ WorkerPlaces'
  BY <1>12 DEF SpuriousWake, TypeOK, WorkerPlaces, InBody, Locations, pool, Threads
<1>13. ASSUME NEW w \in Workers, TaskDone(w)
       PROVE  TypeOK' /\ WorkerPlaces'
  <2> DEFINE t == task[w]
  <2>1. t \in Tasks /\ GroupOf[t] \in Groups /\ t # NoTask
    BY <1>13 DEF TaskDone, TypeOK, NoTask
  <2>2. Decr(latch[GroupOf[t]]) \in 0 .. Width - 1
    BY <2>1, CountRange DEF TypeOK
  <2>3. /\ latch' = [latch EXCEPT ![GroupOf[t]] = Decr(@)]
        /\ finished' = finished \cup {t}
        /\ task' = [task EXCEPT ![w] = NoTask]
        /\ UNCHANGED <<pool, todo, adding, spawned>>
        /\ pc' = [th \in Threads |->
                     IF th = w THEN "work"
                     ELSE IF pc[th] = "syncWait" /\ BodyOf(th) = GroupOf[t]
                             /\ latch'[GroupOf[t]] = 0
                          THEN "sync" ELSE pc[th]]
    BY <1>13 DEF TaskDone
  <2>4. /\ pc' \in [Threads -> Locations]
        /\ pc'[w] = "work"
        /\ \A th \in Threads \ {w} :
             \/ pc'[th] = pc[th]
             \/ pc[th] = "syncWait" /\ pc'[th] = "sync"
    BY <2>3 DEF TypeOK, Locations
  <2>5. TypeOK'
    BY <2>1, <2>2, <2>3, <2>4 DEF TypeOK, pool
  <2>6. pc[w] \in InBody /\ todo[w] = {}
    BY <1>13 DEF TaskDone, InBody
  <2>7. WorkerPlaces'
    <3>1. \A v \in Workers : task'[v] = IF v = w THEN NoTask ELSE task[v]
      BY <2>3 DEF TypeOK
    <3>2. \A v \in Workers :
            /\ pc'[v] \in InBody \cup {"unborn", "starting", "work", "idle",
                                       "leaving", "exited"}
            /\ pc'[v] \in InBody <=> task'[v] # NoTask
      BY <2>4, <3>1 DEF WorkerPlaces, InBody
    <3>3. pc'[Main] \in InBody \cup {"notifyAll", "destroy", "doneWait", "gone"}
      BY <2>4 DEF WorkerPlaces, InBody
    <3>4. \A th \in Threads :
            /\ pc'[th] = "add" => adding'[th] \in Tasks
            /\ pc'[th] \notin {"body", "add", "notify"} => todo'[th] = {}
      BY <2>3, <2>4, <2>6 DEF WorkerPlaces
    <3> QED BY <3>2, <3>3, <3>4 DEF WorkerPlaces
  <2> QED BY <2>5, <2>7
<1>14. CASE DestroyStep
  <2>1. CASE SetStop
    BY <2>1 DEF SetStop, TypeOK, WorkerPlaces, InBody, Locations, Threads
  <2>2. CASE NotifyAll
    BY <2>2 DEF NotifyAll, TypeOK, WorkerPlaces, InBody, Locations, pool, Threads
  <2>3. CASE WaitDone
    BY <2>3 DEF WaitDone, TypeOK, WorkerPlaces, InBody, Locations, pool, Threads
  <2> QED BY <1>14, <2>1, <2>2, <2>3 DEF DestroyStep
<1>15. CASE UNCHANGED vars
  BY <1>15 DEF vars, TypeOK, WorkerPlaces
<1> QED
  BY <1>1, <1>2, <1>3, <1>4, <1>5, <1>6, <1>7, <1>8, <1>9, <1>10, <1>11, <1>12,
     <1>13, <1>14, <1>15
  DEF Next, BodyStep, WorkerStep, Terminated

(* Type correctness, for every spawn tree and thread count.                *)
THEOREM TypeCorrect == Spec => []TypeOK
<1>1. Typed => TypeOK
  BY DEF Typed
<1> QED BY InitTyped, TypedInvariant, <1>1, PTL DEF Spec
-----------------------------------------------------------------------------
(* Most steps neither queue, take, finish nor count anything: they move a  *)
(* thread between places that no conjunct of OnePlace or Children tells    *)
(* apart.                                                                  *)
Quiet ==
  /\ UNCHANGED <<workStack, latch, task, todo, spawned, finished>>
  /\ \A th \in Threads :
       /\ pc'[th] = "add" <=> pc[th] = "add"
       /\ pc[th] = "add" => adding'[th] = adding[th]

LEMMA StepKinds ==
  ASSUME TypeOK, WorkerPlaces, [Next]_vars
  PROVE  \/ Quiet
         \/ \E th \in Threads : SpawnInc(th) \/ AddPush(th)
         \/ \E w \in Workers : Take(w) \/ TaskDone(w)
<1> USE ConstantFacts
<1>1. CASE StartWorker
  BY <1>1 DEF StartWorker, Quiet, TypeOK, pool
<1>2. CASE StartSelf
  BY <1>2 DEF StartSelf, Quiet, TypeOK, pool
<1>3. ASSUME NEW th \in Threads, AddNotify(th)
      PROVE  Quiet
  <2>1. /\ pc[th] = "notify"
        /\ adding' = [adding EXCEPT ![th] = NoTask]
        /\ UNCHANGED <<pool, latch, task, todo, spawned, finished>>
    BY <1>3 DEF AddNotify
  <2>2. CASE pc' = [pc EXCEPT ![th] = "body"]
    BY <2>1, <2>2 DEF TypeOK, Quiet, pool
  <2>3. CASE \E w \in Workers : /\ pc[w] = "idle"
                                /\ pc' = [pc EXCEPT ![th] = "body", ![w] = "work"]
    BY <2>1, <2>3 DEF TypeOK, Quiet, pool
  <2> QED BY <1>3, <2>2, <2>3 DEF AddNotify
<1>4. ASSUME NEW th \in Threads, SyncPass(th) \/ SyncWait(th) \/ SpuriousWake(th)
      PROVE  Quiet
  BY <1>4 DEF SyncPass, SyncWait, SpuriousWake, Quiet, TypeOK, pool
<1>5. ASSUME NEW w \in Workers, Sleep(w) \/ LeaveLoop(w) \/ DoneDec(w)
      PROVE  Quiet
  BY <1>5 DEF Sleep, LeaveLoop, DoneDec, Quiet, TypeOK, pool
<1>6. CASE DestroyStep
  BY <1>6 DEF DestroyStep, SetStop, NotifyAll, WaitDone, Quiet, TypeOK, pool
<1>7. CASE UNCHANGED vars
  BY <1>7 DEF vars, Quiet
<1> QED
  BY <1>1, <1>2, <1>3, <1>4, <1>5, <1>6, <1>7
  DEF Next, BodyStep, WorkerStep, Terminated

(* What SpawnInc, Take and TaskDone do, with the arithmetic left out.      *)
LEMMA SpawnFacts ==
  ASSUME TypeOK, WorkerPlaces, Children, NEW th \in Threads, SpawnInc(th)
  PROVE  \E t \in todo[th] :
           /\ t \in Tasks /\ t \notin spawned /\ GroupOf[t] \in Groups
           /\ Parent[t] = BodyOf(th)
           /\ pc[th] = "body"
           /\ latch' = [latch EXCEPT ![GroupOf[t]] = Incr(@)]
           /\ todo' = [todo EXCEPT ![th] = @ \ {t}]
           /\ adding' = [adding EXCEPT ![th] = t]
           /\ spawned' = spawned \cup {t}
           /\ pc' = [pc EXCEPT ![th] = "add"]
           /\ UNCHANGED <<workStack, task, finished>>
BY ConstantFacts DEF SpawnInc, Children, ChildrenOf, TypeOK, pool

LEMMA TakeFacts ==
  ASSUME TypeOK, WorkerPlaces, NEW w \in Workers, Take(w)
  PROVE  LET n == Len(workStack)
             t == workStack[n]
         IN  /\ n \in Nat \ {0} /\ t \in Tasks /\ Queued(t)
             /\ Len(workStack') = n - 1
             /\ \A i \in 1 .. n - 1 : workStack'[i] = workStack[i]
             /\ pc[w] = "work" /\ task[w] = NoTask
             /\ task' = [task EXCEPT ![w] = t]
             /\ todo' = [todo EXCEPT ![w] = ChildrenOf(t)]
             /\ pc' = [pc EXCEPT ![w] = "body"]
             /\ UNCHANGED <<stop, done, latch, adding, spawned, finished>>
<1> DEFINE n == Len(workStack)
<1>1. workStack \in Seq(Tasks) /\ workStack # <<>>
  BY DEF Take, TypeOK
<1>2. n \in Nat \ {0}
  BY <1>1, LenProperties, EmptySeq
<1>3. workStack[n] \in Tasks
  BY <1>1, <1>2, ElementOfSeq
<1>4. workStack' = SubSeq(workStack, 1, n - 1)
  BY DEF Take
<1>5. /\ Len(workStack') = n - 1
      /\ \A i \in 1 .. n - 1 : workStack'[i] = workStack[i]
  <2>1. n - 1 \in Int /\ \A i \in 1 .. n - 1 : workStack[i] \in Tasks
    BY <1>1, <1>2, ElementOfSeq
  <2>2. /\ Len(SubSeq(workStack, 1, n - 1)) = n - 1
        /\ \A i \in 1 .. n - 1 : SubSeq(workStack, 1, n - 1)[i] = workStack[i]
    <3> HIDE DEF n
    <3>1. /\ Len(SubSeq(workStack, 1, n - 1)) =
               IF 1 <= n - 1 THEN (n - 1) - 1 + 1 ELSE 0
          /\ \A i \in 1 .. (n - 1) - 1 + 1 :
               SubSeq(workStack, 1, n - 1)[i] = workStack[1 + i - 1]
      BY <2>1, SubSeqProperties
    <3>2. (n - 1) - 1 + 1 = n - 1 /\ \A i \in 1 .. n - 1 : 1 + i - 1 = i
      BY <1>2
    <3>3. Len(SubSeq(workStack, 1, n - 1)) = n - 1
      BY <3>1, <1>2
    <3>4. \A i \in 1 .. n - 1 : SubSeq(workStack, 1, n - 1)[i] = workStack[i]
      BY <3>1, <3>2
    <3> QED BY <3>3, <3>4
  <2> QED BY <1>4, <2>2
<1>6. Queued(workStack[n])
  BY <1>2 DEF Queued
<1>7. task[w] = NoTask
  BY DEF Take, WorkerPlaces, InBody
<1> QED BY <1>2, <1>3, <1>5, <1>6, <1>7 DEF Take

LEMMA DoneFacts ==
  ASSUME TypeOK, WorkerPlaces, OnePlace, NEW w \in Workers, TaskDone(w)
  PROVE  /\ task[w] \in Tasks /\ task[w] # NoTask
         /\ GroupOf[task[w]] \in Groups
         /\ task[w] \in spawned /\ task[w] \notin finished
         /\ todo[w] = {}
         /\ pc[w] \in {"body", "synced"}
         /\ OwnsGroup(task[w]) => pc[w] = "synced"
         /\ latch' = [latch EXCEPT ![GroupOf[task[w]]] = Decr(@)]
         /\ finished' = finished \cup {task[w]}
         /\ task' = [task EXCEPT ![w] = NoTask]
         /\ UNCHANGED <<workStack, stop, done, todo, adding, spawned>>
         /\ pc' \in [Threads -> Locations]
         /\ pc'[w] = "work"
         /\ \A th \in Threads \ {w} :
              \/ pc'[th] = pc[th]
              \/ pc[th] = "syncWait" /\ pc'[th] = "sync"
<1>1. task[w] \in Tasks /\ task[w] # NoTask
  BY DEF TaskDone, TypeOK
<1>2. task[w] \in spawned \ finished
  BY <1>1 DEF OnePlace, Running
<1>3. /\ pc' \in [Threads -> Locations]
      /\ pc'[w] = "work"
      /\ \A th \in Threads \ {w} :
           \/ pc'[th] = pc[th]
           \/ pc[th] = "syncWait" /\ pc'[th] = "sync"
  BY ConstantFacts DEF TaskDone, TypeOK, Locations
<1> QED BY <1>1, <1>2, <1>3, ConstantFacts DEF TaskDone, pool
-----------------------------------------------------------------------------
(* A closure moves from the thread that queues it to the stack, from there *)
(* to one worker, and is finished by it.                                   *)
LEMMA OnePlaceStep ==
  ASSUME TypeOK, WorkerPlaces, OnePlace, Children, [Next]_vars
  PROVE  OnePlace'
<1> USE ConstantFacts
<1>1. CASE Quiet
  <2>1. \A t \in Tasks : /\ Held(t)' <=> Held(t)
                         /\ Queued(t)' <=> Queued(t)
                         /\ Running(t)' <=> Running(t)
    BY <1>1 DEF Quiet, Held, Queued, Running
  <2> QED BY <1>1, <2>1 DEF Quiet, OnePlace
<1>2. ASSUME NEW th \in Threads, SpawnInc(th)
      PROVE  OnePlace'
  <2>1. PICK t \in todo[th] :
           /\ t \in Tasks /\ t \notin spawned
           /\ pc[th] = "body"
           /\ adding' = [adding EXCEPT ![th] = t]
           /\ spawned' = spawned \cup {t}
           /\ pc' = [pc EXCEPT ![th] = "add"]
           /\ UNCHANGED <<workStack, task, finished>>
    BY <1>2, SpawnFacts
  <2>2. ~Held(t) /\ ~Queued(t) /\ ~Running(t)
    BY <2>1 DEF OnePlace
  <2>3. \A u \in Tasks : /\ Held(u)' => Held(u) \/ u = t
                         /\ Queued(u)' <=> Queued(u)
                         /\ Running(u)' <=> Running(u)
    BY <2>1 DEF Held, Queued, Running, TypeOK
  <2>4. \A a, b \in Threads :
          pc'[a] = "add" /\ pc'[b] = "add" /\ adding'[a] = adding'[b] => a = b
    <3>1. \A a \in Threads : pc[a] = "add" => adding[a] # t
      BY <2>2 DEF Held
    <3> QED BY <2>1, <3>1 DEF OnePlace, TypeOK
  <2> QED BY <2>1, <2>2, <2>3, <2>4 DEF OnePlace
<1>3. ASSUME NEW th \in Threads, AddPush(th)
      PROVE  OnePlace'
  <2> DEFINE t == adding[th]
             n == Len(workStack)
  <2>1. /\ t \in Tasks /\ Held(t) /\ n \in Nat
        /\ pc[th] = "add" /\ pc' = [pc EXCEPT ![th] = "notify"]
        /\ UNCHANGED <<adding, task, spawned, finished>>
    BY <1>3, LenProperties DEF AddPush, Held, WorkerPlaces, TypeOK
  <2>2. /\ Len(workStack') = n + 1
        /\ \A i \in 1 .. n : workStack'[i] = workStack[i]
        /\ workStack'[n + 1] = t
    BY <1>3, <2>1, AppendProperties DEF AddPush, TypeOK
  <2> HIDE DEF n
  <2>3. \A u \in Tasks : /\ Held(u)' <=> Held(u) /\ u # t
                         /\ Running(u)' <=> Running(u)
    BY <2>1 DEF Held, Running, OnePlace, TypeOK
  <2>4. \A u \in Tasks : Queued(u)' <=> Queued(u) \/ u = t
    BY <2>1, <2>2 DEF Queued, n
  <2>5. \A i, j \in 1 .. Len(workStack') : workStack'[i] = workStack'[j] => i = j
    <3>1. \A i \in 1 .. n : workStack[i] # t
      BY <2>1 DEF OnePlace, Queued, n
    <3>2. \A i, j \in 1 .. n : workStack[i] = workStack[j] => i = j
      BY DEF OnePlace, n
    <3> QED BY <2>1, <2>2, <3>1, <3>2
  <2>6. \A a, b \in Threads :
          pc'[a] = "add" /\ pc'[b] = "add" /\ adding'[a] = adding'[b] => a = b
    BY <2>1 DEF OnePlace, TypeOK
  <2> QED BY <2>1, <2>3, <2>4, <2>5, <2>6 DEF OnePlace
<1>4. ASSUME NEW w \in Workers, Take(w)
      PROVE  OnePlace'
  <2> DEFINE n == Len(workStack)
             t == workStack[n]
  <2>1. /\ n \in Nat \ {0} /\ t \in Tasks /\ Queued(t)
        /\ Len(workStack') = n - 1
        /\ \A i \in 1 .. n - 1 : workStack'[i] = workStack[i]
        /\ pc[w] = "work" /\ task[w] = NoTask
        /\ task' = [task EXCEPT ![w] = t]
        /\ pc' = [pc EXCEPT ![w] = "body"]
        /\ UNCHANGED <<adding, spawned, finished>>
    BY <1>4, TakeFacts
  <2> HIDE DEF n
  <2>2. \A i, j \in 1 .. n : workStack[i] = workStack[j] => i = j
    BY DEF OnePlace, n
  <2>3. \A u \in Tasks : Queued(u)' <=> Queued(u) /\ u # t
    <3>1. \A u : Queued(u)' <=> \E i \in 1 .. n - 1 : workStack[i] = u
      BY <2>1 DEF Queued
    <3>2. \A u : Queued(u) <=> \E i \in 1 .. n : workStack[i] = u
      BY DEF Queued, n
    <3> QED BY <2>1, <2>2, <3>1, <3>2
  <2>4. \A u \in Tasks : /\ Held(u)' <=> Held(u)
                         /\ Running(u)' <=> Running(u) \/ u = t
    BY <2>1 DEF Held, Running, NoTask, TypeOK
  <2>5. \A u, v \in Workers : task'[u] = task'[v] /\ task'[u] # NoTask => u = v
    <3>1. \A v \in Workers : task[v] # t
      BY <2>1 DEF OnePlace, Running
    <3> QED BY <2>1, <3>1 DEF OnePlace, TypeOK
  <2>6. \A i, j \in 1 .. Len(workStack') : workStack'[i] = workStack'[j] => i = j
    BY <2>1, <2>2
  <2>7. \A a, b \in Threads :
          pc'[a] = "add" /\ pc'[b] = "add" /\ adding'[a] = adding'[b] => a = b
    BY <2>1 DEF OnePlace, TypeOK
  <2> QED BY <2>1, <2>3, <2>4, <2>5, <2>6, <2>7 DEF OnePlace
<1>5. ASSUME NEW w \in Workers, TaskDone(w)
      PROVE  OnePlace'
  <2> DEFINE t == task[w]
  <2>1. /\ t \in Tasks /\ t # NoTask /\ t \in spawned /\ t \notin finished
        /\ finished' = finished \cup {t}
        /\ task' = [task EXCEPT ![w] = NoTask]
        /\ UNCHANGED <<workStack, adding, spawned>>
        /\ \A th \in Threads : pc'[th] = "add" <=> pc[th] = "add"
    BY <1>5, DoneFacts
  <2> HIDE DEF t
  <2>2. Running(t) /\ \A v \in Workers : task[v] = t => v = w
    BY <2>1 DEF OnePlace, Running, t
  <2>3. \A u \in Tasks : /\ Held(u)' <=> Held(u)
                         /\ Queued(u)' <=> Queued(u)
                         /\ Running(u)' <=> Running(u) /\ u # t
    BY <2>1, <2>2 DEF Held, Queued, Running, NoTask, TypeOK, t
  <2>4. \A u, v \in Workers : task'[u] = task'[v] /\ task'[u] # NoTask => u = v
    BY <2>1 DEF OnePlace, TypeOK
  <2> QED BY <2>1, <2>2, <2>3, <2>4 DEF OnePlace
<1> QED BY <1>1, <1>2, <1>3, <1>4, <1>5, StepKinds

(* A body's children are spawned one by one by the thread that runs it.    *)
LEMMA ChildrenStep ==
  ASSUME TypeOK, WorkerPlaces, OnePlace, Children, [Next]_vars
  PROVE  Children'
<1> USE ConstantFacts
<1>1. CASE Quiet
  BY <1>1 DEF Quiet, Children, Begun, Running, BodyOf, ChildrenOf
<1>2. ASSUME NEW th \in Threads, SpawnInc(th)
      PROVE  Children'
  <2>1. PICK t \in todo[th] :
           /\ t \in Tasks /\ t \notin spawned /\ Parent[t] = BodyOf(th)
           /\ pc[th] = "body"
           /\ todo' = [todo EXCEPT ![th] = @ \ {t}]
           /\ spawned' = spawned \cup {t}
           /\ UNCHANGED <<task, finished>>
    BY <1>2, SpawnFacts
  <2>2. Begun(BodyOf(th))
    BY <2>1 DEF Begun, BodyOf, Running, Threads
  <2>3. \A a \in Threads \ {th} : t \notin todo[a]
    <3>1. SUFFICES ASSUME NEW a \in Threads \ {th}, t \in todo[a] PROVE FALSE
      OBVIOUS
    <3>2. BodyOf(a) = BodyOf(th)
      BY <2>1, <3>1 DEF Children, ChildrenOf
    <3>3. \A w \in Workers : todo[w] # {} => task[w] # NoTask /\ task[w] \in Tasks
      BY DEF WorkerPlaces, InBody, TypeOK, Threads
    <3> QED BY <2>1, <3>1, <3>2, <3>3 DEF BodyOf, OnePlace, Threads, NoTask
  <2>4. \A b : Begun(b)' <=> Begun(b)
    BY <2>1 DEF Begun, Running
  <2>5. \A a \in Threads : todo'[a] = todo[a] \ {t}
    BY <2>1, <2>3 DEF TypeOK
  <2>6. \A a \in Threads : BodyOf(a)' = BodyOf(a)
    BY <2>1 DEF BodyOf
  <2>7. \A b : t \in ChildrenOf(b) => Begun(b)
    BY <2>1, <2>2 DEF ChildrenOf
  <2> QED BY <2>1, <2>4, <2>5, <2>6, <2>7 DEF Children, Threads
<1>3. ASSUME NEW th \in Threads, AddPush(th)
      PROVE  Children'
  BY <1>3 DEF AddPush, Children, Begun, Running, BodyOf, ChildrenOf
<1>4. ASSUME NEW w \in Workers, Take(w)
      PROVE  Children'
  <2> DEFINE t == workStack[Len(workStack)]
  <2>1. /\ t \in Tasks /\ Queued(t)
        /\ task[w] = NoTask
        /\ task' = [task EXCEPT ![w] = t]
        /\ todo' = [todo EXCEPT ![w] = ChildrenOf(t)]
        /\ UNCHANGED <<spawned, finished>>
    BY <1>4, TakeFacts
  <2> HIDE DEF t
  <2>2. ~Begun(t)
    BY <2>1 DEF OnePlace, Begun
  <2>3. ChildrenOf(t) \cap spawned = {}
    BY <2>1, <2>2 DEF Children
  <2>4. \A b \in Tasks : Begun(b)' <=> Begun(b) \/ b = t
    BY <2>1 DEF Begun, Running, NoTask, TypeOK
  <2>5. \A a \in Threads : /\ todo'[a] = IF a = w THEN ChildrenOf(t) ELSE todo[a]
                           /\ BodyOf(a)' = IF a = w THEN t ELSE BodyOf(a)
    BY <2>1 DEF TypeOK, BodyOf, Threads
  <2> QED BY <2>1, <2>3, <2>4, <2>5 DEF Children, TypeOK, Threads
<1>5. ASSUME NEW w \in Workers, TaskDone(w)
      PROVE  Children'
  <2> DEFINE t == task[w]
  <2>1. /\ t \in Tasks /\ t # NoTask /\ todo[w] = {}
        /\ finished' = finished \cup {t}
        /\ task' = [task EXCEPT ![w] = NoTask]
        /\ UNCHANGED <<todo, spawned>>
    BY <1>5, DoneFacts
  <2> HIDE DEF t
  <2>2. ChildrenOf(t) \subseteq spawned
    BY <2>1 DEF Children, t
  <2>3. \A b \in Tasks : Begun(b)' <=> Begun(b)
    BY <2>1 DEF Begun, Running, NoTask, TypeOK, t
  <2>4. \A a \in Threads \ {w} : BodyOf(a)' = BodyOf(a)
    BY <2>1 DEF BodyOf, TypeOK, Threads
  <2> QED BY <2>1, <2>2, <2>3, <2>4 DEF Children, TypeOK, Threads
<1> QED BY <1>1, <1>2, <1>3, <1>4, <1>5, StepKinds
-----------------------------------------------------------------------------
(* The pending tasks of a group are few enough for the counter.            *)
LEMMA PendingFinite ==
  ASSUME TypeOK, NEW g \in Groups
  PROVE  /\ IsFiniteSet(Pending(g))
         /\ Cardinality(Pending(g)) \in Nat
<1>1. Pending(g) \in SUBSET Tasks /\ IsFiniteSet(Tasks)
  BY TreeAssumption DEF Pending, TypeOK
<1> QED BY <1>1, FS_Subset, FS_CardinalityType

(* A group with nothing pending has a count of 0, and no other group has.  *)
LEMMA ZeroMeansDrained ==
  ASSUME TypeOK, LatchCounts, NEW g \in Groups
  PROVE  latch[g] = 0 <=> Pending(g) = {}
BY PendingFinite, FS_EmptySet DEF LatchCounts

LEMMA LatchStep ==
  ASSUME TypeOK, WorkerPlaces, OnePlace, Children, LatchCounts, [Next]_vars
  PROVE  LatchCounts'
<1> USE ConstantFacts
<1>1. CASE Quiet
  BY <1>1 DEF Quiet, LatchCounts, Pending
<1>2. ASSUME NEW th \in Threads, SpawnInc(th)
      PROVE  LatchCounts'
  <2>1. PICK t \in todo[th] :
           /\ t \in Tasks /\ t \notin spawned /\ GroupOf[t] \in Groups
           /\ latch' = [latch EXCEPT ![GroupOf[t]] = Incr(@)]
           /\ spawned' = spawned \cup {t}
           /\ finished' = finished
    BY <1>2, SpawnFacts
  <2> DEFINE h == GroupOf[t]
  <2>2. t \notin finished
    BY <2>1 DEF OnePlace
  <2>3. \A g \in Groups \ {h} : Pending(g)' = Pending(g)
    BY <2>1 DEF Pending
  <2>4. Pending(h)' = Pending(h) \cup {t} /\ t \notin Pending(h)
    BY <2>1, <2>2 DEF Pending
  <2>5. Cardinality(Pending(h)') = Cardinality(Pending(h)) + 1
    BY <2>1, <2>4, PendingFinite, FS_AddElement
  <2>6. Cardinality(Pending(h)) + 1 < Width
    <3>1. Pending(h)' \in SUBSET Tasks
      BY <2>1, <2>4 DEF Pending, TypeOK
    <3>2. /\ IsFiniteSet(Tasks) /\ Cardinality(Tasks) \in Nat
          /\ Cardinality(Tasks) < Width
      BY TreeAssumption, CountAssumption, FS_CardinalityType
    <3>3. Cardinality(Pending(h)') <= Cardinality(Tasks)
      BY <3>1, <3>2, FS_Subset
    <3> QED BY <2>1, <2>5, <3>2, <3>3, PendingFinite
  <2>7. Incr(latch[h]) = Cardinality(Pending(h)) + 1
    BY <2>1, <2>6, PendingFinite DEF Incr, LatchCounts
  <2>8. \A g \in Groups :
          latch'[g] = IF g = h THEN Cardinality(Pending(h)) + 1 ELSE latch[g]
    BY <2>1, <2>7 DEF TypeOK
  <2> QED BY <2>3, <2>5, <2>8 DEF LatchCounts
<1>3. ASSUME NEW th \in Threads, AddPush(th)
      PROVE  LatchCounts'
  BY <1>3 DEF AddPush, LatchCounts, Pending
<1>4. ASSUME NEW w \in Workers, Take(w)
      PROVE  LatchCounts'
  BY <1>4 DEF Take, LatchCounts, Pending
<1>5. ASSUME NEW w \in Workers, TaskDone(w)
      PROVE  LatchCounts'
  <2>1. PICK t \in Tasks :
           /\ GroupOf[t] \in Groups
           /\ t \in spawned /\ t \notin finished
           /\ latch' = [latch EXCEPT ![GroupOf[t]] = Decr(@)]
           /\ finished' = finished \cup {t}
           /\ spawned' = spawned
    BY <1>5, DoneFacts
  <2> DEFINE h == GroupOf[t]
  <2>2. \A g \in Groups \ {h} : Pending(g)' = Pending(g)
    BY <2>1 DEF Pending
  <2>3. Pending(h)' = Pending(h) \ {t} /\ t \in Pending(h)
    BY <2>1 DEF Pending
  <2>4. Cardinality(Pending(h)') = Cardinality(Pending(h)) - 1
    <3>1. IsFiniteSet(Pending(h))
      BY <2>1, PendingFinite
    <3>2. Cardinality(Pending(h) \ {t}) = Cardinality(Pending(h)) - 1
      BY <2>3, <3>1, FS_RemoveElement
    <3> QED BY <2>3, <3>2
  <2>5. Cardinality(Pending(h)) # 0
    BY <2>1, <2>3, PendingFinite, FS_EmptySet
  <2>6. Decr(latch[h]) = Cardinality(Pending(h)) - 1
    BY <2>1, <2>5, PendingFinite DEF Decr, LatchCounts
  <2>7. \A g \in Groups :
          latch'[g] = IF g = h THEN Cardinality(Pending(h)) - 1 ELSE latch[g]
    BY <2>1, <2>6 DEF TypeOK
  <2> QED BY <2>2, <2>4, <2>7 DEF LatchCounts
<1> QED BY <1>1, <1>2, <1>3, <1>4, <1>5, StepKinds

(* A group dies when its owner finds the count at 0; its owner spawns no   *)
(* more into it, and all others who could are pending tasks of the group.  *)
LEMMA DeadNotSpawnedInto ==
  ASSUME TypeOK, WorkerPlaces, OnePlace, Children, DeadDrained,
         NEW th \in Threads, pc[th] = "body", NEW t \in todo[th]
  PROVE  ~Dead(GroupOf[t])
<1> USE ConstantFacts
<1>1. t \in Tasks /\ Parent[t] = BodyOf(th)
  BY DEF Children, ChildrenOf, TypeOK
<1>2. CASE GroupOf[t] = Parent[t]
  <2>1. CASE th = Main
    BY <1>1, <1>2, <2>1 DEF BodyOf, Dead, TypeOK, NoTask
  <2>2. CASE th # Main
    <3>1. /\ th \in Workers /\ GroupOf[t] = task[th]
          /\ task[th] \in Tasks /\ task[th] \notin finished
      BY <1>1, <1>2, <2>2
      DEF BodyOf, Threads, WorkerPlaces, InBody, TypeOK, OnePlace, Running
    <3> QED BY <3>1 DEF Dead, OnePlace, NoTask
  <2> QED BY <2>1, <2>2
<1>3. CASE Parent[t] \in Tasks /\ GroupOf[t] = GroupOf[Parent[t]]
  <2>1. th \in Workers /\ task[th] = Parent[t]
    BY <1>1, <1>3 DEF BodyOf, Threads
  <2>2. Parent[t] \in Pending(GroupOf[t])
    BY <1>3, <2>1 DEF Pending, OnePlace, Running
  <2> QED BY <1>1, <2>2 DEF DeadDrained
<1> QED BY <1>1, <1>2, <1>3, TreeAssumption

\* Where the owner of a group is once it has returned from sync().
Returned == {"synced", "notifyAll", "destroy", "doneWait", "gone"}

LEMMA OnlySyncReturns ==
  ASSUME TypeOK, WorkerPlaces, [Next]_vars, NEW th \in Threads,
         pc'[th] \in Returned, pc[th] \notin Returned
  PROVE  SyncPass(th)
<1> USE ConstantFacts DEF Returned
<1>1. CASE StartWorker \/ StartSelf
  BY <1>1 DEF StartWorker, StartSelf, TypeOK
<1>2. ASSUME NEW a \in Threads, SpawnInc(a) \/ AddPush(a) \/ SyncWait(a) \/ SpuriousWake(a)
      PROVE  FALSE
  BY <1>2 DEF SpawnInc, AddPush, SyncWait, SpuriousWake, TypeOK
<1>3. ASSUME NEW a \in Threads, AddNotify(a)
      PROVE  FALSE
  <2>1. CASE pc' = [pc EXCEPT ![a] = "body"]
    BY <2>1 DEF TypeOK
  <2>2. CASE \E w \in Workers : pc' = [pc EXCEPT ![a] = "body", ![w] = "work"]
    BY <2>2 DEF TypeOK
  <2> QED BY <1>3, <2>1, <2>2 DEF AddNotify
<1>4. ASSUME NEW a \in Threads, SyncPass(a)
      PROVE  SyncPass(th)
  BY <1>4 DEF SyncPass, TypeOK
<1>5. ASSUME NEW w \in Workers, Take(w) \/ Sleep(w) \/ LeaveLoop(w)
      PROVE  FALSE
  BY <1>5 DEF Take, Sleep, LeaveLoop, TypeOK
<1>6. ASSUME NEW w \in Workers, DoneDec(w)
      PROVE  FALSE
  BY <1>6 DEF DoneDec, TypeOK
<1>7. ASSUME NEW w \in Workers, TaskDone(w)
      PROVE  FALSE
  BY <1>7 DEF TaskDone, TypeOK
<1>8. CASE DestroyStep
  BY <1>8 DEF DestroyStep, SetStop, NotifyAll, WaitDone, TypeOK
<1>9. CASE UNCHANGED vars
  BY <1>9 DEF vars
<1> QED
  BY <1>1, <1>2, <1>3, <1>4, <1>5, <1>6, <1>7, <1>8, <1>9
  DEF Next, BodyStep, WorkerStep, Terminated

(* Only sync() kills a group, and it does so when nothing is pending.      *)
LEMMA DeadStep ==
  ASSUME TypeOK, WorkerPlaces, OnePlace, Children, LatchCounts, DeadDrained,
         [Next]_vars
  PROVE  DeadDrained'
<1> USE ConstantFacts
<1> SUFFICES ASSUME NEW g \in Groups, Dead(g)'
             PROVE  Pending(g)' = {}
  BY DEF DeadDrained
<1>1. \/ g = Main /\ pc'[Main] \in Returned
      \/ g \in finished'
      \/ \E w \in Workers : task'[w] = g /\ g # NoTask /\ pc'[w] \in Returned
  BY DEF Dead, Returned
<1>2. \/ g = Main /\ pc[Main] \in Returned
      \/ g \in finished
      \/ \E w \in Workers : task[w] = g /\ g # NoTask /\ pc[w] \in Returned
      => Pending(g) = {}
  BY DEF Dead, Returned, DeadDrained, WorkerPlaces, InBody
<1>3. CASE Quiet
  <2>1. Pending(g)' = Pending(g) /\ finished' = finished /\ task' = task
    BY <1>3 DEF Quiet, Pending
  <2>2. ASSUME NEW th \in Threads, BodyOf(th) = g, SyncPass(th)
        PROVE  Pending(g) = {}
    BY <2>2, ZeroMeansDrained DEF SyncPass
  <2>3. ASSUME NEW th \in Threads, BodyOf(th) = g,
               pc'[th] \in Returned, pc[th] \notin Returned
        PROVE  Pending(g) = {}
    BY <2>2, <2>3, OnlySyncReturns
  <2>4. BodyOf(Main) = Main /\ \A w \in Workers : w \in Threads /\ BodyOf(w) = task[w]
    BY DEF BodyOf
  <2> QED BY <1>1, <1>2, <2>1, <2>3, <2>4
<1>4. ASSUME NEW th \in Threads, SpawnInc(th)
      PROVE  Pending(g)' = {}
  <2>1. PICK t \in todo[th] :
           /\ pc[th] = "body"
           /\ spawned' = spawned \cup {t}
           /\ pc' = [pc EXCEPT ![th] = "add"]
           /\ UNCHANGED <<task, finished>>
    BY <1>4, SpawnFacts
  <2>2. \A a \in Threads : pc'[a] \in Returned => pc[a] \in Returned
    BY <2>1 DEF TypeOK, Returned
  <2>3. Dead(g) /\ Pending(g) = {}
    BY <1>1, <1>2, <2>1, <2>2 DEF Dead, Returned, WorkerPlaces, InBody
  <2>4. GroupOf[t] # g
    BY <2>1, <2>3, DeadNotSpawnedInto
  <2> QED BY <2>1, <2>3, <2>4 DEF Pending
<1>5. ASSUME NEW th \in Threads, AddPush(th)
      PROVE  Pending(g)' = {}
  <2>1. /\ pc' = [pc EXCEPT ![th] = "notify"]
        /\ UNCHANGED <<task, spawned, finished>>
    BY <1>5 DEF AddPush
  <2>2. \A a \in Threads : pc'[a] \in Returned => pc[a] \in Returned
    BY <2>1 DEF TypeOK, Returned
  <2> QED BY <1>1, <1>2, <2>1, <2>2 DEF Pending
<1>6. ASSUME NEW w \in Workers, Take(w)
      PROVE  Pending(g)' = {}
  <2>1. /\ pc' = [pc EXCEPT ![w] = "body"]
        /\ \A v \in Workers \ {w} : task'[v] = task[v]
        /\ UNCHANGED <<spawned, finished>>
    BY <1>6, TakeFacts DEF TypeOK
  <2>2. pc'[w] \notin Returned /\ \A a \in Threads : pc'[a] \in Returned => pc[a] \in Returned
    BY <2>1 DEF TypeOK, Returned
  <2> QED BY <1>1, <1>2, <2>1, <2>2 DEF Pending
<1>7. ASSUME NEW w \in Workers, TaskDone(w)
      PROVE  Pending(g)' = {}
  <2>1. PICK t \in Tasks :
           /\ t = task[w] /\ t # NoTask
           /\ pc[w] \in {"body", "synced"}
           /\ OwnsGroup(t) => pc[w] = "synced"
           /\ finished' = finished \cup {t}
           /\ task' = [task EXCEPT ![w] = NoTask]
           /\ spawned' = spawned
           /\ pc'[w] = "work"
           /\ \A a \in Threads \ {w} : pc'[a] = pc[a] \/ pc'[a] = "sync"
    BY <1>7, DoneFacts
  <2>2. Pending(g)' \subseteq Pending(g)
    BY <2>1 DEF Pending
  <2>3. CASE g = t
    <3>1. CASE OwnsGroup(t)
      BY <1>2, <2>1, <2>2, <2>3, <3>1 DEF Returned
    <3>2. CASE ~OwnsGroup(t)
      BY <2>2, <2>3, <3>2 DEF OwnsGroup, Pending, TypeOK
    <3> QED BY <3>1, <3>2
  <2>4. CASE g # t
    <3>1. \A a \in Threads : pc'[a] \in Returned => pc[a] \in Returned /\ a # w
      BY <2>1 DEF Returned
    <3>2. \A v \in Workers \ {w} : task'[v] = task[v]
      BY <2>1 DEF TypeOK
    <3>3. Pending(g) = {}
      BY <1>1, <1>2, <2>1, <2>4, <3>1, <3>2
    <3> QED BY <2>2, <3>3
  <2> QED BY <2>3, <2>4
<1> QED BY <1>3, <1>4, <1>5, <1>6, <1>7, StepKinds
-----------------------------------------------------------------------------
LEMMA InitInv == Init => Inv
<1> SUFFICES ASSUME Init PROVE Inv
  OBVIOUS
<1> USE ConstantFacts
<1>1. TypeOK /\ WorkerPlaces
  BY InitTyped DEF Typed
<1>2. OnePlace
  BY EmptySeq DEF Init, OnePlace, Held, Queued, Running, NoTask
<1>3. Children
  BY DEF Init, Children, ChildrenOf, BodyOf, NoTask, Threads
<1>4. \A g \in Groups : Pending(g) = {}
  BY DEF Init, Pending
<1>5. LatchCounts
  BY <1>4, FS_EmptySet DEF Init, LatchCounts
<1> QED BY <1>1, <1>2, <1>3, <1>4, <1>5 DEF Inv, DeadDrained

LEMMA InvInvariant == Inv /\ [Next]_vars => Inv'
<1> SUFFICES ASSUME Inv, [Next]_vars PROVE Inv'
  OBVIOUS
<1>1. TypeOK' /\ WorkerPlaces'
  BY TypedInvariant DEF Inv, Typed
<1> QED BY <1>1, OnePlaceStep, ChildrenStep, LatchStep, DeadStep DEF Inv

LEMMA Invariance == Spec => []Inv
BY InitInv, InvInvariant, PTL DEF Spec

(* The count of every latch is the number of unfinished tasks of its       *)
(* group, so dec() is never called at 0.                                   *)
THEOREM LatchCounting == Spec => []LatchCounts
<1>1. Inv => LatchCounts
  BY DEF Inv
<1> QED BY Invariance, <1>1, PTL

(* sync() returns only after every task of the group has finished, also    *)
(* those that tasks spawned while it waited: an unspawned task has an      *)
(* ancestor in the group none of whose own ancestors is unspawned, and     *)
(* that one's parent has ended, or is the owner that has returned.         *)
THEOREM SyncingIsDone == Spec => []SyncMeansDone
<1>1. Inv => SyncMeansDone
  <2> USE ConstantFacts
  <2> SUFFICES ASSUME Inv, NEW g \in Groups, Dead(g)
               PROVE  \A t \in Tasks : GroupOf[t] = g => t \in finished
    BY DEF SyncMeansDone
  <2> DEFINE Unspawned == {t \in Tasks : GroupOf[t] = g /\ t \notin spawned}
  <2>1. Pending(g) = {}
    BY DEF Inv, DeadDrained
  <2>2. ASSUME NEW t \in Unspawned, Parent[t] \notin Unspawned
        PROVE  FALSE
    <3>1. CASE Parent[t] = g
      <4>1. ChildrenOf(g) \subseteq spawned
        <5>1. CASE g = Main /\ todo[Main] = {}
          BY <5>1 DEF Inv, Children
        <5>2. CASE g \in finished
          BY <5>2 DEF Inv, Children
        <5>3. CASE \E w \in Workers : task[w] = g /\ g # NoTask /\ todo[w] = {}
          BY <5>3 DEF Inv, Children
        <5> QED BY <5>1, <5>2, <5>3 DEF Dead, Inv, WorkerPlaces, Threads
      <4> QED BY <3>1, <4>1 DEF ChildrenOf
    <3>2. CASE Parent[t] \in Tasks /\ GroupOf[Parent[t]] = g
      <4>1. Parent[t] \in finished
        BY <2>1, <2>2, <3>2 DEF Pending
      <4> QED BY <4>1 DEF Inv, Children, ChildrenOf
    <3> QED BY <3>1, <3>2, TreeAssumption
  <2>3. Unspawned = {}
    BY <2>2, TreeAssumption
  <2> QED BY <2>1, <2>3 DEF Pending
<1> QED BY Invariance, <1>1, PTL

(* After sync() has returned nothing touches the group's latch.            *)
THEOREM DeadLatchesRest == Spec => DeadLatchUntouched
<1>1. Inv /\ [Next]_vars =>
        [\A g \in Groups : Dead(g) => latch'[g] = latch[g]]_vars
  <2> SUFFICES ASSUME Inv, [Next]_vars, NEW g \in Groups, Dead(g)
               PROVE  latch'[g] = latch[g]
    OBVIOUS
  <2> USE DEF Inv
  <2>1. CASE Quiet
    BY <2>1 DEF Quiet
  <2>2. ASSUME NEW th \in Threads, SpawnInc(th)
        PROVE  latch'[g] = latch[g]
    <3>1. PICK t \in todo[th] :
             /\ pc[th] = "body" /\ GroupOf[t] \in Groups
             /\ latch' = [latch EXCEPT ![GroupOf[t]] = Incr(@)]
      BY <2>2, SpawnFacts
    <3>2. GroupOf[t] # g
      BY <3>1, DeadNotSpawnedInto
    <3> QED BY <3>1, <3>2 DEF TypeOK
  <2>3. ASSUME NEW th \in Threads, AddPush(th)
        PROVE  latch'[g] = latch[g]
    BY <2>3 DEF AddPush
  <2>4. ASSUME NEW w \in Workers, Take(w)
        PROVE  latch'[g] = latch[g]
    BY <2>4 DEF Take
  <2>5. ASSUME NEW w \in Workers, TaskDone(w)
        PROVE  latch'[g] = latch[g]
    <3>1. PICK t \in Tasks :
             /\ GroupOf[t] \in Groups
             /\ t \in spawned /\ t \notin finished
             /\ latch' = [latch EXCEPT ![GroupOf[t]] = Decr(@)]
      BY <2>5, DoneFacts
    <3>2. GroupOf[t] # g
      BY <3>1 DEF DeadDrained, Pending
    <3> QED BY <3>1, <3>2 DEF TypeOK
  <2> QED BY <2>1, <2>2, <2>3, <2>4, <2>5, StepKinds
<1> QED BY Invariance, <1>1, PTL DEF Spec, DeadLatchUntouched
-----------------------------------------------------------------------------
(* The destruction of the executor.                                        *)
Remaining == {w \in Workers : pc[w] # "exited"}
Stopping == {"notifyAll", "destroy", "doneWait", "gone"}

(* _done counts the workers that have not left work(), which the main      *)
(* thread has seen to be 0 when it goes on, and _stop stays set.           *)
DoneCounts ==
  /\ done = Cardinality(Remaining)
  /\ pc[Main] = "gone" => Remaining = {}

StopIsSet == pc[Main] \in Stopping => stop

LEMMA ThreadsFinite == IsFiniteSet(Workers) /\ IsFiniteSet(Threads)
<1>1. IsFiniteSet(1 .. (ThreadCount - 1))
  <2>1. 1 \in Int /\ ThreadCount - 1 \in Int
    BY CountAssumption
  <2> QED BY <2>1, FS_Interval
<1>2. IsFiniteSet(1 .. (ThreadCount - 1) \cup {0})
  BY <1>1, FS_AddElement
<1>3. Workers = 1 .. (ThreadCount - 1) \cup {0}
  BY DEF Workers
<1> QED BY <1>2, <1>3, FS_AddElement DEF Threads

LEMMA RemainingFinite ==
  /\ IsFiniteSet(Remaining)
  /\ Cardinality(Remaining) \in Nat
  /\ Cardinality(Remaining) = 0 <=> Remaining = {}
<1>1. Remaining \in SUBSET Workers
  BY DEF Remaining
<1> QED BY <1>1, ThreadsFinite, FS_Subset, FS_CardinalityType, FS_EmptySet

(* As many workers start as the constructor was asked for, unless that is 0 *)
LEMMA InitDoneCounts ==
  ASSUME ThreadCount > 0, Init
  PROVE  DoneCounts
<1> USE ConstantFacts
<1>1. Remaining = 0 .. (ThreadCount - 1)
  BY DEF Init, Remaining, Workers, Threads
<1>2. Cardinality(0 .. (ThreadCount - 1)) = ThreadCount
  BY FS_Interval
<1> QED BY <1>1, <1>2 DEF Init, DoneCounts

(* No thread is seen to leave work() or to find _done at 0 but by DoneDec  *)
(* and WaitDone.                                                           *)
LEMMA OnlyDoneDecExits ==
  ASSUME TypeOK, WorkerPlaces, [Next]_vars, \A w \in Workers : ~DoneDec(w)
  PROVE  /\ done' = done
         /\ \A w \in Workers : pc'[w] = "exited" <=> pc[w] = "exited"
         /\ pc'[Main] = "gone" => pc[Main] = "gone" \/ done = 0
<1> USE ConstantFacts
<1>1. CASE StartWorker \/ StartSelf
  BY <1>1 DEF StartWorker, StartSelf, TypeOK, pool
<1>2. ASSUME NEW a \in Threads,
             SpawnInc(a) \/ AddPush(a) \/ SyncPass(a) \/ SyncWait(a) \/ SpuriousWake(a)
      PROVE  /\ done' = done
             /\ \A w \in Workers : pc'[w] = "exited" <=> pc[w] = "exited"
             /\ pc'[Main] = "gone" => pc[Main] = "gone" \/ done = 0
  BY <1>2 DEF SpawnInc, AddPush, SyncPass, SyncWait, SpuriousWake, TypeOK, pool
<1>3. ASSUME NEW a \in Threads, AddNotify(a)
      PROVE  /\ done' = done
             /\ \A w \in Workers : pc'[w] = "exited" <=> pc[w] = "exited"
             /\ pc'[Main] = "gone" => pc[Main] = "gone" \/ done = 0
  <2>1. pc[a] = "notify" /\ done' = done
    BY <1>3 DEF AddNotify, pool
  <2>2. CASE pc' = [pc EXCEPT ![a] = "body"]
    BY <2>1, <2>2 DEF TypeOK
  <2>3. CASE \E w \in Workers : /\ pc[w] = "idle"
                                /\ pc' = [pc EXCEPT ![a] = "body", ![w] = "work"]
    BY <2>1, <2>3 DEF TypeOK
  <2> QED BY <1>3, <2>2, <2>3 DEF AddNotify
<1>4. ASSUME NEW v \in Workers, Take(v) \/ Sleep(v) \/ LeaveLoop(v)
      PROVE  /\ done' = done
             /\ \A w \in Workers : pc'[w] = "exited" <=> pc[w] = "exited"
             /\ pc'[Main] = "gone" => pc[Main] = "gone" \/ done = 0
  BY <1>4 DEF Take, Sleep, LeaveLoop, TypeOK, pool
<1>5. ASSUME NEW v \in Workers, TaskDone(v)
      PROVE  /\ done' = done
             /\ \A w \in Workers : pc'[w] = "exited" <=> pc[w] = "exited"
             /\ pc'[Main] = "gone" => pc[Main] = "gone" \/ done = 0
  BY <1>5 DEF TaskDone, TypeOK, pool
<1>6. CASE DestroyStep
  BY <1>6 DEF DestroyStep, SetStop, NotifyAll, WaitDone, TypeOK, pool
<1>7. CASE UNCHANGED vars
  BY <1>7 DEF vars
<1> QED
  BY <1>1, <1>2, <1>3, <1>4, <1>5, <1>6, <1>7
  DEF Next, BodyStep, WorkerStep, Terminated

LEMMA DoneStep ==
  ASSUME TypeOK, WorkerPlaces, DoneCounts, [Next]_vars
  PROVE  DoneCounts'
<1> USE ConstantFacts
<1>1. CASE \A w \in Workers : ~DoneDec(w)
  <2>1. /\ done' = done /\ Remaining' = Remaining
        /\ pc'[Main] = "gone" => pc[Main] = "gone" \/ done = 0
    BY <1>1, OnlyDoneDecExits DEF Remaining
  <2> QED BY <2>1, RemainingFinite DEF DoneCounts
<1>2. ASSUME NEW w \in Workers, DoneDec(w)
      PROVE  DoneCounts'
  <2>1. w \in Remaining /\ Remaining' = Remaining \ {w}
    BY <1>2 DEF DoneDec, Remaining, TypeOK
  <2>2. Cardinality(Remaining \ {w}) = Cardinality(Remaining) - 1
    BY <2>1, RemainingFinite, FS_RemoveElement
  <2>3. done # 0
    BY <2>1, RemainingFinite DEF DoneCounts
  <2>4. done' = done - 1
    BY <1>2, <2>3 DEF DoneDec, Decr
  <2>5. pc'[Main] = "gone" => pc[Main] = "gone"
    BY <1>2 DEF DoneDec, TypeOK
  <2> QED BY <2>1, <2>2, <2>4, <2>5 DEF DoneCounts
<1> QED BY <1>1, <1>2

(* With at least one thread asked for, _done is never decremented at 0 ... *)
THEOREM DoneNeverWraps ==
  ASSUME ThreadCount > 0
  PROVE  Spec => []NoDecAtZero
<1>1. Typed /\ DoneCounts => NoDecAtZero
  <2> SUFFICES ASSUME DoneCounts, NEW w \in Workers, pc[w] = "leaving"
               PROVE  done # 0
    BY DEF NoDecAtZero
  <2>1. w \in Remaining
    BY DEF Remaining
  <2> QED BY <2>1, RemainingFinite DEF DoneCounts
<1>2. Init => DoneCounts
  BY InitDoneCounts
<1>3. Typed /\ DoneCounts /\ [Next]_vars => DoneCounts'
  BY DoneStep DEF Typed
<1> QED BY InitTyped, TypedInvariant, <1>1, <1>2, <1>3, PTL DEF Spec

(* ... and the executor's members outlive every worker.                    *)
THEOREM ExecutorOutlives ==
  ASSUME ThreadCount > 0
  PROVE  Spec => []PoolOutlivesWorkers
<1>1. DoneCounts => PoolOutlivesWorkers
  BY DEF DoneCounts, PoolOutlivesWorkers, Remaining
<1>2. Init => DoneCounts
  BY InitDoneCounts
<1>3. Typed /\ DoneCounts /\ [Next]_vars => DoneCounts'
  BY DoneStep DEF Typed
<1> QED BY InitTyped, TypedInvariant, <1>1, <1>2, <1>3, PTL DEF Spec
-----------------------------------------------------------------------------
LEMMA WakersFinite ==
  /\ IsFiniteSet(Looking) /\ Cardinality(Looking) \in Nat
  /\ IsFiniteSet(Notifying) /\ Cardinality(Notifying) \in Nat
<1>1. Looking \in SUBSET Workers /\ Notifying \in SUBSET Threads
  BY DEF Looking, Notifying
<1> QED BY <1>1, ThreadsFinite, FS_Subset, FS_CardinalityType

LEMMA StopStep ==
  ASSUME TypeOK, WorkerPlaces, StopIsSet, [Next]_vars
  PROVE  StopIsSet'
<1> USE ConstantFacts DEF StopIsSet, Stopping
<1>1. CASE StartWorker \/ StartSelf
  BY <1>1 DEF StartWorker, StartSelf, TypeOK, pool
<1>2. ASSUME NEW a \in Threads,
             SpawnInc(a) \/ AddPush(a) \/ SyncPass(a) \/ SyncWait(a) \/ SpuriousWake(a)
      PROVE  StopIsSet'
  BY <1>2 DEF SpawnInc, AddPush, SyncPass, SyncWait, SpuriousWake, TypeOK, pool
<1>3. ASSUME NEW a \in Threads, AddNotify(a)
      PROVE  StopIsSet'
  <2>1. stop' = stop
    BY <1>3 DEF AddNotify, pool
  <2>2. CASE pc' = [pc EXCEPT ![a] = "body"]
    BY <2>1, <2>2 DEF TypeOK
  <2>3. CASE \E w \in Workers : pc' = [pc EXCEPT ![a] = "body", ![w] = "work"]
    BY <2>1, <2>3 DEF TypeOK
  <2> QED BY <1>3, <2>2, <2>3 DEF AddNotify
<1>4. ASSUME NEW v \in Workers,
             Take(v) \/ Sleep(v) \/ LeaveLoop(v) \/ DoneDec(v) \/ TaskDone(v)
      PROVE  StopIsSet'
  BY <1>4 DEF Take, Sleep, LeaveLoop, DoneDec, TaskDone, TypeOK, pool
<1>5. CASE DestroyStep
  BY <1>5 DEF DestroyStep, SetStop, NotifyAll, WaitDone, TypeOK, pool
<1>6. CASE UNCHANGED vars
  BY <1>6 DEF vars
<1> QED
  BY <1>1, <1>2, <1>3, <1>4, <1>5, <1>6
  DEF Next, BodyStep, WorkerStep, Terminated

\* A worker more on its way changes nothing for the worse.
LEMMA OneMoreLooks ==
  ASSUME NoLostWakeup, TypeOK, NEW w \in Workers,
         Looking' = Looking \cup {w}, Notifying' = Notifying,
         Asleep' \subseteq Asleep, UNCHANGED <<workStack, stop>>
  PROVE  NoLostWakeup'
<1>1. Cardinality(Looking \cup {w}) \in Nat
      /\ Cardinality(Looking \cup {w}) >= Cardinality(Looking)
  <2>1. Cardinality(Looking \cup {w}) =
          IF w \in Looking THEN Cardinality(Looking) ELSE Cardinality(Looking) + 1
    BY WakersFinite, FS_AddElement
  <2>2. Cardinality(Looking) \in Nat
    BY WakersFinite
  <2> QED BY <2>1, <2>2
<1>2. Len(workStack) \in Nat
  BY LenProperties DEF TypeOK
<1> QED BY <1>1, <1>2, WakersFinite DEF NoLostWakeup

\* Nor does a thread that is none of the three.
LEMMA NobodyElseMatters ==
  ASSUME NoLostWakeup, Looking' = Looking, Notifying' = Notifying,
         Asleep' = Asleep, UNCHANGED <<workStack, stop>>
  PROVE  NoLostWakeup'
BY DEF NoLostWakeup

LEMMA WakeupStep ==
  ASSUME TypeOK, WorkerPlaces, StopIsSet, NoLostWakeup, [Next]_vars
  PROVE  NoLostWakeup'
<1> USE ConstantFacts
<1>1. CASE StartWorker
  <2>1. PICK w \in Workers : pc[w] = "unborn" /\ pc' = [pc EXCEPT ![w] = "work"]
    BY <1>1 DEF StartWorker
  <2>2. /\ Looking' = Looking \cup {w} /\ Notifying' = Notifying
        /\ Asleep' = Asleep /\ UNCHANGED <<workStack, stop>>
    BY <1>1, <2>1 DEF StartWorker, Looking, Notifying, Asleep, TypeOK, pool
  <2> QED BY <2>2, OneMoreLooks
<1>2. CASE StartSelf
  <2>1. /\ Looking' = Looking \cup {0} /\ Notifying' = Notifying
        /\ Asleep' = Asleep /\ UNCHANGED <<workStack, stop>>
    BY <1>2 DEF StartSelf, Looking, Notifying, Asleep, TypeOK, pool
  <2> QED BY <2>1, OneMoreLooks
<1>3. ASSUME NEW a \in Threads, SpawnInc(a) \/ SyncPass(a) \/ SyncWait(a)
      PROVE  NoLostWakeup'
  <2>1. /\ Looking' = Looking /\ Notifying' = Notifying
        /\ Asleep' = Asleep /\ UNCHANGED <<workStack, stop>>
    BY <1>3
    DEF SpawnInc, SyncPass, SyncWait, Looking, Notifying, Asleep, TypeOK, pool
  <2> QED BY <2>1, NobodyElseMatters
<1>4. ASSUME NEW a \in Threads, AddPush(a)
      PROVE  NoLostWakeup'
  <2>1. /\ Looking' = Looking /\ Asleep' = Asleep /\ stop' = stop
        /\ Notifying' = Notifying \cup {a} /\ a \notin Notifying
    BY <1>4 DEF AddPush, Looking, Notifying, Asleep, TypeOK
  <2>2. Len(workStack') = Len(workStack) + 1 /\ Len(workStack) \in Nat
    BY <1>4, AppendProperties, LenProperties DEF AddPush, WorkerPlaces, TypeOK
  <2>3. Cardinality(Notifying \cup {a}) = Cardinality(Notifying) + 1
    BY <2>1, WakersFinite, FS_AddElement
  <2> QED BY <2>1, <2>2, <2>3, WakersFinite DEF NoLostWakeup
<1>5. ASSUME NEW a \in Threads, AddNotify(a)
      PROVE  NoLostWakeup'
  <2>1. pc[a] = "notify" /\ UNCHANGED <<workStack, stop>>
    BY <1>5 DEF AddNotify, pool
  <2>2. CASE Asleep = {} /\ pc' = [pc EXCEPT ![a] = "body"]
    BY <2>2 DEF Asleep, NoLostWakeup, TypeOK
  <2>3. ASSUME NEW w \in Workers, pc[w] = "idle",
               pc' = [pc EXCEPT ![a] = "body", ![w] = "work"]
        PROVE  NoLostWakeup'
    <3>1. /\ Looking' = Looking \cup {w} /\ w \notin Looking
          /\ Notifying' = Notifying \ {a} /\ a \in Notifying
          /\ w \in Asleep
      BY <2>1, <2>3 DEF Looking, Notifying, Asleep, TypeOK
    <3>2. Cardinality(Looking \cup {w}) = Cardinality(Looking) + 1
      BY <3>1, WakersFinite, FS_AddElement
    <3>3. Cardinality(Notifying \ {a}) = Cardinality(Notifying) - 1
      BY <3>1, WakersFinite, FS_RemoveElement
    <3> QED BY <2>1, <3>1, <3>2, <3>3, WakersFinite DEF NoLostWakeup
  <2> QED BY <1>5, <2>2, <2>3 DEF AddNotify, Asleep
<1>6. ASSUME NEW w \in Workers, Take(w)
      PROVE  NoLostWakeup'
  <2>1. /\ Looking' = Looking \ {w} /\ w \in Looking
        /\ Notifying' = Notifying /\ Asleep' = Asleep /\ stop' = stop
    BY <1>6 DEF Take, Looking, Notifying, Asleep, TypeOK
  <2>2. Len(workStack') = Len(workStack) - 1 /\ Len(workStack) \in Nat
    BY <1>6, TakeFacts
  <2>3. Cardinality(Looking \ {w}) = Cardinality(Looking) - 1
    BY <2>1, WakersFinite, FS_RemoveElement
  <2> QED BY <2>1, <2>2, <2>3, WakersFinite DEF NoLostWakeup
<1>7. ASSUME NEW w \in Workers, Sleep(w)
      PROVE  NoLostWakeup'
  <2>1. workStack' = <<>> /\ Len(<<>>) = 0
    BY <1>7, EmptySeq DEF Sleep, pool
  <2>2. Cardinality(Looking') \in Nat /\ Cardinality(Notifying') \in Nat
    <3>1. Looking' \in SUBSET Workers /\ Notifying' \in SUBSET Threads
      BY DEF Looking, Notifying
    <3> QED BY <3>1, ThreadsFinite, FS_Subset, FS_CardinalityType
  <2> QED BY <2>1, <2>2 DEF NoLostWakeup
<1>8. ASSUME NEW w \in Workers, LeaveLoop(w)
      PROVE  NoLostWakeup'
  BY <1>8 DEF LeaveLoop, NoLostWakeup, pool
<1>9. ASSUME NEW w \in Workers, DoneDec(w)
      PROVE  NoLostWakeup'
  <2>1. /\ Looking' = Looking /\ Notifying' = Notifying
        /\ Asleep' = Asleep /\ UNCHANGED <<workStack, stop>>
    BY <1>9 DEF DoneDec, Looking, Notifying, Asleep, TypeOK
  <2> QED BY <2>1, NobodyElseMatters
<1>10. ASSUME NEW a \in Threads, SpuriousWake(a)
       PROVE  NoLostWakeup'
  <2>1. UNCHANGED <<workStack, stop>>
    BY <1>10 DEF SpuriousWake, pool
  <2>2. CASE pc[a] = "idle" /\ a \in Workers
    <3>1. /\ Looking' = Looking \cup {a} /\ Notifying' = Notifying
          /\ Asleep' \subseteq Asleep
      BY <1>10, <2>2 DEF SpuriousWake, Looking, Notifying, Asleep, TypeOK
    <3> QED BY <2>1, <2>2, <3>1, OneMoreLooks
  <2>3. CASE pc[a] = "syncWait"
    <3>1. /\ Looking' = Looking /\ Notifying' = Notifying /\ Asleep' = Asleep
      BY <1>10, <2>3 DEF SpuriousWake, Looking, Notifying, Asleep, TypeOK
    <3> QED BY <2>1, <3>1, NobodyElseMatters
  <2>4. pc[Main] # "idle"
    BY DEF WorkerPlaces, InBody
  <2> QED BY <1>10, <2>2, <2>3, <2>4 DEF SpuriousWake, Threads
<1>11. ASSUME NEW w \in Workers, TaskDone(w)
       PROVE  NoLostWakeup'
  <2>1. /\ pc[w] \in {"body", "synced"} /\ pc'[w] = "work"
        /\ \A th \in Threads \ {w} :
             \/ pc'[th] = pc[th]
             \/ pc[th] = "syncWait" /\ pc'[th] = "sync"
        /\ UNCHANGED <<workStack, stop>>
    BY <1>11 DEF TaskDone, TypeOK, pool
  <2>2. /\ Looking' = Looking \cup {w} /\ Notifying' = Notifying
        /\ Asleep' \subseteq Asleep
    BY <2>1 DEF Looking, Notifying, Asleep, Threads
  <2> QED BY <2>1, <2>2, OneMoreLooks
<1>12. CASE DestroyStep
  BY <1>12 DEF DestroyStep, SetStop, NotifyAll, WaitDone, StopIsSet, Stopping,
              NoLostWakeup, pool
<1>13. CASE UNCHANGED vars
  BY <1>13 DEF vars, NoLostWakeup, Looking, Notifying, Asleep
<1> QED
  BY <1>1, <1>2, <1>3, <1>4, <1>5, <1>6, <1>7, <1>8, <1>9, <1>10, <1>11, <1>12,
     <1>13
  DEF Next, BodyStep, WorkerStep, Terminated

(* While a worker sleeps, every queued task has a worker on its way to it  *)
(* or a notify_one still to come, for any number of both.                  *)
THEOREM WakeupsReach == Spec => []NoLostWakeup
<1>1. Init => StopIsSet /\ NoLostWakeup
  BY ConstantFacts DEF Init, StopIsSet, Stopping, NoLostWakeup, Asleep, Threads
<1>2. Typed /\ StopIsSet /\ NoLostWakeup /\ [Next]_vars
        => (StopIsSet /\ NoLostWakeup)'
  BY StopStep, WakeupStep DEF Typed
<1> QED BY InitTyped, TypedInvariant, <1>1, <1>2, PTL DEF Spec
-----------------------------------------------------------------------------
(* Whose group is dead is where the threads are.                           *)
LEMMA DeadPlaces ==
  ASSUME WorkerPlaces, NEW g \in Groups
  PROVE  Dead(g) <=> \/ g = Main /\ pc[Main] \in Returned
                     \/ g \in finished
                     \/ \E w \in Workers :
                          task[w] = g /\ g # NoTask /\ pc[w] \in Returned
BY DEF Dead, Returned, WorkerPlaces, InBody

(* Who counts as synced moves only when a sync() returns.                  *)
LEMMA SyncedQuietly ==
  ASSUME WorkerPlaces, WorkerPlaces', UNCHANGED <<task, finished>>,
         \A th \in Threads : pc'[th] \in Returned <=> pc[th] \in Returned
  PROVE  SyncedOwners' = SyncedOwners
<1>1. ASSUME NEW g \in Groups
      PROVE  Dead(g)' <=> Dead(g)
  <2>1. Dead(g)' <=> \/ g = Main /\ pc'[Main] \in Returned
                     \/ g \in finished'
                     \/ \E w \in Workers :
                          task'[w] = g /\ g # NoTask /\ pc'[w] \in Returned
    BY DEF Dead, Returned, WorkerPlaces, InBody
  <2> QED BY <2>1, DeadPlaces, ConstantFacts
<1>2. {Main} \cup {GroupOf[t] : t \in Tasks} \subseteq Groups
  BY ConstantFacts
<1> QED BY <1>1, <1>2 DEF SyncedOwners

(* The initial state and every step of the pool are ones of TaskGroup: a   *)
(* spawn, the end of a task, the return of a sync(), or nothing.           *)
LEMMA GroupInit == Init => Group!Init
<1> SUFFICES ASSUME Init PROVE Group!Init
  OBVIOUS
<1>1. \A g \in Groups : ~Dead(g)
  BY ConstantFacts DEF Init, Dead, NoTask
<1> QED BY <1>1, ConstantFacts DEF Init, Group!Init, SyncedOwners

LEMMA ReturnedStays ==
  ASSUME TypeOK, WorkerPlaces, [Next]_vars, NEW th \in Threads,
         pc[th] \in Returned, pc'[th] \notin Returned
  PROVE  \E w \in Workers : TaskDone(w)
<1> USE ConstantFacts DEF Returned
<1>1. CASE StartWorker \/ StartSelf
  BY <1>1 DEF StartWorker, StartSelf, TypeOK
<1>2. ASSUME NEW a \in Threads,
             SpawnInc(a) \/ AddPush(a) \/ SyncPass(a) \/ SyncWait(a) \/ SpuriousWake(a)
      PROVE  FALSE
  BY <1>2 DEF SpawnInc, AddPush, SyncPass, SyncWait, SpuriousWake, TypeOK
<1>3. ASSUME NEW a \in Threads, AddNotify(a)
      PROVE  FALSE
  <2>1. CASE pc' = [pc EXCEPT ![a] = "body"]
    BY <1>3, <2>1 DEF AddNotify, TypeOK
  <2>2. CASE \E w \in Workers : /\ pc[w] = "idle"
                                /\ pc' = [pc EXCEPT ![a] = "body", ![w] = "work"]
    BY <1>3, <2>2 DEF AddNotify, TypeOK
  <2> QED BY <1>3, <2>1, <2>2 DEF AddNotify
<1>4. ASSUME NEW w \in Workers, Take(w) \/ Sleep(w) \/ LeaveLoop(w)
      PROVE  FALSE
  BY <1>4 DEF Take, Sleep, LeaveLoop, TypeOK
<1>5. ASSUME NEW w \in Workers, DoneDec(w)
      PROVE  FALSE
  BY <1>5 DEF DoneDec, TypeOK
<1>6. CASE DestroyStep
  BY <1>6 DEF DestroyStep, SetStop, NotifyAll, WaitDone, TypeOK
<1>7. CASE UNCHANGED vars
  BY <1>7 DEF vars
<1> QED
  BY <1>1, <1>2, <1>3, <1>4, <1>5, <1>6, <1>7
  DEF Next, BodyStep, WorkerStep, Terminated

LEMMA GroupStep ==
  ASSUME Inv, Inv', SyncMeansDone', [Next]_vars
  PROVE  [Group!Next]_<<spawned, finished, SyncedOwners>>
<1> USE ConstantFacts DEF Inv
<1>1. CASE Quiet /\ \A th \in Threads : ~SyncPass(th)
  <2>1. \A th \in Threads : pc'[th] \in Returned <=> pc[th] \in Returned
    <3>1. \A w \in Workers : ~TaskDone(w)
      BY <1>1, DoneFacts DEF Quiet
    <3> QED BY <1>1, <3>1, OnlySyncReturns, ReturnedStays
  <2> QED BY <1>1, <2>1, SyncedQuietly DEF Quiet
<1>2. ASSUME NEW th \in Threads, SyncPass(th)
      PROVE  Group!Sync(BodyOf(th))
  <2>0. PICK g \in Groups : g = BodyOf(th)
    BY DEF BodyOf, Groups, TypeOK, Threads, NoTask
  <2>1. /\ pc' = [pc EXCEPT ![th] = "synced"] /\ OwnsGroup(g)
        /\ pc[th] \in {"body", "sync"}
        /\ UNCHANGED <<task, spawned, finished>>
    BY <1>2, <2>0 DEF SyncPass
  <2>2. \/ th = Main /\ g = Main
        \/ th \in Workers /\ g = task[th] /\ g \in Tasks /\ g # NoTask
           /\ g \in spawned \ finished
    <3>1. CASE th = Main
      BY <2>0, <3>1 DEF BodyOf
    <3>2. CASE th # Main
      <4>1. th \in Workers /\ g = task[th] /\ g # NoTask /\ g \in Tasks
        BY <2>0, <2>1, <3>2
        DEF BodyOf, Threads, WorkerPlaces, InBody, Groups, NoTask
      <4> QED BY <4>1 DEF OnePlace, Running
    <3> QED BY <3>1, <3>2
  <2>3. g \in {Main} \cup {GroupOf[t] : t \in Tasks}
    BY <2>1 DEF OwnsGroup
  <2>4. ~Dead(g)
    <3>1. g \notin finished
      BY <2>2 DEF TypeOK
    <3>2. \A w \in Workers : task[w] = g /\ g # NoTask => w = th
      BY <2>2 DEF OnePlace, NoTask
    <3> QED BY <2>1, <2>2, <3>1, <3>2, DeadPlaces DEF Returned
  <2>5. Dead(g)'
    BY <2>1, <2>2 DEF Dead, TypeOK, NoTask
  <2>6. \A h \in Groups \ {g} : Dead(h)' <=> Dead(h)
    <3> SUFFICES ASSUME NEW h \in Groups, h # g
                 PROVE  Dead(h)' <=> Dead(h)
      OBVIOUS
    <3>1. \A a \in Threads \ {th} : pc'[a] = pc[a]
      BY <2>1 DEF TypeOK
    <3> QED BY <2>1, <2>2, <3>1 DEF Dead
  <2>7. SyncedOwners' = SyncedOwners \cup {g}
    BY <2>3, <2>5, <2>6 DEF SyncedOwners
  <2>8. \A t \in Tasks : GroupOf[t] = g => t \in finished
    BY <2>1, <2>2, <2>5 DEF SyncMeansDone, Groups
  <2> QED BY <2>0, <2>1, <2>2, <2>3, <2>4, <2>7, <2>8
          DEF Group!Sync, Group!Owners, Group!InGroup, SyncedOwners
<1>3. ASSUME NEW th \in Threads, SpawnInc(th)
      PROVE  \E t \in Tasks : Group!Spawn(t)
  <2>1. PICK t \in todo[th] :
           /\ t \in Tasks /\ t \notin spawned /\ GroupOf[t] \in Groups
           /\ Parent[t] = BodyOf(th)
           /\ pc[th] = "body"
           /\ spawned' = spawned \cup {t}
           /\ pc' = [pc EXCEPT ![th] = "add"]
           /\ UNCHANGED <<task, finished>>
    BY <1>3, SpawnFacts
  <2>2. SyncedOwners' = SyncedOwners
    <3>1. \A a \in Threads : pc'[a] \in Returned <=> pc[a] \in Returned
      BY <2>1 DEF TypeOK, Returned
    <3> QED BY <2>1, <3>1, SyncedQuietly
  <2>3. GroupOf[t] \notin SyncedOwners
    BY <2>1, DeadNotSpawnedInto DEF SyncedOwners
  <2>4. Parent[t] \in Tasks => Parent[t] \in spawned \ finished
    BY <2>1 DEF BodyOf, Threads, OnePlace, Running
  <2> QED BY <2>1, <2>2, <2>3, <2>4 DEF Group!Spawn
<1>4. ASSUME NEW th \in Threads, AddPush(th)
      PROVE  UNCHANGED <<spawned, finished, SyncedOwners>>
  <2>1. /\ pc[th] = "add" /\ pc' = [pc EXCEPT ![th] = "notify"]
        /\ UNCHANGED <<task, spawned, finished>>
    BY <1>4 DEF AddPush
  <2>2. \A a \in Threads : pc'[a] \in Returned <=> pc[a] \in Returned
    BY <2>1 DEF TypeOK, Returned
  <2> QED BY <2>1, <2>2, SyncedQuietly
<1>5. ASSUME NEW w \in Workers, Take(w)
      PROVE  UNCHANGED <<spawned, finished, SyncedOwners>>
  <2>1. /\ pc[w] = "work" /\ task[w] = NoTask
        /\ pc' = [pc EXCEPT ![w] = "body"]
        /\ \A v \in Workers \ {w} : task'[v] = task[v]
        /\ UNCHANGED <<spawned, finished>>
    BY <1>5, TakeFacts DEF TypeOK
  <2>2. \A a \in Threads : pc'[a] \in Returned <=> pc[a] \in Returned /\ a # w
    BY <2>1 DEF TypeOK, Returned
  <2>3. \A g \in Groups : Dead(g)' <=> Dead(g)
    BY <2>1, <2>2 DEF Dead, Returned, WorkerPlaces, InBody, Threads
  <2> QED BY <2>1, <2>3 DEF SyncedOwners
<1>6. ASSUME NEW w \in Workers, TaskDone(w)
      PROVE  \E t \in Tasks : Group!Finish(t)
  <2>1. PICK t \in Tasks :
           /\ t = task[w] /\ t # NoTask
           /\ t \in spawned /\ t \notin finished
           /\ todo[w] = {}
           /\ pc[w] \in {"body", "synced"}
           /\ OwnsGroup(t) => pc[w] = "synced"
           /\ finished' = finished \cup {t}
           /\ task' = [task EXCEPT ![w] = NoTask]
           /\ spawned' = spawned
           /\ pc'[w] = "work"
           /\ \A a \in Threads \ {w} :
                \/ pc'[a] = pc[a]
                \/ pc[a] = "syncWait" /\ pc'[a] = "sync"
    <3>1. task[w] \in Tasks
      BY <1>6, DoneFacts
    <3> QED BY <1>6, <3>1, DoneFacts
  <2>2. \A c \in Tasks : Parent[c] = t => c \in spawned
    <3>1. {} = ChildrenOf(t) \ spawned
      BY <2>1 DEF Children
    <3> QED BY <3>1 DEF ChildrenOf
  <2>3. t \in {Main} \cup {GroupOf[u] : u \in Tasks} => Dead(t) /\ OwnsGroup(t)
    BY <2>1 DEF OwnsGroup, Dead
  <2>4. \A g \in Groups \ {t} : Dead(g)' <=> Dead(g)
    <3> SUFFICES ASSUME NEW g \in Groups, g # t
                 PROVE  Dead(g)' <=> Dead(g)
      OBVIOUS
    <3>1. \A a \in Threads \ {w} : pc'[a] \in Returned <=> pc[a] \in Returned
      BY <2>1 DEF Returned
    <3>2. \A v \in Workers \ {w} : task'[v] = task[v]
      BY <2>1 DEF TypeOK
    <3>3. task'[w] = NoTask /\ w # Main /\ (g \in finished' <=> g \in finished)
      BY <2>1 DEF TypeOK
    <3>4. Dead(g)' <=> \/ g = Main /\ pc'[Main] \in Returned
                       \/ g \in finished'
                       \/ \E v \in Workers :
                            task'[v] = g /\ g # NoTask /\ pc'[v] \in Returned
      BY DEF Dead, Returned, WorkerPlaces, InBody
    <3> QED BY <2>1, <3>1, <3>2, <3>3, <3>4, DeadPlaces
  <2>5. Dead(t)'
    BY <2>1 DEF Dead
  <2>6. SyncedOwners' = SyncedOwners
    BY <2>3, <2>4, <2>5 DEF SyncedOwners
  <2> QED BY <2>1, <2>2, <2>3, <2>6 DEF Group!Finish, Group!Owners, SyncedOwners
<1> QED
  <2>1. Groups = Tasks \cup {Main} /\ \A th \in Threads : BodyOf(th) \in Groups
    BY DEF Groups, BodyOf, TypeOK, Threads, NoTask
  <2>2. ASSUME NEW th \in Threads, SyncPass(th)
        PROVE  Group!Next
    <3>1. Group!Sync(BodyOf(th))
      BY <1>2, <2>2
    <3>2. BodyOf(th) \in Group!Owners
      BY <3>1 DEF Group!Sync
    <3> QED BY <3>1, <3>2 DEF Group!Next
  <2> QED BY <1>1, <1>3, <1>4, <1>5, <1>6, <2>2, StepKinds DEF Group!Next

(* ThreadPool implements TaskGroup: whatever the interleaving, a client    *)
(* sees only tasks spawned into groups that are still there, bodies that   *)
(* end after what they had to wait for, and sync() returning when all of   *)
(* the group has run.  (That it does return is checked, not proved.)       *)
THEOREM ImplementsTaskGroup == Spec => Group!Safe
<1>1. Init => Group!Init
  BY GroupInit
<1>2. Inv /\ Inv' /\ SyncMeansDone' /\ [Next]_vars
        => [Group!Next]_<<spawned, finished, SyncedOwners>>
  BY GroupStep
<1> QED BY Invariance, SyncingIsDone, <1>1, <1>2, PTL DEF Spec, Group!Safe, Group!groups
=============================================================================
