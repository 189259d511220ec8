------------------------------ MODULE TaskGroup ------------------------------
(***************************************************************************)
(* What include/lld/Core/Parallel.h says of a TaskGroup: "Allows launching *)
(* a number of tasks and waiting for them to finish either explicitly via  *)
(* sync() or implicitly on destruction."  Nothing here of threads, queues, *)
(* latches or condition variables: ThreadPool implements this module, and  *)
(* ArchivePreload only relies on it.                                       *)
(***************************************************************************)
EXTENDS FiniteSets

CONSTANTS
  Main,     \* the client, which owns a group that no task owns
  Tasks,    \* the closures that are ever spawned
  Parent,   \* [Tasks -> Tasks \cup {Main}]: whose body spawns it
  GroupOf   \* [Tasks -> Tasks \cup {Main}]: the owner of the group it is in

VARIABLES
  spawned,  \* tasks handed to spawn()
  finished, \* tasks whose body has returned
  synced    \* owners whose group they have synced for the last time

groups == <<spawned, finished, synced>>

Owners == {Main} \cup {GroupOf[t] : t \in Tasks}
InGroup(g) == {t \in Tasks : GroupOf[t] = g}

Init == spawned = {} /\ finished = {} /\ synced = {}

(* A body spawns a task, into a group that is still there.                 *)
Spawn(t) ==
  /\ t \in Tasks \ spawned
  /\ Parent[t] \in Tasks => Parent[t] \in spawned \ finished
  /\ GroupOf[t] \notin synced
  /\ spawned' = spawned \cup {t}
  /\ UNCHANGED <<finished, synced>>

(* A body returns: it has spawned what it had to, and synced its group.    *)
Finish(t) ==
  /\ t \in spawned \ finished
  /\ \A c \in Tasks : Parent[c] = t => c \in spawned
  /\ t \in Owners => t \in synced
  /\ finished' = finished \cup {t}
  /\ UNCHANGED <<spawned, synced>>

(* sync() returns: every task of the group has run, the ones that other    *)
(* tasks of the group spawned while it waited included.                    *)
Sync(g) ==
  /\ g \in Owners \ synced
  /\ g = Main \/ g \in spawned \ finished
  /\ InGroup(g) \cap spawned \subseteq finished
  /\ synced' = synced \cup {g}
  /\ UNCHANGED <<spawned, finished>>

Next ==
  \/ \E t \in Tasks : Spawn(t) \/ Finish(t)
  \/ \E g \in Owners : Sync(g)

(* What is launched runs to its end, and waiting for it ends.              *)
Fairness ==
  /\ \A t \in Tasks : WF_groups(Finish(t))
  /\ \A g \in Owners : WF_groups(Sync(g))

Safe == Init /\ [][Next]_groups
Spec == Safe /\ Fairness
=============================================================================
