---------------------------- MODULE MCThreadPool ----------------------------
(***************************************************************************)
(* Small instances of ThreadPool: the spawn trees the library's callers    *)
(* build, with few tasks.                                                  *)
(***************************************************************************)
EXTENDS ThreadPool, TLC

CONSTANTS t1, t2, t3, t4

\* A parallel_for_each whose first task has a parallel_for_each of its own, as
\* over sections and the atoms of one of them, and whose second one spawns into
\* the group it belongs to, as parallel_quick_sort does.
MixedParent == (t1 :> Main) @@ (t2 :> t1) @@ (t3 :> Main) @@ (t4 :> t3)
MixedGroup  == (t1 :> Main) @@ (t2 :> t1) @@ (t3 :> Main) @@ (t4 :> Main)

\* Two tasks with a parallel_for_each of their own.
Nest2Parent == (t1 :> Main) @@ (t2 :> t1) @@ (t3 :> Main) @@ (t4 :> t3)
Nest2Group  == (t1 :> Main) @@ (t2 :> t1) @@ (t3 :> Main) @@ (t4 :> t3)
=============================================================================
