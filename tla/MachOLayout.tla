----------------------------- MODULE MachOLayout -----------------------------
(***************************************************************************)
(* MachO/LayoutPass.cpp: the order of the atoms of a Mach-O file.          *)
(*                                                                         *)
(* Atoms of sections that must not be divided come with layout-after       *)
(* references, from each atom to the next of its section.  After the       *)
(* resolver has replaced atoms by better ones, these references need no    *)
(* longer be lists.  The pass joins them to chains, numbers the atoms of   *)
(* each chain, and sorts all atoms by their chains' first atoms.           *)
(*                                                                         *)
(* A world is the list of defined atoms, in the resolver's order; atoms    *)
(* are named by their place in it, and 0 is no atom.                       *)
(***************************************************************************)
EXTENDS Integers, FiniteSets, SequencesExt

CONSTANT Worlds   \* sequences of records of
    \*   after   the targets of layout-after references
    \*   size    Nat
    \*   class   permissions and content type, in their order
    \*   listed  place in the order file, 0 if it is not in it
    \*   file, ordinal   where it comes from

VARIABLES
  world, phase,
  at,        \* <<atom, reference>>: where the loops over the atoms are
  roots,     \* _followOnRoots
  nexts,     \* _followOnNexts
  overrides, \* _ordinalOverrideMap
  sorted     \* the atoms in the order of the output

vars == <<world, phase, at, roots, nexts, overrides, sorted>>

Atoms == DOMAIN world
With(f, a, v) == [b \in DOMAIN f \cup {a} |-> IF b = a THEN v ELSE f[b]]

Init ==
  /\ world \in Worlds
  /\ phase = "build"
  /\ at = <<1, 1>>
  /\ roots = <<>> /\ nexts = <<>> /\ overrides = <<>> /\ sorted = <<>>

\* Where the links of nx lead from an atom, step by step, and then 0.
Walk(nx, atom) ==
  LET step[i \in Nat] ==
        IF i = 0 THEN atom
        ELSE IF step[i - 1] \in DOMAIN nx THEN nx[step[i - 1]] ELSE 0
  IN [i \in 0 .. Len(world) |-> step[i]]

Chain(nx, atom) == {Walk(nx, atom)[i] : i \in 0 .. Len(world)} \ {0}
IsCycle(nx, atom) == Walk(nx, atom)[Len(world)] # 0

\* What is before target in the chain of its root, which it must be in.
Before(nx, target) ==
  LET w == Walk(nx, roots[target])
  IN {w[i] : i \in 0 .. Min({j \in DOMAIN w : w[j] = target}) - 1}

AtomFollowedBy(nx, target) == CHOOSE a \in Before(nx, target) : nx[a] = target
AllPrevAtomsZeroSize(nx, target) == \A a \in Before(nx, target) : world[a].size = 0

\* Broken: the atoms after target keep their root.
SetTargetRoot(rs, nx, target, root) == With(rs, target, root)

SetChainRoot(rs, nx, target, root) ==
  [a \in DOMAIN rs \cup Chain(nx, target) |-> IF a \in Chain(nx, target) THEN root ELSE rs[a]]

---------------------------------------------------------------------------
(* buildFollowOnTable, one reference at a time. *)

Atom == at[1]
Target == world[at[1]].after[at[2]]
HasReference == phase = "build" /\ at[1] \in Atoms /\ at[2] <= Len(world[at[1]].after)

\* The maps once the atom is put before its target and, if new, a root.
Linked == With(nexts, Atom, Target)
Rooted == IF Atom \in DOMAIN roots THEN roots ELSE With(roots, Atom, Atom)

NextReference == at' = <<at[1], at[2] + 1>>

\* The target is in no chain yet: it comes into this one.
FollowNew ==
  /\ HasReference /\ Target \notin DOMAIN Rooted
  /\ nexts' = Linked
  /\ roots' = With(Rooted, Target, Rooted[Atom])
  /\ NextReference
  /\ UNCHANGED <<world, phase, overrides, sorted>>

\* The target is the root of a chain, which is appended to this one.  The walk
\* along that chain does not end if it leads back to itself.
FollowRoot ==
  /\ HasReference /\ Target \in DOMAIN Rooted /\ Rooted[Target] = Target
  /\ nexts' = Linked
  /\ IF IsCycle(Linked, Target)
     THEN phase' = "hang" /\ UNCHANGED <<roots, at>>
     ELSE /\ roots' = SetChainRoot(Rooted, Linked, Target, Rooted[Atom])
          /\ NextReference /\ UNCHANGED phase
  /\ UNCHANGED <<world, overrides, sorted>>

InMiddle == HasReference /\ Target \in DOMAIN roots /\ Rooted[Target] # Target

\* The target is in the middle of a chain: an atom of size 0 comes between it
\* and the one before ...
InsertEmpty ==
  /\ InMiddle /\ world[Atom].size = 0
  /\ LET prev == AtomFollowedBy(Linked, Target)
     IN /\ nexts' = With(Linked, prev, Atom)
        /\ roots' = With(Rooted, Atom, Rooted[prev])
  /\ NextReference
  /\ UNCHANGED <<world, phase, overrides, sorted>>

\* ... others come to the beginning of that chain, if all between have size 0 ...
Prepend ==
  /\ InMiddle /\ world[Atom].size # 0 /\ AllPrevAtomsZeroSize(Linked, Target)
  /\ nexts' = With(Linked, Atom, Rooted[Target])
  /\ roots' = SetChainRoot(Rooted, With(Linked, Atom, Rooted[Target]), Rooted[Target], Rooted[Atom])
  /\ NextReference
  /\ UNCHANGED <<world, phase, overrides, sorted>>

\* ... and if not, the atom's references are given up.
GiveUp ==
  /\ InMiddle /\ world[Atom].size # 0 /\ ~AllPrevAtomsZeroSize(Linked, Target)
  /\ nexts' = Linked
  /\ roots' = Rooted
  /\ at' = <<at[1] + 1, 1>>
  /\ UNCHANGED <<world, phase, overrides, sorted>>

NextAtom ==
  /\ phase = "build" /\ at[1] \in Atoms /\ at[2] > Len(world[at[1]].after)
  /\ at' = <<at[1] + 1, 1>>
  /\ UNCHANGED <<world, phase, roots, nexts, overrides, sorted>>

Built ==
  /\ phase = "build" /\ at[1] \notin Atoms
  /\ phase' = "number"
  /\ at' = <<1, 1>>
  /\ UNCHANGED <<world, roots, nexts, overrides, sorted>>

---------------------------------------------------------------------------
(* buildOrdinalOverrideMap: the atoms of the chain of each atom's root, that
   have no number yet, are numbered in their order. *)
Number ==
  /\ phase = "number" /\ Atom \in Atoms
  /\ IF Atom \in DOMAIN overrides \/ Atom \notin DOMAIN roots
     THEN at' = <<Atom + 1, 1>> /\ UNCHANGED <<phase, overrides>>
     ELSE LET w == Walk(nexts, roots[Atom])
              new == Chain(nexts, roots[Atom]) \ DOMAIN overrides
              place(a) == CHOOSE i \in DOMAIN w : w[i] = a
          IN IF IsCycle(nexts, roots[Atom])
             THEN phase' = "hang" /\ UNCHANGED <<at, overrides>>
             ELSE /\ overrides' = [a \in DOMAIN overrides \cup new |->
                       IF a \notin new THEN overrides[a]
                       ELSE Cardinality(DOMAIN overrides)
                              + Cardinality({b \in new : place(b) < place(a)})]
                  /\ at' = <<Atom + 1, 1>> /\ UNCHANGED phase
  /\ UNCHANGED <<world, roots, nexts, sorted>>

\* The sort key of an atom.
Root(a) == IF a \in DOMAIN roots THEN roots[a] ELSE a
Override(a) == IF a \in DOMAIN overrides THEN overrides[a] ELSE 0

\* customAtomOrderer, of atoms that all have a name: whether the order file
\* decides, and what.
CustomOrdered(a, b) == world[a].listed > 0 \/ world[b].listed > 0
CustomBefore(a, b) ==
  IF world[a].listed > 0 /\ world[b].listed > 0 THEN world[a].listed < world[b].listed
  ELSE world[a].listed > 0

\* compareAtoms
Less(a, b) ==
  LET r == Root(a)
      s == Root(b)
  IN CASE a = b -> FALSE
       [] a # b /\ r = s -> Override(a) < Override(b)
       [] r # s /\ world[r].class # world[s].class -> world[r].class < world[s].class
       [] r # s /\ world[r].class = world[s].class /\ CustomOrdered(r, s) -> CustomBefore(r, s)
       [] OTHER -> IF world[r].file # world[s].file THEN world[r].file < world[s].file
                   ELSE world[r].ordinal < world[s].ordinal

\* parallel_sort; without an order that agrees with compareAtoms there is no step.
Sort ==
  /\ phase = "number" /\ Atom \notin Atoms
  /\ \E p \in SetToSeqs(Atoms) :
       /\ \A i, j \in Atoms : i < j => ~Less(p[j], p[i])
       /\ sorted' = p
  /\ phase' = "done"
  /\ UNCHANGED <<world, at, roots, nexts, overrides>>

Done == phase = "done" /\ UNCHANGED vars

Next == \/ FollowNew \/ FollowRoot \/ InsertEmpty \/ Prepend \/ GiveUp \/ NextAtom \/ Built
        \/ Number \/ Sort \/ Done

Spec == Init /\ [][Next]_vars /\ WF_vars(Next)

---------------------------------------------------------------------------
(* Properties. *)

Place(a) == CHOOSE i \in Atoms : sorted[i] = a

\* t comes after a in the output, with nothing but atoms of size 0 between.
Follows(a, t) ==
  Place(a) < Place(t) /\ \A i \in Place(a) + 1 .. Place(t) - 1 : world[sorted[i]].size = 0

\* (LayoutPass.cpp:373-379, Alias.h:25-28) However the resolver has mixed the
\* sections of files: an atom of size 0, an alias, is at the place of its target.  An atom of a
\* section is followed by the atom it asks for, unless another atom that asks
\* for the same is: it cannot follow both.
FollowOnsKept ==
  phase = "done" =>
    \A a \in Atoms : \A t \in ToSet(world[a].after) :
      \/ Follows(a, t)
      \/ /\ world[a].size # 0
         /\ \E b \in Atoms \ {a} : world[b].size # 0 /\ t \in ToSet(world[b].after) /\ Follows(b, t)
=============================================================================
