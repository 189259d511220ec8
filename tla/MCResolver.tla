----------------------------- MODULE MCResolver -----------------------------
(***************************************************************************)
(* Small links for Resolver.  An atom is a pair of its file and its place  *)
(* in it; a world is given by what the files' atoms are.                   *)
(***************************************************************************)
EXTENDS Resolver, TLC

CONSTANTS o1, o2, o3, a1, a2, m1, m2, m3, s1, x, y, z

MCNames == {x, y, z}
MCFiles == {o1, o2, o3, a1, a2, m1, m2, m3, s1}
MCAtoms == MCFiles \X (1 .. 5)

Kind == [f \in MCFiles |-> IF f \in {a1, a2} THEN "archive" ELSE IF f = s1 THEN "shared" ELSE "object"]

Plain == [name |-> None, def |-> "regular", merge |-> "no", size |-> 1, content |-> None,
          group |-> "no", canBeNull |-> 0, fallback |-> None, refs |-> {},
          global |-> FALSE, never |-> FALSE]
With(r, o) == [k \in DOMAIN r |-> IF k \in DOMAIN o THEN o[k] ELSE r[k]]

Def(n, m) == With(Plain, [name |-> n, merge |-> m, global |-> TRUE])
Sized(n, m, k) == With(Def(n, m), [size |-> k])
Undef(n) == With(Plain, [name |-> n, def |-> "undefined"])
Null(n) == With(Undef(n), [canBeNull |-> 2])
Abs(n) == With(Plain, [name |-> n, def |-> "absolute"])
Main(to) == With(Plain, [refs |-> to, never |-> TRUE])
Fixup(f, i) == <<"fixup", <<f, i>>>>

File(node) == [end |-> 0, file |-> node]
End(k) == [end |-> k, file |-> None]

Defaults == [unreadable |-> {}, data |-> {}, allowDuplicates |-> FALSE, overrides |-> FALSE,
             deadStrip |-> FALSE, globalsAreRoots |-> FALSE, rootNames |-> {},
             allowShlibUndefines |-> TRUE, allowRemainingUndefines |-> FALSE,
             exports |-> {}, inGroups |-> {}]

\* lists: the atoms of each file that has some; toc: of each archive the
\* members, indexed by the names they define; exports: names the shared
\* library has; inGroups: atoms that are only the children of a group.
World(nodes, lists, archives, opt) ==
  LET o == With(Defaults, opt)
      ids == UNION {{<<f, i>> : i \in DOMAIN lists[f]} : f \in DOMAIN lists}
      Atom(id) == [k \in DOMAIN Plain \cup {"file"} |->
                     IF k = "file" THEN id[1] ELSE lists[id[1]][id[2]][k]]
      Export(n) == <<s1, IF n = x THEN 3 ELSE 4>>
      Exported(n) == [k \in DOMAIN Plain \cup {"file"} |->
                        IF k = "file" THEN s1
                        ELSE With(Plain, [name |-> n, def |-> "sharedLibrary"])[k]]
      Members(ar) == IF ar \in DOMAIN archives THEN archives[ar] ELSE {}
      Defines(m, n) == \E i \in DOMAIN lists[m] :
                         lists[m][i].name = n /\ lists[m][i].def = "regular"
  IN  [nodes |-> nodes, kind |-> Kind,
       atom |-> [id \in ids |-> Atom(id)] @@ [id \in {Export(n) : n \in o.exports} |->
                   Exported(CHOOSE n \in o.exports : Export(n) = id)],
       atoms |-> [f \in MCFiles |->
                    IF f \notin DOMAIN lists THEN <<>>
                    ELSE SelectSeq([i \in DOMAIN lists[f] |-> <<f, i>>],
                                   LAMBDA id : id \notin o.inGroups)],
       toc |-> [f \in {a1, a2} |-> [n \in MCNames |->
                  IF \E m \in Members(f) : Defines(m, n)
                  THEN CHOOSE m \in Members(f) : Defines(m, n) ELSE None]],
       data |-> [f \in {a1, a2} |-> o.data],
       exports |-> [f \in {s1} |-> [n \in MCNames |-> IF n \in o.exports THEN Export(n) ELSE None]],
       unreadable |-> o.unreadable, allowDuplicates |-> o.allowDuplicates,
       overrides |-> o.overrides, deadStrip |-> o.deadStrip,
       globalsAreRoots |-> o.globalsAreRoots, rootNames |-> o.rootNames,
       allowShlibUndefines |-> o.allowShlibUndefines,
       allowRemainingUndefines |-> o.allowRemainingUndefines]

-----------------------------------------------------------------------------
(* One name, defined or referred to in two objects, in an archive's member *)
(* and in a shared library, in several orders.                             *)
Claims == {Undef(x), Null(x), Abs(x), Def(x, "no"), Def(x, "weak"), Def(x, "weakAddress"),
           Sized(x, "tentative", 1), Sized(x, "tentative", 2), Sized(x, "largest", 2),
           Sized(x, "sameSize", 1)}
LibraryOrders == {<<File(o1), File(o2), File(a1), File(s1)>>,
                  <<File(s1), File(o1), File(a1), File(o2)>>,
                  <<File(o1), File(s1), File(a1), File(o2), End(4)>>}

MergeWorlds ==
  {World(nodes,
         (o1 :> <<Main({Fixup(o1, 2)}), c1>>) @@ (o2 :> <<Main({Fixup(o2, 2)}), c2>>)
           @@ (m1 :> c3) @@ (m2 :> <<Def(y, "no")>>) @@ (s1 :> shlib.own),
         a1 :> {m1, m2}, [exports |-> shlib.exports, overrides |-> TRUE, data |-> {x},
                     allowDuplicates |-> c1.merge = "sameSize"])
     : nodes \in LibraryOrders, c1 \in Claims, c2 \in Claims,
       c3 \in {<<>>, <<Sized(x, "tentative", 2)>>, <<Def(x, "no"), Undef(y)>>},
       shlib \in {[own |-> <<>>, exports |-> {x}], [own |-> <<>>, exports |-> {}],
                  [own |-> <<Undef(x)>>, exports |-> {}]}}

-----------------------------------------------------------------------------
(* Two archives and an object that need each other, in groups and outside; *)
(* weak externals with a fallback; a member that cannot be read.           *)
Fallback(n, f, i) == With(Undef(n), [fallback |-> <<f, i>>])

Needs == {<<Main({Fixup(o1, 2)}), Undef(x)>>,
          <<Main({Fixup(o1, 2)}), Null(x), Undef(y)>>,
          <<Main({Fixup(o1, 2)}), Fallback(x, o1, 3), Undef(y)>>}
GroupOrders == {<<File(o1), File(a1), File(a2), End(2)>>,
                <<File(a1), File(o1), File(a2), End(3)>>,
                <<File(o1), File(a2), File(o2), File(a1), End(3)>>,
                <<File(o1), File(a2), File(a1), File(a2)>>,
                <<File(s1), File(a1), File(o1), End(2), File(a2), File(a1), End(2)>>}
Provides(f, n) == {<<Def(n, "no")>>} \cup {<<Def(n, "weak"), Undef(k)>> : k \in {y, z} \ {n}}

ArchiveWorlds ==
  {World(nodes,
         (o1 :> e) @@ (o2 :> d) @@ (m1 :> p1) @@ (m2 :> p2) @@ (m3 :> p3)
           @@ (s1 :> own),
         (a1 :> {m1, m2}) @@ (a2 :> {m3}),
         [unreadable |-> bad, allowRemainingUndefines |-> bad # {},
          allowShlibUndefines |-> nodes[1] # File(s1)])
     : nodes \in GroupOrders, e \in Needs, d \in {<<Undef(z)>>, <<Def(x, "weak")>>},
       p1 \in Provides(m1, x), p2 \in Provides(m2, y), p3 \in Provides(m3, z) \cup {<<Def(x, "no"), Undef(y)>>},
       own \in {<<>>, <<Undef(z)>>}, bad \in {{}, {m2}, {o2}}}

-----------------------------------------------------------------------------
(* Groups, associates, constants merged by content and dead stripping.     *)
Parent(f, g) == With(Plain, [name |-> x, group |-> g,
                             refs |-> {<<"groupChild", <<f, 3>>>>, <<"groupChild", <<f, 4>>>>}])
Child(n, to) == With(Plain, [name |-> n, refs |-> to])
Const == With(Plain, [merge |-> "content", content |-> x])

GroupOf(f, g, to) ==
  {<<Main(to), Parent(f, g), Child(y, {Fixup(f, 4)}), Child(n, {}), Undef(k)>>
     : n \in {None, z}, k \in {y, z}}

GroupWorlds ==
  {World(<<File(o1), File(o2), File(o3)>>,
         (o1 :> l1) @@ (o2 :> l2) @@ (o3 :> l3), <<>>,
         [deadStrip |-> ds, globalsAreRoots |-> gr, rootNames |-> IF ds /\ gr THEN {y} ELSE {},
          inGroups |-> {<<o1, 3>>, <<o1, 4>>, <<o2, 3>>, <<o2, 4>>}])
     : l1 \in GroupOf(o1, "comdat", {Fixup(o1, 5)}) \cup GroupOf(o1, "comdat", {}),
       l2 \in GroupOf(o2, "comdat", {}) \cup GroupOf(o2, "linkOnce", {}),
       l3 \in {<<Undef(y)>>, <<Def(y, "weak"), Main({Fixup(o3, 1)})>>,
               <<Def(z, "weak"), With(Main({}), [never |-> FALSE, refs |-> {<<"layoutAfter", <<o3, 1>>>>}])>>,
               <<Const, Const, With(Main({}), [refs |-> {Fixup(o3, 2)}])>>},
       ds \in BOOLEAN, gr \in BOOLEAN}

\* A COMDAT section's atom and the atom of its associative section.
Comdat(f, n) == With(Def(n, "weak"), [refs |-> {<<"associate", <<f, 3>>>>}])

AssociateWorlds ==
  {World(<<File(o1), File(o2)>>,
         (o1 :> <<Main({Fixup(o1, 2)}), Comdat(o1, x), Plain, Abs(z)>>)
           @@ (o2 :> <<Main({Fixup(o2, 4)}), Comdat(o2, n), Plain, Undef(k)>>), <<>>,
         [deadStrip |-> ds])
     : n \in {x, y}, k \in {x, y, z}, ds \in BOOLEAN}

LinkWorlds == MergeWorlds \cup ArchiveWorlds \cup GroupWorlds \cup AssociateWorlds
=============================================================================
