-------------------------- MODULE MCArchivePreload --------------------------
(***************************************************************************)
(* Small links for ArchivePreload: an object or two and two archives.      *)
(***************************************************************************)
EXTENDS ArchivePreload, TLC

CONSTANTS o1, o2, a1, a2, m1, m2, m3, x, y, z, s1

NoSet == [f \in Files |-> {}]
NoName == [f \in Files |-> <<>>]
NoMember == [n \in Symbols |-> None]

Link(inputs, defs, undefs, table1, table2, sections, bad) ==
  [inputs |-> inputs, defs |-> defs @@ NoSet, undefs |-> undefs @@ NoName,
   table |-> (a1 :> (table1 @@ NoMember)) @@ (a2 :> (table2 @@ NoMember)),
   sections |-> sections @@ NoSet, bad |-> bad]

SmallWorlds == {
  \* A chain through two archives; y is looked for in a1 in vain.
  Link(<<o1, a1, a2>>, (m1 :> {x}) @@ (m2 :> {y}) @@ (m3 :> {z}),
       (o1 :> <<x, y>>) @@ (m1 :> <<z>>), x :> m1, (y :> m2) @@ (z :> m3),
       o1 :> {s1}, {}),
  \* What is preloaded turns out not to be needed, but has a section s1.
  Link(<<o1, o2, a1>>, (o2 :> {x}) @@ (m1 :> {x}), o1 :> <<x, s1>>,
       x :> m1, NoMember, m1 :> {s1}, {}),
  \* A member that cannot be read; a second archive has the name, too.
  Link(<<o1, a1, a2>>, (m1 :> {x}) @@ (m2 :> {x}), o1 :> <<x>>,
       x :> m1, x :> m2, m2 :> {s1}, {m1}),
  \* An object that cannot be read, when a member is under way.
  Link(<<o1, o2, a1>>, m1 :> {x}, o1 :> <<x>>,
       x :> m1, NoMember, m1 :> {s1}, {o2}),
  \* An archive that cannot be read.
  Link(<<o1, a1, a2>>, m2 :> {x}, o1 :> <<x>>,
       NoMember, x :> m2, o1 :> {s1}, {a1}),
  \* One member for two names; y is not searched for in a1 again, and a2
  \* also defines z.
  Link(<<o1, a1, a2>>, (m1 :> {x, z}) @@ (m2 :> {y}) @@ (m3 :> {z}),
       o1 :> <<x, z, s1>>, (x :> m1) @@ (z :> m1) @@ (y :> m2), z :> m3,
       (o1 :> {s1}) @@ (m1 :> {s1}), {}),
  \* y is preloaded from an archive that has been searched; o2 defines it.
  Link(<<o1, a2, a1, o2>>, (m1 :> {x}) @@ (m2 :> {y}) @@ (o2 :> {y}),
       (o1 :> <<x>>) @@ (m1 :> <<y>>), x :> m1, y :> m2, m2 :> {s1}, {})
}
=============================================================================
