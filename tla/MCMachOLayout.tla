---------------------------- MODULE MCMachOLayout ----------------------------
(* MachOLayout on files that share symbols and on aliases.                  *)
EXTENDS MachOLayout

\* The worlds are what the resolver leaves of the sections of some files, each
\* a list of names, when wins[n] is the file whose atom of name n is taken: an
\* atom is followed by the atom taken for the next name of its section.  The
\* aliases, of size 0, come first and each is an alias of one name.
LinkedWorld(aliases, files, wins) ==
  LET atoms == {<<f, i>> \in (DOMAIN files) \X (1 .. 3) :
                  i \in DOMAIN files[f] /\ wins[files[f][i]] = f}
      before(p, q) == p[1] < q[1] \/ (p[1] = q[1] /\ p[2] < q[2])
      list == SetToSortSeq(atoms, before)
      place(n) == Len(aliases)
                    + (CHOOSE j \in DOMAIN list : files[list[j][1]][list[j][2]] = n)
      next(p) == IF p[2] = Len(files[p[1]]) THEN <<>>
                 ELSE <<place(files[p[1]][p[2] + 1])>>
  IN [j \in DOMAIN aliases |->
        [after |-> <<place(aliases[j])>>, size |-> 0, class |-> 1, listed |-> 0,
         file |-> 0, ordinal |-> j]]
     \o [j \in DOMAIN list |->
        [after |-> next(list[j]), size |-> 4, class |-> 1, listed |-> 0,
         file |-> list[j][1], ordinal |-> list[j][2]]]

\* Whether following the references from an atom comes to an end.
Ends(w) ==
  LET to[a \in DOMAIN w, i \in 0 .. Len(w)] ==
        IF i = 0 THEN a
        ELSE IF to[a, i - 1] = 0 \/ w[to[a, i - 1]].after = <<>> THEN 0
             ELSE w[to[a, i - 1]].after[1]
  IN \A a \in DOMAIN w : to[a, Len(w)] = 0

\* Sections without a name twice, and with all the names a section has.
Sections(names) == UNION {SetToSeqs(S) : S \in SUBSET names}
Names(files) == UNION {ToSet(files[f]) : f \in DOMAIN files}
Winners(files) ==
  {w \in [Names(files) -> DOMAIN files] : \A n \in Names(files) : n \in ToSet(files[w[n]])}
Linked1(files, most) ==
  {LinkedWorld(al, files, w) :
     w \in Winners(files), al \in {<<>>} \cup UNION {[1 .. k -> Names(files)] : k \in 1 .. most}}

\* Atoms with a size, none of which asks for the same as another.
NoneShared(w) ==
  \A a, b \in DOMAIN w : w[a].size # 0 /\ w[b].size # 0 /\ w[a].after = w[b].after => a = b \/ w[a].after = <<>>

TwoFiles == UNION {Linked1(<<s, t>>, 0) : s, t \in Sections({1, 2, 3}) \ {<<>>}}
TwoFilesAliases == UNION {Linked1(<<s, t>>, 2) : s, t \in Sections({1, 2, 3}) \ {<<>>}}
ThreeFiles == UNION {Linked1(fs, 0) : fs \in [1 .. 3 -> {s \in Sections(1 .. 4) : Len(s) = 2}]}

\* The same, when the atoms differ in their type or have a place in the order file.
Keyed(ws) ==
  {[a \in DOMAIN w |-> [w[a] EXCEPT !.class = c[a], !.listed = IF a \in DOMAIN l THEN l[a] ELSE 0]]
     : <<w, c, l>> \in UNION {{<<v, d, m>> : d \in [DOMAIN v -> {1, 2}],
          m \in UNION {{f \in [S -> 1 .. 2] : IsInjective(f)} : S \in SUBSET DOMAIN v}} : v \in ws}}
KeyedWorlds == Keyed(UNION {Linked1(<<s, t>>, 0) : s, t \in {<<1, 2>>, <<2, 3>>, <<3>>}})

LayoutWorlds ==
  {w \in TwoFiles : Ends(w)} \cup {w \in TwoFilesAliases \cup ThreeFiles : Ends(w) /\ NoneShared(w)}
    \cup KeyedWorlds
=============================================================================
