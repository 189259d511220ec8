------------------------------ MODULE Resolver ------------------------------
(***************************************************************************)
(* The core linker of the atom model: Resolver (lib/Core/Resolver.cpp) and *)
(* its SymbolTable (lib/Core/SymbolTable.cpp).  It goes through the input  *)
(* nodes, adds the atoms of each object, takes from archives the members   *)
(* that define what is undefined, repeats the groups of --start-group, and *)
(* then points references at the atoms that were chosen, strips dead atoms *)
(* and reports what is left undefined.                                     *)
(*                                                                         *)
(* A link is a record, chosen at the start: `nodes`, the input nodes;      *)
(* `kind` of each file; `atoms`, the atoms of each file in the order in    *)
(* which handleFile takes them; `toc`, the member of each archive that     *)
(* defines a name, `data`, the names it defines as data; `exports`, the    *)
(* atoms of each shared library; `unreadable` files; `atom`, what each     *)
(* atom is; and the options.  An archive is a FileArchive, which returns a *)
(* member once.  A step is one atom, or one turn of one loop.              *)
(***************************************************************************)
EXTENDS Integers, Sequences, SequencesExt, FiniteSets

CONSTANTS
  Names,   \* names of atoms
  Files,   \* files, archive members among them
  Atoms,   \* identities of atoms
  Links,   \* the links considered
  None     \* no name, no file, no atom

Definitions == {"regular", "absolute", "undefined", "sharedLibrary"}
Merges == {"no", "tentative", "weak", "weakAddress", "sameSize", "largest", "content"}
RefKinds == {"fixup", "layoutAfter", "groupChild", "associate"}

\* What the resolver asks an atom.  Atoms with the scope of their translation
\* unit have no name here: the symbol table does not take them by name.
AtomRecords ==
  [file : Files, name : Names \cup {None}, def : Definitions, merge : Merges,
   size : Nat, content : Names \cup {None}, group : {"no", "comdat", "linkOnce"},
   canBeNull : 0 .. 2, fallback : Atoms \cup {None},
   refs : SUBSET (RefKinds \X Atoms), global : BOOLEAN, never : BOOLEAN]

ASSUME NoneAssumption == None \notin Names /\ None \notin Files /\ None \notin Atoms

ASSUME LinkAssumption ==
  \A l \in Links :
    /\ l.nodes \in Seq([end : Nat, file : Files \cup {None}])
    /\ \A i \in DOMAIN l.nodes : \/ l.nodes[i].end = 0 /\ l.nodes[i].file \in Files
                                 \/ l.nodes[i].end \in 1 .. i - 1
    /\ \A f \in Files : l.atoms[f] \in Seq(DOMAIN l.atom)
    /\ IsFiniteSet(DOMAIN l.atom) /\ DOMAIN l.atom \subseteq Atoms
    /\ \A a \in DOMAIN l.atom : l.atom[a] \in AtomRecords

\* What a library has for a name: an archive a member, a shared library an atom
\* of that name.
ASSUME LibraryAssumption ==
  \A l \in Links : \A f \in Files : \A n \in Names :
    /\ l.kind[f] \in {"object", "archive", "shared"}
    /\ l.kind[f] = "archive" => l.toc[f][n] \in Files \cup {None}
    /\ l.kind[f] = "shared" /\ l.exports[f][n] # None =>
         /\ l.exports[f][n] \in DOMAIN l.atom
         /\ l.atom[l.exports[f][n]].def = "sharedLibrary"
         /\ l.atom[l.exports[f][n]].name = n

\* SymbolTable.cpp asserts that what it takes by name has a name, which every
\* undefined atom does, and is not to be merged by its content.
ASSUME NamedAssumption ==
  \A l \in Links : \A a \in DOMAIN l.atom :
    /\ l.atom[a].def = "undefined" => l.atom[a].name # None
    /\ /\ l.atom[a].def = "regular" /\ l.atom[a].group = "no"
       /\ l.atom[a].name # None
       => l.atom[a].merge # "content"

\* What the readers build: an atom's fallback has no fallback of its own, and
\* where there are fallbacks (COFFUndefinedAtom) no atom can be null.
ASSUME FallbackAssumption ==
  \A l \in Links : \A a \in DOMAIN l.atom :
    l.atom[a].fallback # None =>
      /\ l.atom[a].fallback \in DOMAIN l.atom
      /\ l.atom[l.atom[a].fallback].def = "undefined"
      /\ l.atom[l.atom[a].fallback].fallback = None
      /\ \A b \in DOMAIN l.atom : l.atom[b].canBeNull = 0

\* A file's atoms are its own, defined atoms are in objects only, and an object
\* is either an input or an archive's member.
ASSUME FileAssumption ==
  \A l \in Links : \A f \in Files :
    /\ \A i \in DOMAIN l.atoms[f] :
         /\ l.atom[l.atoms[f][i]].file = f
         /\ l.kind[f] # "object" => l.atom[l.atoms[f][i]].def # "regular"
         /\ \A j \in DOMAIN l.atoms[f] : l.atoms[f][i] = l.atoms[f][j] => i = j
    /\ l.kind[f] = "archive" => \A n \in Names : l.toc[f][n] # None =>
         /\ l.kind[l.toc[f][n]] = "object"
         /\ \A i \in DOMAIN l.nodes : l.nodes[i].file # l.toc[f][n]

\* What handleSectionGroup and handleGnuLinkOnceSection make: the atoms of a
\* group's sections are not in the file's list; they are found by the references
\* of one parent (asserted in maybeAddSectionGroupOrGnuLinkOnce to be defined).
ASSUME GroupAssumption ==
  \A l \in Links : \A p \in DOMAIN l.atom :
    /\ l.atom[p].group # "no" => l.atom[p].def = "regular"
    /\ \A c \in Atoms : <<"groupChild", c>> \in l.atom[p].refs =>
         /\ c \in DOMAIN l.atom /\ l.atom[c].def = "regular" /\ l.atom[c].group = "no"
         /\ l.atom[p].group # "no" /\ l.atom[c].file = l.atom[p].file
         /\ c \notin ToSet(l.atoms[l.atom[c].file])
         /\ \A q \in DOMAIN l.atom : <<"groupChild", c>> \in l.atom[q].refs => q = p

\* A defined atom refers to atoms of its file's list; to the children of a group
\* only from within it, from elsewhere the ELF reader refers to an undefined atom
\* of their name (findAtom; for local symbols the format forbids it).
ASSUME ReferenceAssumption ==
  \A l \in Links : \A a \in DOMAIN l.atom : \A r \in l.atom[a].refs :
    \/ r[2] \in ToSet(l.atoms[l.atom[a].file])
    \/ \E p \in DOMAIN l.atom : /\ <<"groupChild", r[2]>> \in l.atom[p].refs
                                /\ a = p \/ <<"groupChild", a>> \in l.atom[p].refs

\* An associative section of COFF belongs to the section it is associated with:
\* its atom has no name in the symbol table, and nobody refers to it but that
\* section and others associated with it.
ASSUME AssociateAssumption ==
  \A l \in Links : \A b \in DOMAIN l.atom : \A t \in DOMAIN l.atom :
    <<"associate", t>> \in l.atom[b].refs =>
      /\ l.atom[t].name = None /\ l.atom[t].merge # "content" /\ l.atom[t].group = "no"
      /\ \A a \in DOMAIN l.atom : \A r \in l.atom[a].refs :
           r[1] # "associate" /\ r[2] = t => a = b \/ <<"associate", a>> \in l.atom[b].refs

VARIABLES
  link,       \* the link at hand
  phase,      \* the loop that is running
  index,      \* resolveUndefines: index of the next node
  lib,        \* the library forEachUndefines goes through names for, or None
  todo,       \* atoms handleFile has yet to take
  back,       \* the loop to go back to when it has taken them
  added,      \* undefAdded
  scan,       \* forEachUndefines: names already looked at
  tents,      \* the tentative definitions it has yet to look at
  taken,      \* _membersInstantiated of the archives
  seen,       \* the objects resolveUndefines has handled
  symtab,     \* _nameTable, _groupTable, _contentTable and _replacedAtoms
  atoms,      \* _atoms: which they are, and not their order
  undefines,  \* _undefines, a name that is cached as resolved is None
  undefIndex, \* _undefineIndex
  newUndefs,  \* _newUndefinesAdded
  roots,      \* _deadStripRoots
  refs,       \* the references of the atoms in _atoms, once updated
  dead,       \* _deadAtoms
  live,       \* _liveAtoms
  pending     \* atoms markLive has been called with and not yet looked at

reading == <<index, lib, todo, back, added, seen, newUndefs>>
searching == <<scan, tents, taken, undefIndex>>
tables == <<symtab, atoms, undefines>>
stripping == <<roots, refs, dead, live, pending>>

vars == <<link, phase, reading, searching, tables, stripping>>
-----------------------------------------------------------------------------
(* SymbolTable.                                                            *)

Is(a, def) == link.atom[a].def = def
Name(a) == link.atom[a].name

\* The function f with a mapped to b.
Put(f, a, b) == [x \in DOMAIN f \cup {a} |-> IF x = a THEN b ELSE f[x]]

\* mergeCases: what to do with the second of two definitions of a name.
MergeCases ==
  LET Row(no, tent, weak, addr, same, large) ==
        [no |-> no, tentative |-> tent, weak |-> weak, weakAddress |-> addr,
         sameSize |-> same, largest |-> large]
      S == "SameSize"
      L == "Largest"
  IN  [no          |-> Row("Error",  "First", "First",  "First",  S, L),
       tentative   |-> Row("Second", L,       "Second", "Second", S, L),
       weak        |-> Row("Second", "First", "First",  "Second", S, L),
       weakAddress |-> Row("Second", "First", "First",  "First",  S, L),
       sameSize    |-> Row(S, S, S, S, S, S),
       largest     |-> Row(L, L, L, L, S, L)]

Merge(e, a) == MergeCases[link.atom[e].merge][link.atom[a].merge]

\* The two cannot be in one link.
DuplicateSymbols(e, a) ==
  LET both == {link.atom[e].def, link.atom[a].def}
  IN  \/ both = {"regular", "absolute"} \/ both = {"absolute"}
      \/ /\ both = {"regular"} /\ ~link.allowDuplicates
         /\ \/ Merge(e, a) = "Error"
            \/ Merge(e, a) = "SameSize" /\ link.atom[e].size # link.atom[a].size

\* (broken) The least of several definitions is chosen.
UseNewWorst(e, a) ==
  \/ Is(e, "undefined") /\ ~Is(a, "undefined")
  \/ Is(e, "sharedLibrary") /\ (Is(a, "regular") \/ Is(a, "absolute"))
  \/ /\ Is(e, "regular") /\ Is(a, "regular")
     /\ Merge(e, a) = "Second" \/ Merge(e, a) = "Largest"

\* a takes the place of e, the atom the table has for its name.
UseNew(e, a) ==
  \/ Is(e, "undefined") /\ ~Is(a, "undefined")
  \/ Is(e, "sharedLibrary") /\ (Is(a, "regular") \/ Is(a, "absolute"))
  \/ /\ Is(e, "regular") /\ Is(a, "regular")
     /\ \/ Merge(e, a) = "Second"
        \/ Merge(e, a) = "Largest" /\ link.atom[a].size >= link.atom[e].size
        \/ Merge(e, a) = "SameSize" /\ link.atom[a].size = link.atom[e].size
  \/ /\ Is(e, "undefined") /\ Is(a, "undefined")
     /\ \/ link.atom[a].canBeNull < link.atom[e].canBeNull
        \/ link.atom[a].canBeNull = link.atom[e].canBeNull /\ link.atom[a].fallback # None

\* SymbolTable::addByName.
AddByName(t, a) ==
  LET e == t.names[Name(a)]
  IN  IF e = a THEN t
      ELSE IF e = None THEN [t EXCEPT !.names[Name(a)] = a]
      ELSE IF UseNew(e, a)
      THEN [t EXCEPT !.names[Name(a)] = a, !.replaced = Put(@, e, a)]
      ELSE [t EXCEPT !.replaced = Put(@, a, e)]

\* SymbolTable::addByContent, for read-only atoms without a name.
AddByContent(t, a) ==
  LET same == {e \in t.contents : link.atom[e].content = link.atom[a].content}
  IN  IF same = {} THEN [t EXCEPT !.contents = @ \cup {a}]
      ELSE [t EXCEPT !.replaced = Put(@, a, CHOOSE e \in same : TRUE)]

\* SymbolTable::add.
Add(t, a) == IF Name(a) # None THEN AddByName(t, a)
             ELSE IF link.atom[a].merge = "content" THEN AddByContent(t, a)
             ELSE t

\* It ends in report_fatal_error.
AddFails(t, a) ==
  /\ Name(a) # None /\ t.names[Name(a)] \notin {None, a}
  /\ DuplicateSymbols(t.names[Name(a)], a)

IsCoalescedAway(t, a) == a \in DOMAIN t.replaced

\* Follows _replacedAtoms from a, for as many steps as there are entries.
Replacement(t, a) ==
  LET chain[i \in Nat] ==
        IF i = 0 THEN a
        ELSE LET b == chain[i - 1] IN IF IsCoalescedAway(t, b) THEN t.replaced[b] ELSE b
  IN  chain[Cardinality(DOMAIN t.replaced)]

\* SymbolTable::replacement does not return.
ReplacementLoops(t, a) == IsCoalescedAway(t, Replacement(t, a))

\* SymbolTable::isDefined.
IsDefinedName(t, n) == t.names[n] # None /\ ~Is(t.names[n], "undefined")

\* SymbolTable::tentativeDefinitions: the names of such atoms.
IsTentative(t, n) ==
  /\ t.names[n] # None /\ Is(t.names[n], "regular")
  /\ link.atom[t.names[n]].merge = "tentative"
-----------------------------------------------------------------------------
(* Resolver::resolveUndefines and getFile: which file is next.             *)

Init ==
  /\ link \in Links
  /\ phase = "next" /\ back = "next"
  /\ index = 1 /\ lib = None /\ todo = <<>> /\ added = FALSE
  /\ scan = 0 /\ tents = {} /\ taken = {} /\ seen = {}
  /\ symtab = [names |-> [n \in Names |-> None], groups |-> <<>>,
               contents |-> {}, replaced |-> <<>>]
  /\ atoms = {} /\ undefines = <<>>
  /\ undefIndex = [f \in Files |-> 0]
  /\ newUndefs = [f \in Files |-> FALSE]
  /\ roots = {} /\ refs = <<>> /\ dead = {} /\ live = {} /\ pending = {}

AtNode == phase = "next" /\ index <= Len(link.nodes)
AtFile(k) == /\ AtNode /\ link.nodes[index].end = 0
             /\ link.nodes[index].file \notin link.unreadable
             /\ link.kind[link.nodes[index].file] = k

\* Resolver::undefinesAdded, over the files of the group that ends at node i.
UndefinesAdded(i) ==
  \E j \in i - link.nodes[i].end .. i - 1 :
    link.nodes[j].end = 0 /\ newUndefs[link.nodes[j].file]

\* (broken) A group is gone through once.
EndGroupOnce ==
  /\ AtNode /\ link.nodes[index].end > 0
  /\ index' = index + 1
  /\ UNCHANGED <<link, phase, lib, todo, back, added, seen, newUndefs,
                 searching, tables, stripping>>

\* A GroupEnd: back to the group's first file, or on to what follows.
EndGroup ==
  /\ AtNode /\ link.nodes[index].end > 0
  /\ index' = IF UndefinesAdded(index) THEN index - link.nodes[index].end ELSE index + 1
  /\ UNCHANGED <<link, phase, lib, todo, back, added, seen, newUndefs,
                 searching, tables, stripping>>

\* File::parse fails.
CannotOpen ==
  /\ AtNode /\ link.nodes[index].end = 0
  /\ link.nodes[index].file \in link.unreadable
  /\ phase' = "failed"
  /\ UNCHANGED <<link, reading, searching, tables, stripping>>

\* (broken) An object keeps its flag on the next pass.
NextObjectStale ==
  /\ AtFile("object")
  /\ LET f == link.nodes[index].file IN
     /\ index' = index + 1
     /\ seen' = seen \cup {f}
     /\ IF f \in seen THEN UNCHANGED <<phase, todo, added>>
        ELSE phase' = "handle" /\ todo' = link.atoms[f] /\ added' = FALSE
  /\ UNCHANGED <<link, lib, back, newUndefs, searching, tables, stripping>>

\* An object: handled when it is met for the first time.
NextObject ==
  /\ AtFile("object")
  /\ LET f == link.nodes[index].file IN
     /\ index' = index + 1
     /\ IF f \in seen
        THEN /\ newUndefs' = [newUndefs EXCEPT ![f] = FALSE]
             /\ UNCHANGED <<phase, todo, added, seen>>
        ELSE /\ seen' = seen \cup {f}
             /\ phase' = "handle" /\ todo' = link.atoms[f] /\ added' = FALSE
             /\ UNCHANGED newUndefs
  /\ UNCHANGED <<link, lib, back, searching, tables, stripping>>

\* A library: an archive is searched, a shared library handled before that.
NextLibrary ==
  /\ AtFile("archive") \/ AtFile("shared")
  /\ LET f == link.nodes[index].file IN
     /\ index' = index + 1
     /\ lib' = f /\ scan' = undefIndex[f] /\ added' = FALSE
     /\ todo' = link.atoms[f]
     /\ phase' = IF link.kind[f] = "shared" THEN "handle" ELSE "undefs"
     /\ back' = "undefs"
  /\ UNCHANGED <<link, seen, newUndefs, tents, taken, undefIndex, tables, stripping>>

NodesDone ==
  /\ phase = "next" /\ index > Len(link.nodes)
  /\ phase' = "refs"
  /\ UNCHANGED <<link, reading, searching, tables, stripping>>
-----------------------------------------------------------------------------
(* Resolver::handleFile: one action per kind of atom.                      *)

Handling(a) == phase = "handle" /\ todo # <<>> /\ a = Head(todo)

\* What adding an atom ends in: the next one, or a fatal error.
Added(a, rest) ==
  /\ IF AddFails(symtab, a)
     THEN phase' = "fatal" /\ UNCHANGED symtab
     ELSE symtab' = Add(symtab, a) /\ UNCHANGED phase
  /\ atoms' = atoms \cup {a}
  /\ todo' = rest

IsChild(a) == \E p \in DOMAIN link.atom : <<"groupChild", a>> \in link.atom[p].refs

\* doDefinedAtom, and the children maybeAddSectionGroupOrGnuLinkOnce adds.
DoDefinedAtom ==
  \E a \in DOMAIN link.atom :
    /\ Handling(a) /\ Is(a, "regular") /\ link.atom[a].group = "no"
    /\ Added(a, Tail(todo))
    /\ roots' = IF phase' # "fatal" /\ link.deadStrip /\ link.atom[a].never /\ ~IsChild(a)
                THEN roots \cup {a} ELSE roots
    /\ UNCHANGED <<link, index, lib, back, added, seen, newUndefs, searching,
                   undefines, refs, dead, live, pending>>

\* The children of a group's parent, in some order.
Children(a) == SetToSeq({c \in DOMAIN link.atom : <<"groupChild", c>> \in link.atom[a].refs})

\* doDefinedAtom of a group's parent: the first group of a name is chosen, a
\* second one of another type is fatal.
DoGroup ==
  \E a \in DOMAIN link.atom :
    /\ Handling(a) /\ Is(a, "regular") /\ link.atom[a].group # "no"
    /\ atoms' = atoms \cup {a}
    /\ IF Name(a) \notin DOMAIN symtab.groups
       THEN /\ symtab' = [symtab EXCEPT !.groups = Put(@, Name(a), a)]
            /\ todo' = Children(a) \o Tail(todo)
            /\ UNCHANGED phase
       ELSE LET g == symtab.groups[Name(a)] IN
            /\ symtab' = [symtab EXCEPT !.replaced = Put(@, a, g)]
            /\ todo' = Tail(todo)
            /\ phase' = IF link.allowDuplicates \/ link.atom[g].group = link.atom[a].group
                        THEN phase ELSE "fatal"
    /\ roots' = IF phase' # "fatal" /\ link.deadStrip /\ link.atom[a].never
                THEN roots \cup {a} ELSE roots
    /\ UNCHANGED <<link, index, lib, back, added, seen, newUndefs, searching,
                   undefines, refs, dead, live, pending>>

\* doUndefinedAtom: a name that was not in the table is a new undefine; an
\* atom whose name has no definition gives way to its fallback.
DoUndefinedAtom ==
  \E a \in DOMAIN link.atom :
    /\ Handling(a) /\ Is(a, "undefined")
    /\ LET b == link.atom[a].fallback
           New(t, u) == IF t.names[Name(u)] = None THEN <<Name(u)>> ELSE <<>>
           t1 == Add(symtab, a)
           t2 == Add(t1, b)
       IN  /\ added' = (added \/ New(symtab, a) # <<>>)
           /\ IF b # None /\ ~IsDefinedName(t1, Name(a))
              THEN /\ symtab' = [t2 EXCEPT !.replaced = Put(@, a, b)]
                   /\ atoms' = atoms \cup {a, b}
                   /\ undefines' = undefines \o New(symtab, a) \o New(t1, b)
              ELSE /\ symtab' = t1
                   /\ atoms' = atoms \cup {a}
                   /\ undefines' = undefines \o New(symtab, a)
    /\ todo' = Tail(todo)
    /\ UNCHANGED <<link, phase, index, lib, back, seen, newUndefs, searching, stripping>>

\* doSharedLibraryAtom and doAbsoluteAtom.
DoOtherAtom ==
  \E a \in DOMAIN link.atom :
    /\ Handling(a) /\ (Is(a, "sharedLibrary") \/ Is(a, "absolute"))
    /\ Added(a, Tail(todo))
    /\ UNCHANGED <<link, index, lib, back, added, seen, newUndefs, searching,
                   undefines, stripping>>

\* The end of handleFile: back to the library it was called for.
FileDone ==
  /\ phase = "handle" /\ todo = <<>>
  /\ IF lib = None
     THEN /\ phase' = "next"
          /\ newUndefs' = [newUndefs EXCEPT ![link.nodes[index - 1].file] = added]
     ELSE phase' = back /\ UNCHANGED newUndefs
  /\ UNCHANGED <<link, index, lib, todo, back, added, seen, searching, tables, stripping>>
-----------------------------------------------------------------------------
(* Resolver::forEachUndefines with the callbacks of handleArchiveFile and  *)
(* handleSharedLibrary.                                                    *)

\* An atom is in the table for n, undefined, and has not been replaced.
IsUndefinedName(n) ==
  LET a == symtab.names[n]
  IN  a # None /\ Is(a, "undefined") /\ ~IsCoalescedAway(symtab, a)

\* FileArchive::find: the member that defines n, unless it has been returned.
Find(f, n, dataOnly) ==
  LET m == link.toc[f][n]
  IN  IF m \in taken \/ (dataOnly /\ n \notin link.data[f]) THEN None ELSE m

(* The callback: what the library has for a name is handled at once.  A    *)
(* member that cannot be read counts as returned.                          *)
Callback(n, dataOnly) ==
  IF link.kind[lib] = "archive"
  THEN LET m == Find(lib, n, dataOnly) IN
       /\ IF m = None THEN UNCHANGED <<phase, todo, taken>>
          ELSE /\ taken' = taken \cup {m}
               /\ IF m \in link.unreadable THEN UNCHANGED <<phase, todo>>
                  ELSE phase' = "handle" /\ todo' = link.atoms[m]
  ELSE LET s == link.exports[lib][n] IN
       /\ IF s = None THEN UNCHANGED <<phase, todo>>
          ELSE phase' = "handle" /\ todo' = <<s>>
       /\ UNCHANGED taken

\* The next name: skipped if it has been resolved, which is remembered.
NextUndefine ==
  /\ phase = "undefs" /\ scan < Len(undefines)
  /\ LET n == undefines[scan + 1] IN
     /\ scan' = scan + 1
     /\ IF n # None /\ IsUndefinedName(n)
        THEN Callback(n, FALSE) /\ back' = "undefs" /\ UNCHANGED undefines
        ELSE /\ undefines' = [undefines EXCEPT ![scan + 1] = None]
             /\ UNCHANGED <<phase, todo, back, taken>>
  /\ UNCHANGED <<link, index, lib, added, seen, newUndefs, tents, undefIndex,
                 symtab, atoms, stripping>>

\* All names looked at: tentative definitions are next, if archives may
\* override them.
UndefinesDone ==
  /\ phase = "undefs" /\ scan = Len(undefines)
  /\ phase' = "tents"
  /\ tents' = IF link.overrides /\ link.kind[lib] = "archive"
              THEN {n \in Names : IsTentative(symtab, n)} ELSE {}
  /\ UNCHANGED <<link, reading, scan, taken, undefIndex, tables, stripping>>

\* The next tentative definition, in the order of a hash table.
NextTentative ==
  /\ phase = "tents"
  /\ \E n \in tents :
       /\ tents' = tents \ {n}
       /\ IF IsTentative(symtab, n)
          THEN Callback(n, TRUE) /\ back' = "tents"
          ELSE UNCHANGED <<phase, todo, back, taken>>
  /\ UNCHANGED <<link, index, lib, added, seen, newUndefs, scan, undefIndex,
                 tables, stripping>>

\* Members of this library have brought new undefines.
SearchAgain ==
  /\ phase = "tents" /\ tents = {} /\ scan < Len(undefines)
  /\ phase' = "undefs"
  /\ UNCHANGED <<link, reading, searching, tables, stripping>>

\* (broken) What a tentative definition's override refers to is not searched.
LibraryDoneEarly ==
  /\ phase = "tents" /\ tents = {}
  /\ undefIndex' = [undefIndex EXCEPT ![lib] = Len(undefines)]
  /\ newUndefs' = [newUndefs EXCEPT ![lib] = added /\ link.kind[lib] = "archive"]
  /\ phase' = "next" /\ lib' = None /\ scan' = 0
  /\ UNCHANGED <<link, index, todo, back, added, seen, tents, taken, tables, stripping>>

\* The library has been searched for all undefines there are.  What a shared
\* library itself leaves undefined does not count as added.
LibraryDone ==
  /\ phase = "tents" /\ tents = {} /\ scan = Len(undefines)
  /\ undefIndex' = [undefIndex EXCEPT ![lib] = scan]
  /\ newUndefs' = [newUndefs EXCEPT ![lib] = added /\ link.kind[lib] = "archive"]
  /\ phase' = "next" /\ lib' = None /\ scan' = 0
  /\ UNCHANGED <<link, index, todo, back, added, seen, tents, taken, tables, stripping>>
-----------------------------------------------------------------------------
(* The rest of Resolver::resolve.                                          *)

KeptDefined == {a \in atoms : Is(a, "regular")}

\* (broken) A replacement's replacement is not looked for.
NewTargetOnce(r) ==
  <<r[1], IF r[1] # "associate" /\ IsCoalescedAway(symtab, r[2])
          THEN symtab.replaced[r[2]] ELSE r[2]>>

\* What a reference leads to from now on.
NewTarget(r) == IF r[1] = "associate" THEN r ELSE <<r[1], Replacement(symtab, r[2])>>

\* updateReferences.
UpdateReferences ==
  /\ phase = "refs"
  /\ LET of == [a \in KeptDefined |-> link.atom[a].refs]
     IN  /\ refs' = [a \in KeptDefined |-> {NewTarget(r) : r \in of[a]}]
         /\ dead' = {r[2] : r \in {r \in UNION {of[a] : a \in KeptDefined \cap DOMAIN symtab.replaced} :
                                      r[1] = "associate"}}
         /\ phase' = IF \E a \in KeptDefined : \E r \in of[a] :
                          r[1] # "associate" /\ ReplacementLoops(symtab, r[2])
                     THEN "hang" ELSE IF link.deadStrip THEN "mark" ELSE "check"
  /\ pending' = IF link.deadStrip
                THEN roots \cup {a \in atoms : Is(a, "absolute")}
                       \cup {a \in KeptDefined : link.globalsAreRoots /\ link.atom[a].global}
                       \cup {symtab.names[n] : n \in link.rootNames}
                ELSE {}
  /\ UNCHANGED <<link, reading, searching, tables, roots, live>>

\* Atoms whose references keep them together with a.
Referrers(a) == {b \in KeptDefined : \E r \in refs[b] :
                   r[1] \in {"layoutAfter", "groupChild"} /\ r[2] = a}

\* (broken) Marking does not go back from a group's child to its parent.
MarkForward ==
  /\ phase = "mark"
  /\ \E a \in pending :
       /\ live' = live \cup {a}
       /\ pending' = (pending \ {a}) \cup
                       (IF a \in KeptDefined THEN {r[2] : r \in refs[a]} \ live' ELSE {})
  /\ UNCHANGED <<link, phase, reading, searching, tables, roots, refs, dead>>

\* markLive: the order of the recursion is left open.
MarkLive ==
  /\ phase = "mark"
  /\ \E a \in pending :
       /\ live' = live \cup {a}
       /\ pending' = (pending \ {a}) \cup
                       (IF a \in KeptDefined
                        THEN ({r[2] : r \in refs[a]} \cup Referrers(a)) \ live'
                        ELSE {})
  /\ UNCHANGED <<link, phase, reading, searching, tables, roots, refs, dead>>

\* The end of deadStripOptimize.
DeadStripped ==
  /\ phase = "mark" /\ pending = {}
  /\ atoms' = atoms \cap live
  /\ phase' = "check"
  /\ UNCHANGED <<link, reading, searching, symtab, undefines, stripping>>

\* The undefined atoms checkUndefines complains of.
Complaints ==
  {a \in {symtab.names[n] : n \in {n \in Names : IsUndefinedName(n)}} :
     /\ link.deadStrip => a \in live
     /\ link.atom[a].canBeNull = 0
     /\ ~(link.kind[link.atom[a].file] = "shared" /\ link.allowShlibUndefines)}

UndefinesLeft ==
  /\ phase = "check"
  /\ Complaints # {} /\ ~link.allowRemainingUndefines
  /\ phase' = "failed"
  /\ UNCHANGED <<link, reading, searching, tables, stripping>>

\* checkUndefines and removeCoalescedAwayAtoms.
Resolved ==
  /\ phase = "check"
  /\ Complaints = {} \/ link.allowRemainingUndefines
  /\ atoms' = {a \in atoms : ~IsCoalescedAway(symtab, a) /\ a \notin dead}
  /\ phase' = "linked"
  /\ UNCHANGED <<link, reading, searching, symtab, undefines, stripping>>

Stopped == {"linked", "failed", "fatal", "hang"}
Terminated == phase \in Stopped /\ UNCHANGED vars

Next ==
  \/ EndGroup \/ CannotOpen \/ NextObject \/ NextLibrary \/ NodesDone
  \/ DoDefinedAtom \/ DoGroup \/ DoUndefinedAtom \/ DoOtherAtom \/ FileDone
  \/ NextUndefine \/ UndefinesDone \/ NextTentative \/ SearchAgain \/ LibraryDone
  \/ UpdateReferences \/ MarkLive \/ DeadStripped \/ UndefinesLeft \/ Resolved
  \/ Terminated

Spec == Init /\ [][Next]_vars

\* resolve() runs on one thread that never waits.
FairSpec == Spec /\ WF_vars(Next)
-----------------------------------------------------------------------------
(* Properties.                                                             *)

Collecting == phase \in {"next", "handle", "undefs", "tents", "refs"}

\* The symbol table takes a by its name.
IsNamed(a) == Name(a) # None /\ link.atom[a].group = "no"

\* How much an atom's definition of its name counts for.
Class(a) ==
  CASE Is(a, "undefined") -> 0
    [] Is(a, "sharedLibrary") -> 1
    [] Is(a, "absolute") -> 5
    [] Is(a, "regular") ->
         [tentative |-> 2, weak |-> 3, weakAddress |-> 4, no |-> 5,
          sameSize |-> 5, largest |-> 5, content |-> 5][link.atom[a].merge]

\* Of two tentative definitions the larger one is as good, of two undefined
\* atoms the one that can be null less often.
AtLeast(a, b) ==
  \/ Class(a) > Class(b)
  \/ /\ Class(a) = Class(b)
     /\ Class(a) = 0 => link.atom[a].canBeNull <= link.atom[b].canBeNull
     /\ Class(a) = 2 => link.atom[a].size >= link.atom[b].size

\* Definitions that are chosen by size alone can beat any other.
BySize(n) == \E a \in atoms : /\ Name(a) = n /\ Is(a, "regular")
                            /\ link.atom[a].merge \in {"sameSize", "largest"}

\* The atom the table has for a name is the best of all that were added, in
\* whatever order they came (mergeCases, cases).
BestDefinitionWins ==
  Collecting => \A a \in atoms : IsNamed(a) /\ ~BySize(Name(a)) =>
    symtab.names[Name(a)] # None /\ AtLeast(symtab.names[Name(a)], a)

Offers(f, n) == IF link.kind[f] = "archive" THEN Find(f, n, FALSE) # None
                ELSE link.exports[f][n] # None
Libraries == {f \in Files : link.kind[f] # "object"}

\* Resolver.h: "Symbols from index 0 to the start position are already
\* searched before. Searching them again would never succeed."  And a name
\* that is undefined is in the list, it has not been cached as resolved.
SearchedForGood ==
  /\ \A n \in Names : IsUndefinedName(n) => n \in ToSet(undefines)
  /\ \A f \in Libraries \ {lib} : \A i \in 1 .. undefIndex[f] :
       undefines[i] # None /\ IsUndefinedName(undefines[i]) => ~Offers(f, undefines[i])

\* The group that ends at node i.
GroupFiles(i) == {link.nodes[j].file : j \in i - link.nodes[i].end .. i - 1}

\* Resolver::getFile: "If one or more new undefined atom has been added in the
\* last groupSize files, we reiterate over the files."  So that, when the
\* resolver goes on behind a group, its libraries have nothing left to offer;
\* but for what a shared library refers to or an atom falls back to: they do
\* not set the flag of their file.
OwnGroupIsClosed ==
  AtNode /\ link.nodes[index].end > 0 /\ index' = index + 1 =>
    \A n \in Names :
      /\ IsUndefinedName(n)
      /\ \A a \in atoms : Is(a, "undefined") /\ Name(a) = n =>
           /\ link.kind[link.atom[a].file] # "shared"
           /\ \A b \in atoms : link.atom[b].fallback # a
      => \A f \in GroupFiles(index) \cap Libraries : ~Offers(f, n)
OwnGroupsClosed == [][OwnGroupIsClosed]_vars

\* Nothing in the result refers to an atom that was coalesced away, stripped or
\* left behind with its group.
ResultClosed ==
  phase = "linked" => \A a \in KeptDefined : \A r \in refs[a] :
    r[1] # "associate" => r[2] \in atoms

\* design.rst: "the 'group child' members would need to be emitted in the
\* output file iff the group was selected by the resolver."
GroupsWhole ==
  phase = "linked" =>
    \A p \in DOMAIN link.atom : link.atom[p].group # "no" =>
      \A c \in ToSet(Children(p)) :
        /\ p \in atoms => c \in atoms \/ IsCoalescedAway(symtab, c)
        /\ c \in atoms => p \in atoms

\* Groups are gone through a finite number of times, and replacement() returns:
\* the resolver ends.
LinkEnds == <>(phase \in Stopped \ {"hang"})
=============================================================================
