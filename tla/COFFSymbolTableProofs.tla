----------------------- MODULE COFFSymbolTableProofs -----------------------
(***************************************************************************)
(* Proofs about COFFSymbolTable, for links of any number of files with any *)
(* symbols: whatever order they arrive in, the symbol table keeps the best *)
(* body of each name; members that are needed are loaded; defaults are     *)
(* tried; and a link that succeeds leaves nothing undefined.               *)
(***************************************************************************)
EXTENDS COFFSymbolTable, CommonLemmas, SequenceTheorems

BodyOrNone == Bodies \cup {None}

\* Every variable the proofs speak of has its type.
Typed ==
  /\ world \in Worlds /\ running \in BOOLEAN
  /\ symtab \in [Names -> BodyOrNone]
  /\ added \subseteq Bodies /\ IsFiniteSet(added)
  /\ files \in Seq(Files \cup {Compiled}) /\ objQ \in Seq(Objects) /\ arcQ \in Seq(Archives)
  /\ seen \subseteq Objects /\ visited \subseteq Files
  /\ cur \in (Nat \ {0}) \X (Nat \ {0})
  /\ dirs \in Seq(Directives) /\ accum \in Seq(Names)
  /\ exports \in Seq(Names) /\ list \in Seq(Names) /\ pool \subseteq Names
  /\ alts \subseteq Names \X Names
  /\ entry \in BodyOrNone /\ esym \in BodyOrNone
  /\ fresh \in Nat /\ compiled \in Nat /\ lto \in Seq(Bodies)

\* What the phases say of each other: the loop of the driver comes after step(),
\* and bitcode is compiled once, when the loop is over.
Early == {"include", "inputs", "entry", "imageBase"}
Loop == {"entryLoop", "exports", "alternates", "check", "compile"}
Phases ==
  /\ phase \in Early \cup Loop => compiled = 0
  /\ ~running => compiled = 0
  /\ phase \in Loop \cup {"replace"} => running
  /\ phase = "replace" => compiled > 0
  /\ phase = "compile" => BitcodeFiles # {}
  /\ lto # <<>> => phase \in {"replace", "duplicate"}

\* A file is added once, and is one of a kind: a member, named, or compiled.
FilesOnce ==
  /\ \A i, j \in DOMAIN files : files[i] = files[j] => i = j
  /\ ToSet(files) \subseteq visited \cup seen \cup {Compiled}
  /\ seen \subseteq MemberFiles(world) /\ visited \cap MemberFiles(world) = {}
  /\ Compiled \in ToSet(files) => compiled > 0
  /\ ToSet(objQ) \cup ToSet(arcQ) \subseteq ToSet(files)

\* Until step() runs, the files are those of the command line, in its order, and
\* there is no archive to offer anything.
NoLazy == \A n \in Names : ~IsLazy(symtab[n])
Inputs ==
  /\ phase = "include" => files = <<>>
  /\ phase \in {"include", "inputs"} =>
       /\ Len(files) <= Len(world.cmd)
       /\ \A i \in DOMAIN files : files[i] = world.cmd[i]
       /\ NoLazy
  /\ ToSet(world.cmd) \subseteq visited

\* Directives that wait are those of a file.
Asked == \A i \in DOMAIN dirs : \E o \in Objects : dirs[i] \in ToSet(world.dirs[o])

\* Where the bodies come from that are or will be in the symbol table.
Known(b) ==
  /\ b.file \in Objects =>
       b.id \in DOMAIN world.syms[b.file] /\ b = world.syms[b.file][b.id]
  /\ b.file \in Archives => b.kind = "lazy"
  /\ b.kind = "lazy" => b.file \in Archives /\ b.to \in Objects \cap MemberFiles(world)
  /\ b.file = Driver => b.kind \in {"undef", "absolute"}
  /\ b.file \in {Driver, Compiled} => b.to = None
  /\ b.file # Driver => b.file \in ToSet(files)
Origins ==
  /\ \A b \in added \cup ToSet(lto) : Known(b)
  /\ \A b \in ToSet(lto) : b.file = Compiled /\ b.kind \in {"regular", "comdat", "undef"}
  /\ \A a, b \in added \cup ToSet(lto) :
       /\ a.file = Compiled /\ b.file = Compiled /\ a.name = b.name
       /\ IsDefined(a) /\ IsDefined(b)
       => a = b

\* The symbol table holds bodies that were added, under their names.
Backrefs == \A n \in Names : symtab[n] # None => symtab[n] \in Candidates(n)
Chosen ==
  /\ phase \notin {"report"} \cup Ends => Backrefs
  /\ phase = "report" => \A n \in pool : IsUndefined(symtab[n]) /\ symtab[n] \in added
  /\ \A i \in DOMAIN accum : IsLazy(symtab[accum[i]])
  /\ accum # <<>> => phase \in {"archives", "members"}

\* a wins over b for sure.
Others == {"localimport", "thunk", "import", "absolute"}
Before(a, b) == Index(a.file) < Index(b.file)
Larger(a, b) == \/ a.size > b.size
                \/ a.size = b.size /\ Before(a, b)
Beats(a, b) ==
  \/ a.kind = "regular" /\ b.kind \in {"common", "bitcomdat"} \cup Others
  \/ a.kind = "comdat" /\ b.kind \in {"common"} \cup BitcodeKinds \cup Others
  \/ a.kind = "comdat" /\ b.kind = "comdat" /\ Before(a, b)
  \/ a.kind = "common" /\ b.kind \in BitcodeKinds \cup Others
  \/ a.kind = "common" /\ b.kind = "common" /\ Larger(a, b)
  \/ a.kind \in BitcodeKinds /\ b.kind = "bitcomdat"

\* b is chosen, or has lost to the body that is, or is settled elsewhere.
Settled(b) ==
  \/ symtab[b.name] = b
  \/ IsDefined(symtab[b.name]) /\ Beats(symtab[b.name], b)
  \/ SetAside(b)
Best == phase # "duplicate" => \A b \in added : IsDefined(b) => Settled(b)

Inv == Typed /\ Phases /\ FilesOnce /\ Inputs /\ Asked /\ Origins /\ Chosen /\ Best
-----------------------------------------------------------------------------
(* compare().                                                              *)

(* Ranks, for the definitions.                                             *)
LEMMA Ranks ==
  ASSUME NEW b \in Bodies
  PROVE  /\ b.kind \in {"regular", "comdat"} => Rank(b) = 1
         /\ b.kind = "common" => Rank(b) = 2
         /\ b.kind \in Others => Rank(b) \in 3 .. 6
         /\ b.kind \in BitcodeKinds => Rank(b) = 7
         /\ b.kind = "undef" => Rank(b) = 8
         /\ b.kind = "lazy" => Rank(b) = 9
         /\ Rank(b) \in 1 .. 9
<1>1. b.kind \in {"regular", "comdat", "common", "bitcode", "bitcomdat", "undef", "lazy"} \cup Others
  BY DEF Bodies, Kinds, DefinedKinds, BitcodeKinds, Others
<1>2. /\ b.kind \in {"regular", "comdat"} => Rank(b) = 1
      /\ b.kind = "common" => Rank(b) = 2
  BY DEF Rank, BitcodeKinds
<1>3. b.kind = "localimport" => Rank(b) = 3
  BY DEF Rank, BitcodeKinds
<1>4. b.kind = "thunk" => Rank(b) = 4
  BY DEF Rank, BitcodeKinds
<1>5. b.kind = "import" => Rank(b) = 5
  BY DEF Rank, BitcodeKinds
<1>6. b.kind = "absolute" => Rank(b) = 6
  BY DEF Rank, BitcodeKinds
<1>7. b.kind \in BitcodeKinds => Rank(b) = 7
  BY DEF Rank, BitcodeKinds
<1>8. b.kind = "undef" => Rank(b) = 8
  BY DEF Rank, BitcodeKinds
<1>9. b.kind = "lazy" => Rank(b) = 9
  BY DEF Rank, BitcodeKinds
<1> QED BY <1>1, <1>2, <1>3, <1>4, <1>5, <1>6, <1>7, <1>8, <1>9 DEF Others, BitcodeKinds

LEMMA BodyFacts ==
  ASSUME NEW b \in Bodies
  PROVE  /\ b # None /\ b.kind \in Kinds /\ b.name \in Names /\ b.size \in Nat
         /\ IsDefined(b) <=> b.kind \in {"regular", "comdat", "common"} \cup Others \cup BitcodeKinds
         /\ IsUndefined(b) <=> b.kind = "undef"
         /\ IsLazy(b) <=> b.kind = "lazy"
         /\ IsBitcode(b) <=> b.kind \in BitcodeKinds
         /\ IsDefined(b) \/ IsUndefined(b) \/ IsLazy(b)
BY SortAssumption DEF Bodies, Kinds, DefinedKinds, BitcodeKinds, Others, IsDefined, IsUndefined, IsLazy, IsBitcode

LEMMA NotBodies == ~IsDefined(None) /\ ~IsUndefined(None) /\ ~IsLazy(None) /\ ~IsBitcode(None)
BY DEF IsDefined, IsUndefined, IsLazy, IsBitcode

\* Two bodies that compare() tells apart by their files alone.
ByFile(a, b) == \/ a.kind = "comdat" /\ b.kind = "comdat"
                \/ a.kind = "common" /\ b.kind = "common" /\ a.size = b.size

(* compare() of definitions, of which the first is of the smaller kind.    *)
LEMMA OrderedDefinitions ==
  ASSUME NEW a \in Bodies, NEW b \in Bodies, IsDefined(a), IsDefined(b), Rank(a) <= Rank(b)
  PROVE  /\ CompareOrdered(a, b) \subseteq {-1, 0, 1}
         /\ 1 \in CompareOrdered(a, b) <=> Beats(a, b)
         /\ -1 \in CompareOrdered(a, b) => \/ Beats(b, a)
                                           \/ ByFile(a, b) /\ ~Before(a, b)
         /\ a.kind = "regular" => -1 \notin CompareOrdered(a, b)
         /\ Beats(b, a) /\ (ByFile(a, b) => ~Before(a, b)) => -1 \in CompareOrdered(a, b)
<1>1. CASE a.kind \in {"regular", "comdat"}
  <2>1. CASE b.kind \in {"regular", "comdat"}
    BY <1>1, <2>1, Ranks, BodyFacts DEF CompareOrdered, CompareBitcode, Beats, Larger, Before, ByFile, Earlier, Others, BitcodeKinds, IsBitcode
  <2>2. CASE b.kind \in BitcodeKinds
    BY <1>1, <2>2, Ranks, BodyFacts DEF CompareOrdered, CompareBitcode, Beats, ByFile, Others, BitcodeKinds, IsBitcode
  <2>3. CASE b.kind \in {"common"} \cup Others
    BY <1>1, <2>3, Ranks, BodyFacts DEF CompareOrdered, Beats, ByFile, Others, BitcodeKinds, IsBitcode
  <2> QED BY <2>1, <2>2, <2>3, BodyFacts
<1>2. CASE a.kind = "common"
  <2>1. CASE b.kind = "common"
    BY <1>2, <2>1, Ranks, BodyFacts DEF CompareOrdered, Beats, Larger, Before, ByFile, Earlier, Others, BitcodeKinds, IsBitcode
  <2>2. CASE b.kind \in BitcodeKinds
    BY <1>2, <2>2, Ranks, BodyFacts DEF CompareOrdered, CompareBitcode, Beats, ByFile, Others, BitcodeKinds, IsBitcode
  <2>3. CASE b.kind \in Others
    BY <1>2, <2>3, Ranks, BodyFacts DEF CompareOrdered, Beats, ByFile, Others, BitcodeKinds, IsBitcode
  <2> QED BY <1>2, <2>1, <2>2, <2>3, Ranks, BodyFacts
<1>3. CASE a.kind \in Others
  <2>1. CASE b.kind \in BitcodeKinds
    BY <1>3, <2>1, Ranks, BodyFacts DEF CompareOrdered, CompareBitcode, Beats, ByFile, Others, BitcodeKinds, IsBitcode
  <2>2. CASE b.kind \in Others
    BY <1>3, <2>2, Ranks, BodyFacts DEF CompareOrdered, Beats, ByFile, Others, BitcodeKinds, IsBitcode
  <2> QED BY <1>3, <2>1, <2>2, Ranks, BodyFacts
<1>4. CASE a.kind \in BitcodeKinds
  <2>1. b.kind \in BitcodeKinds
    BY <1>4, Ranks, BodyFacts
  <2>2. a.kind \in {"bitcode", "bitcomdat"} /\ b.kind \in {"bitcode", "bitcomdat"}
    BY <1>4, <2>1 DEF BitcodeKinds
  <2>3. CompareOrdered(a, b) = CompareBitcode(a, b) /\ IsBitcode(a)
    BY <1>4, <2>1, BodyFacts DEF CompareOrdered
  <2>4. CASE a.kind = "bitcode"
    <3>1. ASSUME b.kind = "bitcode" PROVE CompareOrdered(a, b) = {0}
      <4>1. ~(a.kind # b.kind)
        BY <2>4, <3>1
      <4> QED BY <2>3, <2>4, <4>1 DEF CompareBitcode
    <3>2. b.kind = "bitcomdat" => CompareOrdered(a, b) = {1}
      BY <2>3, <2>4 DEF CompareBitcode
    <3> QED BY <2>2, <2>4, <3>1, <3>2 DEF Beats, ByFile, Others, BitcodeKinds
  <2>5. CASE a.kind = "bitcomdat"
    BY <2>2, <2>3, <2>5 DEF CompareBitcode, Beats, ByFile, Others, BitcodeKinds
  <2> QED BY <2>2, <2>4, <2>5
<1> QED BY <1>1, <1>2, <1>3, <1>4, BodyFacts

LEMMA ByFileBeats ==
  ASSUME NEW a \in Bodies, NEW b \in Bodies, ByFile(a, b)
  PROVE  ByFile(b, a) /\ (Beats(a, b) <=> Before(a, b))
<1>1. a.size \in Int /\ b.size \in Int
  BY BodyFacts
<1> QED BY <1>1 DEF ByFile, Beats, Larger, Others, BitcodeKinds

(* compare() of two definitions, in either order.                          *)
LEMMA CompareDefinitions ==
  ASSUME NEW a \in Bodies, NEW b \in Bodies, IsDefined(a), IsDefined(b),
         ByFile(a, b) => (Before(a, b) <=> ~Before(b, a))
  PROVE  /\ Compare(a, b) \subseteq {-1, 0, 1}
         /\ 1 \in Compare(a, b) <=> Beats(a, b)
         /\ -1 \in Compare(a, b) <=> Beats(b, a)
         /\ a.kind = "regular" => -1 \notin Compare(a, b)
<1>1. Rank(a) \in Nat /\ Rank(b) \in Nat
  BY Ranks
<1>2. ByFile(a, b) <=> ByFile(b, a)
  BY ByFileBeats
<1>3. CASE Rank(a) <= Rank(b)
  <2>1. Compare(a, b) = CompareOrdered(a, b)
    BY <1>1, <1>3 DEF Compare
  <2> QED BY <1>2, <1>3, <2>1, OrderedDefinitions, ByFileBeats
<1>4. CASE Rank(a) > Rank(b)
  <2>1. Compare(a, b) = {-c : c \in CompareOrdered(b, a)} /\ Rank(b) <= Rank(a)
    BY <1>1, <1>4 DEF Compare
  <2>2. /\ CompareOrdered(b, a) \subseteq {-1, 0, 1}
        /\ 1 \in CompareOrdered(b, a) <=> Beats(b, a)
        /\ -1 \in CompareOrdered(b, a) <=> Beats(a, b)
    BY <1>2, <2>1, OrderedDefinitions, ByFileBeats
  <2>3. a.kind # "regular"
    <3>1. a.kind = "regular" => Rank(a) = 1
      BY Ranks
    <3>2. Rank(b) \in 1 .. 9
      BY Ranks
    <3> QED BY <1>4, <3>1, <3>2
  <2>4. \A c \in {-1, 0, 1} : -c \in Compare(a, b) <=> c \in CompareOrdered(b, a)
    <3>1. \A c, d \in {-1, 0, 1} : -c = -d <=> c = d
      OBVIOUS
    <3> QED BY <2>1, <2>2, <3>1
  <2>5. -1 \in Compare(a, b) <=> 1 \in CompareOrdered(b, a)
    BY <2>4
  <2>6. 1 \in Compare(a, b) <=> -1 \in CompareOrdered(b, a)
    BY <2>4
  <2>7. Compare(a, b) \subseteq {-1, 0, 1}
    BY <2>1, <2>2
  <2> QED BY <2>2, <2>3, <2>5, <2>6, <2>7
<1> QED BY <1>1, <1>3, <1>4

(* Winning carries over, but for one case: a regular symbol wins over a    *)
(* common one and that over bitcode, which conflicts with the regular one. *)
LEMMA BeatsTransitive ==
  ASSUME NEW a \in Bodies, NEW b \in Bodies, NEW c \in Bodies, Beats(a, b), Beats(b, c),
         /\ Before(a, b) /\ Before(b, c)
         /\ a.kind \in {"comdat", "common"} /\ b.kind \in {"comdat", "common"} /\ c.kind \in {"comdat", "common"}
         => Before(a, c)
  PROVE  \/ Beats(a, c)
         \/ a.kind = "regular" /\ b.kind = "common" /\ c.kind = "bitcode"
<1>1. a.size \in Int /\ b.size \in Int /\ c.size \in Int
  BY BodyFacts
<1>2. CASE a.kind = "regular"
  BY <1>1, <1>2 DEF Beats, Larger, Others, BitcodeKinds
<1>3. CASE a.kind = "comdat"
  BY <1>1, <1>3 DEF Beats, Larger, Others, BitcodeKinds
<1>4. CASE a.kind = "common"
  BY <1>1, <1>4 DEF Beats, Larger, Others, BitcodeKinds
<1>5. CASE a.kind \in BitcodeKinds
  BY <1>1, <1>5 DEF Beats, Larger, Others, BitcodeKinds
<1> QED BY <1>2, <1>3, <1>4, <1>5 DEF Beats

-----------------------------------------------------------------------------
(* Files.                                                                  *)

(* InputFile::Index is a file's place in the order in which it was added.  *)
LEMMA IndexIs ==
  ASSUME files \in Seq(Files \cup {Compiled}),
         \A i, j \in DOMAIN files : files[i] = files[j] => i = j,
         NEW i \in DOMAIN files
  PROVE  Index(files[i]) = i
<1>1. DOMAIN files = 1 .. Len(files)
  BY LenProperties
<1> QED BY <1>1 DEF Index

\* The files there are keep their places.
FilesKept == /\ ToSet(files) \subseteq ToSet(files)'
             /\ \A f \in ToSet(files) : Index(f)' = Index(f)

LEMMA IndexInt ==
  ASSUME Typed, FilesOnce, NEW f \in ToSet(files)
  PROVE  Index(f) \in DOMAIN files /\ files[Index(f)] = f /\ Index(f) \in Nat
<1>1. PICK i \in DOMAIN files : f = files[i]
  BY DEF ToSet
<1>2. Index(f) = i
  BY <1>1, IndexIs DEF Typed, FilesOnce
<1>3. DOMAIN files = 1 .. Len(files) /\ Len(files) \in Nat
  BY LenProperties DEF Typed
<1> QED BY <1>1, <1>2, <1>3

LEMMA SameFilesKept ==
  ASSUME files' = files
  PROVE  FilesKept
BY DEF FilesKept, Index, ToSet

(* A file that was not added before comes after the others.                *)
LEMMA AppendFileKeeps ==
  ASSUME Typed, FilesOnce, NEW f \in Files \cup {Compiled}, f \notin ToSet(files), files' = Append(files, f)
  PROVE  /\ files' \in Seq(Files \cup {Compiled})
         /\ \A i, j \in DOMAIN files' : files'[i] = files'[j] => i = j
         /\ ToSet(files)' = ToSet(files) \cup {f}
         /\ FilesKept
         /\ Len(files') = Len(files) + 1 /\ files'[Len(files) + 1] = f
         /\ \A i \in DOMAIN files : i \in DOMAIN files' /\ files'[i] = files[i]
         /\ DOMAIN files' = DOMAIN files \cup {Len(files) + 1}
<1>1. files \in Seq(Files \cup {Compiled})
  BY DEF Typed
<1>2. /\ files' \in Seq(Files \cup {Compiled}) /\ Len(files') = Len(files) + 1 /\ Len(files) \in Nat
      /\ DOMAIN files = 1 .. Len(files) /\ DOMAIN files' = 1 .. Len(files) + 1
      /\ \A i \in DOMAIN files : files'[i] = files[i]
      /\ files'[Len(files) + 1] = f
      /\ ToSet(files)' = ToSet(files) \cup {f}
  BY <1>1, AppendFacts
<1>3. DOMAIN files' = DOMAIN files \cup {Len(files) + 1}
  BY <1>2
<1>4. \A i \in DOMAIN files : files[i] \in ToSet(files)
  BY DEF ToSet
<1>5. \A i, j \in DOMAIN files' : files'[i] = files'[j] => i = j
  BY <1>2, <1>3, <1>4 DEF FilesOnce
<1>6. ASSUME NEW g \in ToSet(files) PROVE Index(g)' = Index(g)
  <2>1. PICK i \in DOMAIN files : g = files[i]
    BY DEF ToSet
  <2>2. Index(g) = i
    BY <2>1, IndexIs, <1>1 DEF FilesOnce
  <2>3. i \in DOMAIN files' /\ files'[i] = g
    BY <2>1, <1>2, <1>3
  <2>4. Index(g)' = i
    BY <2>3, <1>2, <1>5 DEF Index
  <2> QED BY <2>2, <2>4
<1> QED BY <1>2, <1>3, <1>5, <1>6 DEF FilesKept

(* SymbolTable::addFile of a file that was not added before.               *)
LEMMA AddFileKeeps ==
  ASSUME Typed, FilesOnce, NEW f \in Files, f \notin ToSet(files), AddFile(f)
  PROVE  /\ files' \in Seq(Files \cup {Compiled})
         /\ objQ' \in Seq(Objects) /\ arcQ' \in Seq(Archives)
         /\ \A i, j \in DOMAIN files' : files'[i] = files'[j] => i = j
         /\ ToSet(files)' = ToSet(files) \cup {f}
         /\ ToSet(objQ)' \cup ToSet(arcQ)' \subseteq ToSet(files)'
         /\ FilesKept
         /\ Len(files') = Len(files) + 1 /\ files'[Len(files) + 1] = f
         /\ \A i \in DOMAIN files : i \in DOMAIN files' /\ files'[i] = files[i]
         /\ DOMAIN files' = DOMAIN files \cup {Len(files) + 1}
<1>1. /\ files' \in Seq(Files \cup {Compiled})
      /\ \A i, j \in DOMAIN files' : files'[i] = files'[j] => i = j
      /\ ToSet(files)' = ToSet(files) \cup {f}
      /\ FilesKept
      /\ Len(files') = Len(files) + 1 /\ files'[Len(files) + 1] = f
      /\ \A i \in DOMAIN files : i \in DOMAIN files' /\ files'[i] = files[i]
      /\ DOMAIN files' = DOMAIN files \cup {Len(files) + 1}
  <2>1. files' = Append(files, f) /\ f \in Files \cup {Compiled}
    BY DEF AddFile
  <2> QED BY <2>1, AppendFileKeeps
<1>2. objQ' \in Seq(Objects) /\ ToSet(objQ)' \subseteq ToSet(objQ) \cup {f}
  BY AppendFacts DEF AddFile, Typed
<1>3. arcQ' \in Seq(Archives) /\ ToSet(arcQ)' \subseteq ToSet(arcQ) \cup {f}
  BY AppendFacts DEF AddFile, Typed
<1>4. ToSet(objQ)' \cup ToSet(arcQ)' \subseteq ToSet(files)'
  BY <1>1, <1>2, <1>3 DEF FilesOnce
<1> QED BY <1>1, <1>2, <1>3, <1>4

(* SymbolTable::addMemberFile of a lazy symbol of the table.               *)
LEMMA AddMemberKeeps ==
  ASSUME Typed, FilesOnce, Origins, NEW lazy \in added \cup {None}, lazy = None \/ IsLazy(lazy),
         AddMemberFile(lazy), UNCHANGED <<world, visited, compiled>>
  PROVE  /\ files' \in Seq(Files \cup {Compiled})
         /\ objQ' \in Seq(Objects) /\ arcQ' \in Seq(Archives) /\ seen' \subseteq Objects
         /\ FilesOnce' /\ FilesKept
         /\ lazy = None => UNCHANGED queues
<1>1. CASE lazy = None \/ lazy.to \in seen
  BY <1>1, SameFilesKept DEF AddMemberFile, queues, Typed, FilesOnce, ToSet
<1>2. CASE ~(lazy = None \/ lazy.to \in seen)
  <2>1. lazy.to \in Objects \cap MemberFiles(world) /\ AddFile(lazy.to) /\ seen' = seen \cup {lazy.to}
    BY <1>2 DEF AddMemberFile, Origins, Known, IsLazy
  <2>2. lazy.to \in Files /\ lazy.to # Compiled
    BY <2>1, SortAssumption DEF Files
  <2>3. lazy.to \notin ToSet(files)
    BY <1>2, <2>1, <2>2 DEF FilesOnce
  <2>4. /\ FilesKept
        /\ files' \in Seq(Files \cup {Compiled}) /\ objQ' \in Seq(Objects) /\ arcQ' \in Seq(Archives)
        /\ \A i, j \in DOMAIN files' : files'[i] = files'[j] => i = j
        /\ ToSet(files)' = ToSet(files) \cup {lazy.to}
        /\ ToSet(objQ)' \cup ToSet(arcQ)' \subseteq ToSet(files)'
    BY <2>1, <2>2, <2>3, AddFileKeeps
  <2>5. MemberFiles(world)' = MemberFiles(world)
    BY DEF MemberFiles
  <2>6. ToSet(files)' \subseteq visited' \cup seen' \cup {Compiled}
    BY <2>1, <2>4 DEF FilesOnce
  <2>7. seen' \subseteq MemberFiles(world)' /\ visited' \cap MemberFiles(world)' = {}
    BY <2>1, <2>5 DEF FilesOnce
  <2>8. Compiled \in ToSet(files)' => compiled' > 0
    BY <2>2, <2>4 DEF FilesOnce
  <2>9. FilesOnce'
    BY <2>4, <2>6, <2>7, <2>8 DEF FilesOnce
  <2> QED BY <1>2, <2>1, <2>4, <2>9 DEF Typed
<1> QED BY <1>1, <1>2

-----------------------------------------------------------------------------
(* The symbol table.                                                       *)

(* Two definitions of a name that compare() tells apart by their files are *)
(* of different files.                                                     *)
LEMMA FilesTell ==
  ASSUME Typed, FilesOnce, Origins, NEW a \in added \cup ToSet(lto), NEW b \in Bodies,
         Known(b), b.file = Compiled => b \in added \cup ToSet(lto),
         a.name = b.name, IsDefined(a), IsDefined(b), a # b
  PROVE  ByFile(a, b) => (Before(a, b) <=> ~Before(b, a))
<1> SUFFICES ASSUME ByFile(a, b) PROVE Before(a, b) <=> ~Before(b, a)
  OBVIOUS
<1>1. a \in Bodies /\ Known(a)
  BY TailFacts DEF Typed, Origins, ToSet
<1>2. a.file # Driver /\ b.file # Driver /\ a.file \notin Archives /\ b.file \notin Archives
  BY <1>1 DEF ByFile, Known
<1>3. a.file \in ToSet(files) /\ b.file \in ToSet(files)
  BY <1>1, <1>2 DEF Known
<1>4. a.file # b.file
  <2>1. CASE a.file \in Objects /\ b.file = a.file
    <3>1. /\ a.id \in DOMAIN world.syms[a.file] /\ a = world.syms[a.file][a.id]
          /\ b.id \in DOMAIN world.syms[a.file] /\ b = world.syms[a.file][b.id]
      BY <1>1, <2>1 DEF Known
    <3>2. a.kind \in DefinedKinds /\ b.kind \in DefinedKinds
      BY DEF IsDefined
    <3>3. \A i, j \in DOMAIN world.syms[a.file] :
            /\ world.syms[a.file][i].name = world.syms[a.file][j].name
            /\ world.syms[a.file][i].kind \in DefinedKinds
            /\ world.syms[a.file][j].kind \in DefinedKinds
            => i = j
      BY <2>1, FileAssumption DEF Typed
    <3> QED BY <3>1, <3>2, <3>3
  <2>2. CASE a.file = Compiled /\ b.file = Compiled
    BY <2>2 DEF Origins
  <2>3. a.file \in Objects \cup {Compiled}
    BY <1>1, <1>2 DEF Bodies, Files
  <2> QED BY <2>1, <2>2, <2>3
<1>5. Index(a.file) # Index(b.file) /\ Index(a.file) \in Nat /\ Index(b.file) \in Nat
  BY <1>3, <1>4, IndexInt
<1> QED BY <1>5 DEF Before


LEMMA CompareValues ==
  ASSUME NEW a \in Bodies, NEW b \in Bodies
  PROVE  Compare(a, b) \subseteq {-1, 0, 1}
<1>1. \A c, d \in Bodies : CompareOrdered(c, d) \subseteq {-1, 0, 1}
  <2> TAKE c, d \in Bodies
  <2>1. CompareBitcode(c, d) \subseteq {-1, 0, 1}
    BY DEF CompareBitcode
  <2>2. Earlier(c, d) \subseteq {-1, 0, 1}
    BY DEF Earlier
  <2>3. Rank(c) = Rank(d) => CompareOrdered(c, d) \subseteq {-1, 0, 1}
    BY <2>1, <2>2 DEF CompareOrdered
  <2>4. Rank(c) # Rank(d) => CompareOrdered(c, d) \subseteq {-1, 0, 1}
    BY <2>1, <2>2 DEF CompareOrdered
  <2> QED BY <2>3, <2>4
<1>2. \A c \in {-1, 0, 1} : -c \in {-1, 0, 1}
  OBVIOUS
<1> QED BY <1>1, <1>2 DEF Compare

(* What SymbolTable::addSymbol comes to, for a new body that is not lazy.  *)
LEMMA AddSymbolFacts ==
  ASSUME Typed, NEW new \in Bodies, ~IsLazy(new), NEW r \in AddSymbol(new)
  PROVE  LET old == symtab[new.name]
             put == [symtab EXCEPT ![new.name] = new]
         IN  /\ r.tab \in {symtab, put}
             /\ r.load # None => r.load = old /\ IsLazy(old)
             /\ old = None => r.tab = put
             /\ ~IsDefined(old) /\ IsDefined(new) => r.tab = put
             /\ IsDefined(new) => r.load = None
             /\ IsDefined(old) /\ IsUndefined(new) => r.tab = symtab
             /\ IsDefined(old) =>
                  \/ r.err /\ r.tab = symtab
                  \/ -1 \in Compare(old, new) /\ r.tab = put
                  \/ 1 \in Compare(old, new) /\ r.tab = symtab
<1> DEFINE old == symtab[new.name]
           put == [symtab EXCEPT ![new.name] = new]
<1>1. old \in BodyOrNone
  BY BodyFacts DEF Typed
<1>2. CASE old = None
  BY <1>2, NotBodies DEF AddSymbol, Outcome
<1>3. CASE old # None /\ IsLazy(old)
  <2>1. old \in Bodies /\ ~IsDefined(old)
    BY <1>1, <1>3, BodyFacts DEF BodyOrNone, Bodies, Kinds, IsDefined, IsLazy, DefinedKinds, BitcodeKinds
  <2>2. IsDefined(new) => ~IsUndefined(new)
    BY BodyFacts DEF IsDefined, IsUndefined, DefinedKinds, BitcodeKinds
  <2> QED BY <1>3, <2>1, <2>2 DEF AddSymbol, Outcome
<1>4. CASE old # None /\ ~IsLazy(old)
  <2>1. old \in Bodies
    BY <1>1, <1>4 DEF BodyOrNone
  <2>2. PICK c \in Compare(old, new) : r = Outcome(IF c < 0 THEN put ELSE symtab, None, c = 0)
    BY <1>4 DEF AddSymbol
  <2>3. r.tab = (IF c < 0 THEN put ELSE symtab) /\ r.load = None /\ (r.err <=> c = 0)
    BY <2>2 DEF Outcome
  <2>4. IsUndefined(old) /\ IsDefined(new) => Compare(old, new) = {-1}
    <3> SUFFICES ASSUME IsUndefined(old), IsDefined(new) PROVE Compare(old, new) = {-1}
      OBVIOUS
    <3>1. Rank(old) = 8 /\ Rank(new) \in 1 .. 7 /\ ~IsBitcode(old)
      BY <2>1, Ranks, BodyFacts DEF BitcodeKinds
    <3>2. CompareOrdered(new, old) = {1}
      BY <3>1 DEF CompareOrdered
    <3> QED BY <3>1, <3>2 DEF Compare
  <2>5. IsDefined(old) /\ IsUndefined(new) => Compare(old, new) = {1}
    <3> SUFFICES ASSUME IsDefined(old), IsUndefined(new) PROVE Compare(old, new) = {1}
      OBVIOUS
    <3>1. Rank(new) = 8 /\ Rank(old) \in 1 .. 7 /\ ~IsBitcode(new)
      BY <2>1, Ranks, BodyFacts DEF BitcodeKinds
    <3>2. CompareOrdered(old, new) = {1}
      BY <3>1 DEF CompareOrdered
    <3> QED BY <3>1, <3>2 DEF Compare
  <2>6. c \in {-1, 0, 1}
    BY <2>1, CompareValues
  <2> QED BY <1>4, <2>1, <2>2, <2>3, <2>4, <2>5, <2>6, BodyFacts
<1> QED BY <1>2, <1>3, <1>4

\* compare() may ask for the place of the body's file.
HasFile(b) == b.kind \in {"comdat", "common"} => b.file \in ToSet(files)

LEMMA BeatsKept ==
  ASSUME FilesKept, NEW a \in Bodies, NEW b \in Bodies, HasFile(a), HasFile(b)
  PROVE  Beats(a, b)' <=> Beats(a, b)
<1>1. a.kind \in {"comdat", "common"} /\ b.kind \in {"comdat", "common"} =>
        (Before(a, b)' <=> Before(a, b))
  BY DEF FilesKept, HasFile, Before
<1> QED BY <1>1 DEF Beats, Larger

LEMMA AddedHaveFiles ==
  ASSUME Typed, Origins, NEW b \in added \cup ToSet(lto)
  PROVE  HasFile(b) /\ b \in Bodies
<1>1. b \in Bodies
  BY LenProperties DEF Typed, ToSet
<1>2. HasFile(b)
  BY DEF Origins, Known, HasFile
<1> QED BY <1>1, <1>2

(* What a step must do to keep the table at its best: where it replaces a  *)
(* definition, the new one wins over it, and what it adds is settled.      *)
LEMMA Improves ==
  ASSUME Typed, FilesOnce, Origins, Backrefs, Best, phase # "duplicate", FilesKept,
         added \subseteq added', compiled > 0 => compiled' > 0,
         \A n \in Names :
           \/ symtab'[n] = symtab[n]
           \/ ~IsDefined(symtab[n])
           \/ /\ symtab'[n] \in Bodies /\ IsDefined(symtab'[n])
              /\ HasFile(symtab'[n]) /\ Beats(symtab'[n], symtab[n])
           \/ IsBitcode(symtab[n]) /\ compiled' > 0,
         \A b \in added' \ added : IsDefined(b) => Settled(b)'
  PROVE  \A b \in added' : IsDefined(b) => Settled(b)'
<1> SUFFICES ASSUME NEW b \in added, IsDefined(b) PROVE Settled(b)'
  OBVIOUS
<1>1. b \in Bodies /\ b.name \in Names /\ HasFile(b)
  BY AddedHaveFiles, BodyFacts
<1>2. Settled(b)
  BY DEF Best
<1>3. PICK old \in BodyOrNone : old = symtab[b.name]
  BY <1>1 DEF Typed
<1>4. PICK win : win = symtab'[b.name]
  OBVIOUS
<1>5. \/ win = old
      \/ ~IsDefined(old)
      \/ win \in Bodies /\ IsDefined(win) /\ HasFile(win) /\ Beats(win, old)
      \/ IsBitcode(old) /\ compiled' > 0
  BY <1>1, <1>3, <1>4
<1>6. IsDefined(old) => old \in added /\ old.name = b.name /\ old \in Bodies /\ HasFile(old)
  BY <1>1, <1>3, AddedHaveFiles DEF Backrefs, Candidates, IsDefined
<1>7. \A c \in Candidates(b.name) : c \in Candidates(b.name)'
  BY DEF Candidates
<1>8. CASE SetAside(b)
  <2>1. CASE \/ IsBitcode(b) /\ compiled > 0
             \/ b.file = Compiled /\ \E c \in Candidates(b.name) : IsLazy(c)
             \/ b.file = Driver
    BY <2>1, <1>7 DEF Settled, SetAside
  <2>2. CASE /\ b.kind = "bitcode" /\ old # None /\ old.kind = "regular"
             /\ \E c \in Candidates(b.name) : c.kind = "common"
    <3>1. IsDefined(old) /\ ~IsBitcode(old)
      BY <2>2 DEF IsDefined, DefinedKinds, IsBitcode, BitcodeKinds
    <3>2. ~Beats(win, old)
      BY <2>2 DEF Beats, Others, BitcodeKinds
    <3>3. win = old
      BY <1>5, <3>1, <3>2
    <3> QED BY <1>4, <1>7, <2>2, <3>3 DEF Settled, SetAside
  <2> QED BY <1>8, <1>3, <2>1, <2>2 DEF SetAside
<1>9. CASE old = b
  BY <1>4, <1>5, <1>6, <1>9, BeatsKept, <1>1 DEF Settled, SetAside
<1>10. CASE IsDefined(old) /\ Beats(old, b)
  <2>1. CASE win = old
    <3>1. Beats(old, b)'
      BY <1>1, <1>6, <1>10, BeatsKept
    <3> QED BY <1>4, <1>10, <2>1, <3>1 DEF Settled
  <2>2. CASE win \in Bodies /\ IsDefined(win) /\ HasFile(win) /\ Beats(win, old)
    <3>1. Before(win, old) /\ Before(old, b) /\ win.kind \in {"comdat", "common"} /\ old.kind \in {"comdat", "common"}
             /\ b.kind \in {"comdat", "common"} => Before(win, b)
      BY <1>1, <1>6, <1>10, <2>2, IndexInt DEF Before, HasFile
    <3>2. \/ Beats(win, b)
          \/ win.kind = "regular" /\ old.kind = "common" /\ b.kind = "bitcode"
      BY <1>1, <1>6, <1>10, <2>2, <3>1, BeatsTransitive
    <3>3. CASE Beats(win, b)
      BY <1>1, <1>4, <2>2, <3>3, BeatsKept DEF Settled
    <3>4. CASE win.kind = "regular" /\ old.kind = "common" /\ b.kind = "bitcode"
      <4>1. old \in Candidates(b.name)' /\ win # None
        BY <1>6, <1>7, <1>10, <2>2, BodyFacts DEF Candidates
      <4> QED BY <1>4, <3>4, <4>1 DEF Settled, SetAside
    <3> QED BY <3>2, <3>3, <3>4
  <2>3. CASE IsBitcode(old) /\ compiled' > 0
    <3>1. IsBitcode(b)
      BY <1>1, <1>10, <2>3, BodyFacts DEF Beats, Others, BitcodeKinds, IsBitcode
    <3> QED BY <2>3, <3>1 DEF Settled, SetAside
  <2> QED BY <1>5, <1>10, <2>1, <2>2, <2>3
<1> QED BY <1>2, <1>3, <1>8, <1>9, <1>10 DEF Settled

(* A step that adds symbol new, of a file or of the driver.                *)
LEMMA Insertion ==
  ASSUME Inv, NEW new \in Bodies, ~IsLazy(new), new.file # Compiled, Known(new),
         NEW r \in AddSymbol(new), phase \notin {"report"} \cup Ends,
         symtab' = r.tab, added' = added \cup {new}, AddMemberFile(r.load),
         UNCHANGED <<world, visited, lto, compiled>>,
         r.err /\ IsDefined(new) /\ new.file # Driver => phase' = "duplicate"
  PROVE  /\ symtab' \in [Names -> BodyOrNone]
         /\ added' \subseteq Bodies /\ IsFiniteSet(added')
         /\ files' \in Seq(Files \cup {Compiled})
         /\ objQ' \in Seq(Objects) /\ arcQ' \in Seq(Archives) /\ seen' \subseteq Objects
         /\ FilesOnce' /\ Origins' /\ Backrefs' /\ Best'
         /\ NoLazy => NoLazy' /\ UNCHANGED queues
<1> DEFINE n == new.name
<1>0. Typed /\ FilesOnce /\ Origins /\ Backrefs /\ Best /\ phase # "duplicate"
  BY DEF Inv, Chosen, Ends
<1> PICK old \in BodyOrNone : old = symtab[n]
  BY <1>0, BodyFacts DEF Typed
<1> PICK put : put = [symtab EXCEPT ![n] = new]
  OBVIOUS
<1>1. /\ r.tab \in {symtab, put}
      /\ r.load # None => r.load = old /\ IsLazy(old)
      /\ old = None => r.tab = put
      /\ ~IsDefined(old) /\ IsDefined(new) => r.tab = put
      /\ IsDefined(old) /\ IsUndefined(new) => r.tab = symtab
      /\ IsDefined(old) =>
           \/ r.err /\ r.tab = symtab
           \/ -1 \in Compare(old, new) /\ r.tab = put
           \/ 1 \in Compare(old, new) /\ r.tab = symtab
  BY <1>0, AddSymbolFacts
<1>2. n \in Names /\ new # None /\ (IsDefined(new) \/ IsUndefined(new))
  BY BodyFacts
<1>3. old # None => old \in added /\ old.name = n /\ old \in Bodies
  BY <1>0, <1>2 DEF Backrefs, Candidates, BodyOrNone
<1>4. /\ put \in [Names -> BodyOrNone] /\ put[n] = new
      /\ \A m \in Names \ {n} : put[m] = symtab[m]
  BY <1>0, <1>2 DEF Typed, BodyOrNone
<1>5. added' \subseteq Bodies /\ IsFiniteSet(added')
  BY <1>0, FS_AddElement DEF Typed
<1>6. symtab' \in [Names -> BodyOrNone]
  BY <1>0, <1>1, <1>4 DEF Typed
<1>7. /\ files' \in Seq(Files \cup {Compiled})
      /\ objQ' \in Seq(Objects) /\ arcQ' \in Seq(Archives) /\ seen' \subseteq Objects
      /\ FilesOnce' /\ FilesKept
      /\ r.load = None => UNCHANGED queues
  BY <1>0, <1>1, <1>3, AddMemberKeeps, NotBodies
<1>8. Origins'
  <2>1. \A b \in added \cup ToSet(lto) \cup {new} : Known(b)'
    BY <1>0, <1>7 DEF Origins, Known, FilesKept, MemberFiles
  <2> QED BY <1>0, <2>1 DEF Origins, ToSet
<1>9. Backrefs'
  <2>1. \A m \in Names : symtab'[m] # None => symtab'[m] \in added' /\ symtab'[m].name = m
    BY <1>0, <1>1, <1>2, <1>4 DEF Backrefs, Candidates
  <2> QED BY <2>1 DEF Backrefs, Candidates
<1>10. NoLazy => NoLazy' /\ UNCHANGED queues
  BY <1>1, <1>2, <1>4, <1>7 DEF NoLazy
<1>11. ASSUME IsDefined(old), IsDefined(new), old # new
       PROVE  /\ 1 \in Compare(old, new) <=> Beats(old, new)
              /\ -1 \in Compare(old, new) <=> Beats(new, old)
  BY <1>0, <1>3, <1>11, FilesTell, CompareDefinitions, NotBodies
<1>12. HasFile(new)
  BY DEF Known, HasFile
<1>13. IsDefined(old) => HasFile(old)
  BY <1>0, <1>3, AddedHaveFiles, NotBodies
<1>14. ASSUME NEW m \in Names
       PROVE  \/ symtab'[m] = symtab[m]
              \/ ~IsDefined(symtab[m])
              \/ /\ symtab'[m] \in Bodies /\ IsDefined(symtab'[m])
                 /\ HasFile(symtab'[m]) /\ Beats(symtab'[m], symtab[m])
  <2> SUFFICES ASSUME symtab'[m] # symtab[m], IsDefined(symtab[m])
               PROVE  /\ symtab'[m] \in Bodies /\ IsDefined(symtab'[m])
                      /\ HasFile(symtab'[m]) /\ Beats(symtab'[m], symtab[m])
    OBVIOUS
  <2>1. m = n /\ r.tab = put /\ old # new /\ symtab'[m] = new /\ r.tab # symtab
    BY <1>1, <1>4
  <2>2. IsDefined(new)
    BY <1>1, <1>2, <2>1
  <2> QED BY <1>1, <1>11, <1>12, <2>1, <2>2
<1>15. ASSUME IsDefined(new), phase' # "duplicate" PROVE Settled(new)'
  <2>1. CASE symtab'[n] = new
    BY <2>1 DEF Settled
  <2>2. CASE symtab'[n] # new
    <3>1. IsDefined(old) /\ old # new /\ r.tab = symtab /\ symtab'[n] = old
      BY <1>1, <1>4, <1>15, <2>2
    <3>2. CASE 1 \in Compare(old, new)
      <4>1. Beats(old, new)'
        BY <1>3, <1>7, <1>11, <1>12, <1>13, <1>15, <3>1, <3>2, BeatsKept, NotBodies
      <4> QED BY <3>1, <4>1 DEF Settled
    <3>3. CASE r.err
      <4>1. new.file = Driver
        BY <1>15, <3>3
      <4> QED BY <4>1 DEF Settled, SetAside
    <3>4. r.tab = put => r.tab # symtab
      BY <1>4, <2>2
    <3> QED BY <1>1, <3>1, <3>2, <3>3, <3>4
  <2> QED BY <2>1, <2>2
<1>16. Best'
  <2> SUFFICES ASSUME phase' # "duplicate" PROVE \A b \in added' : IsDefined(b) => Settled(b)'
    BY DEF Best
  <2>1. \A b \in added' \ added : IsDefined(b) => Settled(b)'
    BY <1>15
  <2> QED BY <1>0, <1>7, <1>14, <2>1, Improves
<1> QED BY <1>5, <1>6, <1>7, <1>8, <1>9, <1>10, <1>16

-----------------------------------------------------------------------------
(* Steps that leave the table and the files alone.                         *)

LEMMA Quiet ==
  ASSUME Inv, UNCHANGED <<world, symtab, added, queues, visited, lto, compiled>>
  PROVE  /\ FilesOnce' /\ Origins' /\ (Backrefs => Backrefs') /\ (NoLazy => NoLazy')
         /\ (phase # "duplicate" => Best')
<1>1. MemberFiles(world)' = MemberFiles(world) /\ ToSet(files)' = ToSet(files)
  BY DEF queues
<1>2. FilesOnce'
  BY <1>1 DEF Inv, FilesOnce, queues, ToSet
<1>3. Origins'
  BY <1>1 DEF Inv, Origins, Known, ToSet
<1>4. Backrefs => Backrefs'
  BY DEF Backrefs, Candidates
<1>5. NoLazy => NoLazy'
  BY DEF NoLazy
<1>6. ASSUME phase # "duplicate" PROVE Best'
  <2>1. files' = files
    BY DEF queues
  <2> SUFFICES ASSUME NEW b \in added, IsDefined(b) PROVE Settled(b)'
    BY DEF Best
  <2>2. Settled(b)
    BY <1>6 DEF Inv, Best
  <2>3. ASSUME NEW a PROVE Beats(a, b)' <=> Beats(a, b)
    BY <2>1 DEF Beats, Larger, Before, Index
  <2>4. SetAside(b)' <=> SetAside(b)
    BY DEF SetAside, Candidates
  <2> QED BY <2>2, <2>3, <2>4 DEF Settled
<1> QED BY <1>2, <1>3, <1>4, <1>5, <1>6

LEMMA RunOrLeaveIs == RunOrLeave \in {"objects", "late", "entryLoop"}
BY DEF RunOrLeave

LEMMA SimpleDone ==
  ASSUME Inv, IncludeDone \/ InputsDone \/ DirectivesDone \/ StepDone \/ RoundDone \/ ReplaceDone \/ ReportDone
  PROVE  Inv'
<1>1. /\ UNCHANGED <<world, running, table, alias, queues, reading, config, loops, bitcode>>
      /\ phase \notin Ends
  BY DEF IncludeDone, InputsDone, DirectivesDone, StepDone, RoundDone, ReplaceDone, ReportDone, Ends
<1>2. /\ FilesOnce' /\ Origins' /\ (Backrefs => Backrefs') /\ (NoLazy => NoLazy') /\ Best'
  BY <1>1, Quiet DEF table, bitcode, config, Ends
<1>3. phase' \notin {"report", "include", "imageBase", "compile", "replace"}
  BY RunOrLeaveIs DEF IncludeDone, InputsDone, DirectivesDone, StepDone, RoundDone, ReplaceDone, ReportDone
<1>4. Typed'
  BY <1>1, <1>3 DEF Inv, Typed, table, queues, reading, config, loops, bitcode
<1>5. Phases'
  <2>1. compiled \in Nat
    BY DEF Inv, Typed
  <2>2. phase' \in Early \cup Loop => compiled = 0
    BY <2>1, RunOrLeaveIs DEF Inv, Phases, Early, Loop, IncludeDone, InputsDone, DirectivesDone, StepDone, RoundDone, ReplaceDone, ReportDone, RunOrLeave
  <2>3. phase' \in Loop => running
    BY <2>1, RunOrLeaveIs DEF Inv, Phases, Early, Loop, IncludeDone, InputsDone, DirectivesDone, StepDone, RoundDone, ReplaceDone, ReportDone, RunOrLeave
  <2>4. lto # <<>> => phase' \in {"replace", "duplicate"}
    BY DEF Inv, Phases, IncludeDone, InputsDone, DirectivesDone, StepDone, RoundDone, ReplaceDone, ReportDone
  <2> QED BY <1>1, <1>3, <2>2, <2>3, <2>4 DEF Inv, Phases, bitcode
<1>6. Inputs'
  <2>1. phase' = "inputs" => phase = "include"
    BY RunOrLeaveIs DEF IncludeDone, InputsDone, DirectivesDone, StepDone, RoundDone, ReplaceDone, ReportDone
  <2> QED BY <1>1, <1>2, <1>3, <2>1 DEF Inv, Inputs, queues, config, ToSet
<1>7. Asked'
  BY <1>1 DEF Inv, Asked, reading, ToSet
<1>8. Chosen'
  <2>1. phase' \notin {"report"} \cup Ends => Backrefs'
    BY <1>1, <1>2 DEF Inv, Chosen, IncludeDone, InputsDone, DirectivesDone, StepDone, RoundDone, ReplaceDone, ReportDone, Ends
  <2>2. accum # <<>> => phase' \in {"archives", "members"}
    BY DEF Inv, Chosen, IncludeDone, InputsDone, DirectivesDone, StepDone, RoundDone, ReplaceDone, ReportDone
  <2> QED BY <1>1, <1>3, <2>1, <2>2 DEF Inv, Chosen, reading, table
<1> QED BY <1>2, <1>4, <1>5, <1>6, <1>7, <1>8 DEF Inv

\* What most steps leave as it is.
LEMMA PhaseKept ==
  ASSUME Inv, UNCHANGED <<world, phase, running, files, lto, compiled>>
  PROVE  Phases'
BY DEF Inv, Phases, BitcodeFiles, ToSet

LEMMA InputsKept ==
  ASSUME Inv, phase \notin {"include", "inputs"}, phase' \notin {"include", "inputs"},
         UNCHANGED world, visited \subseteq visited'
  PROVE  Inputs'
BY DEF Inv, Inputs, ToSet

(* A directive comes from a file and has what its option needs.            *)
LEMMA NextDirectiveFacts ==
  ASSUME Inv, dirs # <<>>
  PROVE  LET d == Head(dirs) IN
         /\ d \in Directives
         /\ d.opt = "defaultlib" => d.file \in Files \cap Libraries(world)
         /\ d.opt # "defaultlib" => d.from \in Names
         /\ d.opt = "alternatename" => d.to \in Names
         /\ Tail(dirs) \in Seq(Directives)
         /\ \A i \in DOMAIN Tail(dirs) : \E o \in Objects : Tail(dirs)[i] \in ToSet(world.dirs[o])
<1> DEFINE d == Head(dirs)
<1>1. /\ d \in ToSet(dirs) /\ d \in Directives /\ Tail(dirs) \in Seq(Directives)
      /\ ToSet(Tail(dirs)) \subseteq ToSet(dirs)
  BY TailFacts DEF Inv, Typed
<1>2. \A x \in ToSet(dirs) : \E o \in Objects : x \in ToSet(world.dirs[o])
  BY DEF Inv, Asked, ToSet
<1>3. PICK o \in Objects : d \in ToSet(world.dirs[o])
  BY <1>1, <1>2
<1>4. PICK i \in DOMAIN world.dirs[o] : d = world.dirs[o][i]
  BY <1>3 DEF ToSet
<1>5. IF d.opt = "defaultlib" THEN d.file \in Files
      ELSE d.from \in Names /\ (d.opt = "alternatename" => d.to \in Names)
  BY <1>4, FileAssumption DEF Inv, Typed
<1>6. d.file \in Libraries(world)
  BY <1>4 DEF Libraries
<1>7. \A j \in DOMAIN Tail(dirs) : Tail(dirs)[j] \in ToSet(Tail(dirs))
  BY DEF ToSet
<1>8. \A j \in DOMAIN Tail(dirs) : \E p \in Objects : Tail(dirs)[j] \in ToSet(world.dirs[p])
  BY <1>1, <1>2, <1>7
<1> QED BY <1>1, <1>5, <1>6, <1>8

LEMMA NextObjectInv ==
  ASSUME Inv, NextObject
  PROVE  Inv'
<1>1. PICK f : f = objQ[cur[1]]
  OBVIOUS
<1>2. cur[1] \in Nat \ {0} /\ cur[1] <= Len(objQ) /\ f \in Objects
  BY <1>1, LenProperties DEF Inv, Typed, NextObject
<1>3. world.dirs[f] \in Seq(Directives) /\ dirs' = dirs \o world.dirs[f] /\ dirs \in Seq(Directives)
  BY <1>1, <1>2, WorldAssumption DEF Inv, Typed, NextObject
<1>4. dirs' \in Seq(Directives) /\ \A i \in DOMAIN dirs' : dirs'[i] \in ToSet(dirs) \cup ToSet(world.dirs[f])
  BY <1>3, ConcatFacts
<1>5. Asked'
  <2>1. \A x \in ToSet(dirs) : \E o \in Objects : x \in ToSet(world.dirs[o])
    BY DEF Inv, Asked, ToSet
  <2> QED BY <1>2, <1>4, <2>1 DEF NextObject, Asked
<1>6. /\ UNCHANGED <<world, phase, running, table, alias, queues, accum, config, loops, bitcode>>
      /\ cur' = <<cur[1] + 1, 1>> /\ phase = "objects"
  BY DEF NextObject
<1>7. Typed'
  BY <1>2, <1>4, <1>6 DEF Inv, Typed, table, queues, config, loops, bitcode
<1>8. FilesOnce' /\ Origins' /\ (Backrefs => Backrefs') /\ (NoLazy => NoLazy') /\ Best'
  BY <1>6, Quiet DEF table, bitcode, config
<1>9. Phases' /\ Inputs'
  BY <1>6, PhaseKept, InputsKept DEF queues, bitcode, config
<1>10. Chosen'
  BY <1>6, <1>8 DEF Inv, Chosen, table, Ends
<1> QED BY <1>5, <1>7, <1>8, <1>9, <1>10 DEF Inv

LEMMA NextArchiveInv ==
  ASSUME Inv, NextArchive
  PROVE  Inv'
<1>1. /\ UNCHANGED <<world, phase, running, table, alias, queues, dirs, accum, config, loops, bitcode>>
      /\ cur' = <<cur[1] + 1, 1>> /\ phase = "archives"
  BY DEF NextArchive
<1>2. Typed'
  BY <1>1 DEF Inv, Typed, table, queues, config, loops, bitcode
<1>3. FilesOnce' /\ Origins' /\ (Backrefs => Backrefs') /\ (NoLazy => NoLazy') /\ Best'
  BY <1>1, Quiet DEF table, bitcode, config
<1>4. Phases' /\ Inputs'
  BY <1>1, PhaseKept, InputsKept DEF queues, bitcode, config
<1>5. Chosen' /\ Asked'
  BY <1>1, <1>3 DEF Inv, Chosen, table, Ends, Asked, ToSet
<1> QED BY <1>2, <1>3, <1>4, <1>5 DEF Inv

LEMMA AlternateNameInv ==
  ASSUME Inv, AlternateName
  PROVE  Inv'
<1>1. /\ UNCHANGED <<world, running, table, alias, queues, cur, accum, visited, exports, entry, loops, bitcode>>
      /\ phase = "directives" /\ dirs # <<>> /\ dirs' = Tail(dirs) /\ Head(dirs).opt = "alternatename"
      /\ phase' \in {"directives", "conflict"}
      /\ alts' \subseteq alts \cup {<<Head(dirs).from, Head(dirs).to>>}
  BY DEF AlternateName, NextDirective
<1>2. Typed' /\ Asked'
  <2>1. alts' \subseteq Names \X Names
    <3>1. <<Head(dirs).from, Head(dirs).to>> \in Names \X Names
      BY <1>1, NextDirectiveFacts
    <3> QED BY <1>1, <3>1 DEF Inv, Typed
  <2>2. dirs' \in Seq(Directives) /\ Asked'
    BY <1>1, NextDirectiveFacts DEF Asked
  <2> QED BY <1>1, <2>1, <2>2 DEF Inv, Typed, table, queues, loops, bitcode
<1>3. FilesOnce' /\ Origins' /\ (Backrefs => Backrefs') /\ Best'
  BY <1>1, Quiet DEF table, bitcode
<1>4. Phases' /\ Inputs'
  BY <1>1, InputsKept DEF Inv, Phases, Early, Loop, queues, bitcode
<1>5. Chosen'
  BY <1>1, <1>3 DEF Inv, Chosen, table, Ends
<1> QED BY <1>2, <1>3, <1>4, <1>5 DEF Inv

LEMMA ExportDirectiveInv ==
  ASSUME Inv, ExportDirective
  PROVE  Inv'
<1>1. /\ UNCHANGED <<world, phase, running, table, alias, queues, cur, accum, visited, alts, entry, loops, bitcode>>
      /\ phase = "directives" /\ dirs # <<>> /\ dirs' = Tail(dirs) /\ Head(dirs).opt = "export"
      /\ exports' = Append(exports, Head(dirs).from)
  BY DEF ExportDirective, NextDirective
<1>2. exports' \in Seq(Names)
  BY <1>1, NextDirectiveFacts, AppendFacts DEF Inv, Typed
<1>3. Typed' /\ Asked'
  BY <1>1, <1>2, NextDirectiveFacts DEF Inv, Typed, table, queues, loops, bitcode, Asked
<1>4. FilesOnce' /\ Origins' /\ (Backrefs => Backrefs') /\ Best'
  BY <1>1, Quiet DEF table, bitcode
<1>5. Phases' /\ Inputs'
  BY <1>1, PhaseKept, InputsKept DEF queues, bitcode
<1>6. Chosen'
  BY <1>1, <1>4 DEF Inv, Chosen, table, Ends
<1> QED BY <1>3, <1>4, <1>5, <1>6 DEF Inv

LEMMA ExportsDoneInv ==
  ASSUME Inv, ExportsDone
  PROVE  Inv'
<1>1. /\ UNCHANGED <<world, running, table, alias, queues, reading, config, esym, list, undefs, bitcode>>
      /\ phase = "exports" /\ phase' = "alternates" /\ pool' = {p[1] : p \in alts}
  BY DEF ExportsDone
<1>2. Typed' /\ Asked'
  BY <1>1 DEF Inv, Typed, table, queues, config, reading, bitcode, Asked, ToSet
<1>3. FilesOnce' /\ Origins' /\ (Backrefs => Backrefs') /\ Best'
  BY <1>1, Quiet DEF table, bitcode, config
<1>4. Phases' /\ Inputs'
  BY <1>1, InputsKept DEF Inv, Phases, Early, Loop, queues, bitcode, config
<1>5. Chosen'
  BY <1>1, <1>3 DEF Inv, Chosen, table, reading, Ends
<1> QED BY <1>2, <1>3, <1>4, <1>5 DEF Inv

\* The loops over undefined symbols begin with those there are.
LEMMA UndefinesInv ==
  ASSUME Inv, CheckUndefines \/ LateDone
  PROVE  Inv'
<1>1. /\ UNCHANGED <<world, running, table, alias, queues, reading, config, esym, list, bitcode>>
      /\ phase \in {"check", "late"}
      /\ phase' \in {"report", "hang", "undefined", "compile", "lateBitcode"}
      /\ phase' = "report" => pool' = UndefinedNames
      /\ phase' # "report" => pool' = pool
      /\ phase' = "compile" => phase = "check" /\ BitcodeFiles # {}
  BY DEF CheckUndefines, LateDone
<1>2. Typed' /\ Asked'
  BY <1>1 DEF Inv, Typed, table, queues, config, reading, bitcode, Asked, ToSet, UndefinedNames
<1>3. FilesOnce' /\ Origins' /\ (Backrefs => Backrefs') /\ Best'
  BY <1>1, Quiet DEF table, bitcode, config
<1>4. Phases' /\ Inputs'
  BY <1>1, InputsKept DEF Inv, Phases, Early, Loop, queues, bitcode, config, BitcodeFiles, ToSet
<1>5. Chosen'
  <2>1. \A n \in UndefinedNames : IsUndefined(symtab[n]) /\ symtab[n] \in added
    BY <1>1, NotBodies DEF Inv, Chosen, Ends, Backrefs, Candidates, UndefinedNames
  <2> QED BY <1>1, <1>3, <2>1 DEF Inv, Chosen, table, reading, Ends
<1> QED BY <1>2, <1>3, <1>4, <1>5 DEF Inv

-----------------------------------------------------------------------------
(* Steps that add files or go through the queues.                          *)

\* Steps that leave the table alone and may add a file.
LEMMA TableKept ==
  ASSUME Inv, FilesKept, UNCHANGED <<world, symtab, added, lto>>, compiled > 0 => compiled' > 0
  PROVE  /\ Origins' /\ (Backrefs => Backrefs') /\ (NoLazy => NoLazy')
         /\ Backrefs /\ phase # "duplicate" => Best'
<1>1. Origins'
  <2>1. \A b \in added \cup ToSet(lto) : Known(b)'
    BY DEF Inv, Origins, Known, FilesKept, MemberFiles
  <2> QED BY <2>1 DEF Inv, Origins, ToSet
<1>2. (Backrefs => Backrefs') /\ (NoLazy => NoLazy')
  BY DEF Backrefs, Candidates, NoLazy
<1>3. ASSUME Backrefs, phase # "duplicate" PROVE Best'
  <2>1. \A b \in added' : IsDefined(b) => Settled(b)'
    BY <1>3, Improves DEF Inv
  <2> QED BY <2>1 DEF Best
<1> QED BY <1>1, <1>2, <1>3

LEMMA AddInputInv ==
  ASSUME Inv, AddInput
  PROVE  Inv'
<1>1. PICK f : f = world.cmd[Len(files) + 1]
  OBVIOUS
<1>2. /\ phase = "inputs" /\ Len(files) < Len(world.cmd) /\ AddFile(f)
      /\ UNCHANGED <<world, phase, running, table, alias, seen, reading, config, loops, bitcode>>
  BY <1>1 DEF AddInput
<1>3. /\ Typed /\ FilesOnce /\ Inputs
      /\ world \in Worlds /\ world.cmd \in Seq(Files) /\ Len(world.cmd) \in Nat
      /\ DOMAIN world.cmd = 1 .. Len(world.cmd)
      /\ Len(files) \in Nat /\ DOMAIN files = 1 .. Len(files)
  BY WorldAssumption, LenProperties DEF Inv, Typed
<1>4. Len(files) + 1 \in DOMAIN world.cmd /\ f \in Files /\ f \in ToSet(world.cmd)
  BY <1>1, <1>2, <1>3, LenProperties DEF ToSet
<1>5. f \notin ToSet(files)
  <2>1. ASSUME NEW i \in DOMAIN files, files[i] = f PROVE FALSE
    <3>1. world.cmd[i] = world.cmd[Len(files) + 1] /\ i \in DOMAIN world.cmd
      BY <1>1, <1>2, <1>3, <2>1 DEF Inputs
    <3>2. i = Len(files) + 1
      BY <1>3, <1>4, <3>1, FileAssumption
    <3> QED BY <1>3, <3>2
  <2> QED BY <2>1 DEF ToSet
<1>6. /\ files' \in Seq(Files \cup {Compiled})
      /\ objQ' \in Seq(Objects) /\ arcQ' \in Seq(Archives)
      /\ \A i, j \in DOMAIN files' : files'[i] = files'[j] => i = j
      /\ ToSet(files)' = ToSet(files) \cup {f}
      /\ ToSet(objQ)' \cup ToSet(arcQ)' \subseteq ToSet(files)'
      /\ FilesKept
      /\ Len(files') = Len(files) + 1 /\ files'[Len(files) + 1] = f
      /\ \A i \in DOMAIN files : i \in DOMAIN files' /\ files'[i] = files[i]
      /\ DOMAIN files' = DOMAIN files \cup {Len(files) + 1}
  BY <1>2, <1>3, <1>4, <1>5, AddFileKeeps
<1>7. Typed' /\ Asked'
  BY <1>2, <1>6 DEF Inv, Typed, table, config, reading, loops, bitcode, Asked, ToSet
<1>8. FilesOnce'
  <2>1. UNCHANGED <<seen, visited, compiled, world>> /\ f # Compiled /\ f \in visited
    BY <1>2, <1>4, SortAssumption DEF config, bitcode, Inv, Inputs, Files
  <2>2. MemberFiles(world)' = MemberFiles(world)
    BY <2>1
  <2> QED BY <1>3, <1>6, <2>1, <2>2 DEF FilesOnce
<1>9. Origins' /\ (Backrefs => Backrefs') /\ NoLazy' /\ Best'
  <2>1. Backrefs /\ NoLazy
    BY <1>2 DEF Inv, Chosen, Inputs, Ends
  <2> QED BY <1>2, <1>6, <2>1, TableKept DEF table, bitcode
<1>10. Phases'
  BY <1>2 DEF Inv, Phases, bitcode
<1>11. Inputs'
  BY <1>1, <1>2, <1>3, <1>6, <1>9 DEF Inputs, config, ToSet
<1>12. Chosen'
  BY <1>2, <1>9 DEF Inv, Chosen, table, reading, Ends
<1> QED BY <1>7, <1>8, <1>9, <1>10, <1>11, <1>12 DEF Inv

LEMMA DefaultLibInv ==
  ASSUME Inv, DefaultLib
  PROVE  Inv'
<1>1. PICK f : f = Head(dirs).file
  OBVIOUS
<1>2. /\ phase = "directives" /\ dirs # <<>> /\ dirs' = Tail(dirs) /\ Head(dirs).opt = "defaultlib"
      /\ UNCHANGED <<world, phase, running, table, alias, seen, cur, accum, exports, alts, entry, loops, bitcode>>
      /\ IF f \in visited THEN UNCHANGED <<files, objQ, arcQ, visited>>
         ELSE AddFile(f) /\ visited' = visited \cup {f}
  BY <1>1 DEF DefaultLib, NextDirective
<1>3. f \in Files \cap Libraries(world)
  BY <1>1, <1>2, NextDirectiveFacts
<1>4. f \notin MemberFiles(world) /\ f # Compiled
  BY <1>3, FileAssumption, SortAssumption DEF Inv, Typed, Files
<1>5. MemberFiles(world)' = MemberFiles(world)
  BY <1>2
<1>6. /\ files' \in Seq(Files \cup {Compiled})
      /\ objQ' \in Seq(Objects) /\ arcQ' \in Seq(Archives) /\ visited' \subseteq Files
      /\ FilesOnce' /\ FilesKept
  <2>1. CASE f \in visited
    <3>1. UNCHANGED <<files, objQ, arcQ, seen, visited, compiled>>
      BY <1>2, <2>1 DEF bitcode
    <3>2. UNCHANGED <<ToSet(files), ToSet(objQ), ToSet(arcQ)>>
      BY <3>1
    <3>3. FilesOnce'
      BY <1>5, <3>1, <3>2 DEF Inv, FilesOnce
    <3> QED BY <3>1, <3>3, SameFilesKept DEF Inv, Typed
  <2>2. CASE f \notin visited
    <3>1. f \notin ToSet(files)
      BY <1>4, <2>2 DEF Inv, FilesOnce
    <3>2. /\ files' \in Seq(Files \cup {Compiled})
          /\ objQ' \in Seq(Objects) /\ arcQ' \in Seq(Archives)
          /\ \A i, j \in DOMAIN files' : files'[i] = files'[j] => i = j
          /\ ToSet(files)' = ToSet(files) \cup {f}
          /\ ToSet(objQ)' \cup ToSet(arcQ)' \subseteq ToSet(files)'
          /\ FilesKept
      BY <1>2, <1>3, <2>2, <3>1, AddFileKeeps DEF Inv
    <3>3. UNCHANGED <<seen, compiled>> /\ visited' = visited \cup {f}
      BY <1>2, <2>2 DEF bitcode
    <3>4. FilesOnce'
      BY <1>4, <1>5, <3>2, <3>3 DEF Inv, FilesOnce
    <3> QED BY <1>3, <3>2, <3>3, <3>4 DEF Inv, Typed
  <2> QED BY <2>1, <2>2
<1>7. Typed' /\ Asked'
  BY <1>2, <1>6, NextDirectiveFacts DEF Inv, Typed, table, loops, bitcode, Asked
<1>8. Origins' /\ (Backrefs => Backrefs') /\ Best'
  <2>1. Backrefs
    BY <1>2 DEF Inv, Chosen, Ends
  <2> QED BY <1>2, <1>6, <2>1, TableKept DEF table, bitcode
<1>9. Phases'
  BY <1>2 DEF Inv, Phases, bitcode
<1>10. Inputs'
  BY <1>2, InputsKept
<1>11. Chosen'
  BY <1>2, <1>8 DEF Inv, Chosen, table, Ends
<1> QED BY <1>6, <1>7, <1>8, <1>9, <1>10, <1>11 DEF Inv

LEMMA LoadMemberInv ==
  ASSUME Inv, LoadMember
  PROVE  Inv'
<1>1. PICK lazy : lazy = symtab[Head(accum)]
  OBVIOUS
<1>2. /\ phase = "members" /\ accum # <<>> /\ AddMemberFile(lazy) /\ accum' = Tail(accum)
      /\ UNCHANGED <<world, phase, running, table, alias, cur, dirs, config, loops, bitcode>>
  BY <1>1 DEF LoadMember
<1>3. /\ Head(accum) \in ToSet(accum) /\ Head(accum) \in Names /\ Tail(accum) \in Seq(Names)
      /\ ToSet(Tail(accum)) \subseteq ToSet(accum)
  BY <1>2, TailFacts DEF Inv, Typed
<1>4. Backrefs /\ \A n \in ToSet(accum) : IsLazy(symtab[n])
  BY <1>2 DEF Inv, Chosen, Ends, ToSet
<1>5. lazy \in added /\ IsLazy(lazy)
  BY <1>1, <1>3, <1>4 DEF Backrefs, Candidates, IsLazy
<1>6. /\ files' \in Seq(Files \cup {Compiled})
      /\ objQ' \in Seq(Objects) /\ arcQ' \in Seq(Archives) /\ seen' \subseteq Objects
      /\ FilesOnce' /\ FilesKept
  BY <1>2, <1>5, AddMemberKeeps DEF Inv, config, bitcode
<1>7. Typed' /\ Asked'
  BY <1>2, <1>3, <1>6 DEF Inv, Typed, table, config, loops, bitcode, Asked, ToSet
<1>8. Origins' /\ Backrefs' /\ Best'
  BY <1>2, <1>4, <1>6, TableKept DEF table, bitcode
<1>9. Phases'
  BY <1>2 DEF Inv, Phases, bitcode
<1>10. Inputs'
  BY <1>2, InputsKept DEF config
<1>11. Chosen'
  <2>1. \A i \in DOMAIN accum' : accum'[i] \in ToSet(accum)
    BY <1>2, <1>3 DEF ToSet
  <2> QED BY <1>2, <1>4, <1>8, <2>1 DEF Inv, Chosen, table
<1> QED BY <1>6, <1>7, <1>8, <1>9, <1>10, <1>11 DEF Inv

\* The queue has been gone through.
LEMMA QueueDoneInv ==
  ASSUME Inv, ObjectsDone \/ ArchivesDone
  PROVE  Inv'
<1>1. /\ UNCHANGED <<world, running, table, alias, files, seen, dirs, accum, config, loops, bitcode>>
      /\ cur' = <<1, 1>>
      /\ \/ phase = "objects" /\ phase' = "directives"
         \/ phase = "archives" /\ phase' = "members"
      /\ objQ' \in {<<>>, objQ} /\ arcQ' \in {<<>>, arcQ}
  BY DEF ObjectsDone, ArchivesDone
<1>2. objQ' \in Seq(Objects) /\ arcQ' \in Seq(Archives)
  <2>1. <<>> \in Seq(Objects) /\ <<>> \in Seq(Archives)
    BY EmptySeq
  <2> QED BY <1>1, <2>1 DEF Inv, Typed
<1>3. Typed' /\ Asked'
  <2>1. cur' \in (Nat \ {0}) \X (Nat \ {0})
    BY <1>1
  <2>2. Typed'
    BY <1>1, <1>2, <2>1 DEF Inv, Typed, table, config, loops, bitcode
  <2>3. UNCHANGED <<world, dirs>>
    BY <1>1
  <2>4. Asked'
    BY <2>3 DEF Inv, Asked
  <2> QED BY <2>2, <2>4
<1>4. FilesOnce'
  <2>1. ToSet(<<>>) = {}
    BY DEF ToSet
  <2>2. ToSet(objQ)' \cup ToSet(arcQ)' \subseteq ToSet(files)'
    BY <1>1, <2>1 DEF Inv, FilesOnce
  <2>3. UNCHANGED <<visited, compiled, MemberFiles(world), ToSet(files)>>
    BY <1>1 DEF config, bitcode
  <2> QED BY <1>1, <2>2, <2>3 DEF Inv, FilesOnce
<1>5. FilesKept
  BY <1>1, SameFilesKept
<1>6. Origins' /\ Backrefs' /\ Best'
  <2>1. Backrefs /\ phase # "duplicate"
    BY <1>1 DEF Inv, Chosen, Ends
  <2> QED BY <1>1, <1>5, <2>1, TableKept DEF table, bitcode
<1>7. Phases' /\ Inputs'
  BY <1>1, InputsKept DEF Inv, Phases, Early, Loop, bitcode, config
<1>8. Chosen'
  BY <1>1, <1>6 DEF Inv, Chosen, table
<1> QED BY <1>3, <1>4, <1>6, <1>7, <1>8 DEF Inv

-----------------------------------------------------------------------------
(* Steps that add what the driver asks for.                                *)

\* What a step keeps by adding symbols as addSymbol does.
TableSound ==
  /\ symtab \in [Names -> BodyOrNone]
  /\ added \subseteq Bodies /\ IsFiniteSet(added) /\ fresh \in Nat
  /\ files \in Seq(Files \cup {Compiled}) /\ objQ \in Seq(Objects) /\ arcQ \in Seq(Archives)
  /\ seen \subseteq Objects
  /\ FilesOnce /\ Origins /\ Backrefs /\ Best

LEMMA SoundKept ==
  ASSUME Inv, UNCHANGED <<world, table, queues, visited, lto, compiled>>, phase \notin {"report"} \cup Ends
  PROVE  TableSound'
<1>1. FilesOnce' /\ Origins' /\ Backrefs' /\ Best'
  BY Quiet DEF table, Inv, Chosen, Ends
<1> QED BY <1>1 DEF Inv, Typed, TableSound, table, queues

LEMMA Undefining ==
  ASSUME Inv, NEW n \in Names, NEW r \in AddUndefined(n), Install(r), phase \notin {"report"} \cup Ends,
         UNCHANGED <<world, visited, lto, compiled>>
  PROVE  /\ TableSound' /\ r.ret \in Bodies /\ r.ret \in added' /\ IsUndefined(r.ret)
         /\ NoLazy => NoLazy' /\ UNCHANGED queues
<1>1. PICK new : new = DriverBody(n, "undef")
  OBVIOUS
<1>2. PICK q \in AddSymbol(new) :
        r = [tab |-> q.tab, load |-> q.load, new |-> new,
             ret |-> IF IsUndefined(q.tab[n]) THEN q.tab[n] ELSE new]
  BY <1>1 DEF AddUndefined
<1>3. Typed
  BY DEF Inv
<1>4. /\ new \in Bodies /\ new.kind = "undef" /\ new.name = n /\ new.file = Driver /\ new.to = None
  BY <1>1, <1>3, SortAssumption DEF DriverBody, Bodies, Typed, Kinds
<1>5. ~IsLazy(new) /\ ~IsDefined(new)
  BY <1>4, BodyFacts DEF Others, BitcodeKinds
<1>6. Driver \notin Objects /\ Driver \notin Archives /\ Driver # Compiled
  BY SortAssumption DEF Files
<1>7. new.file # Compiled /\ Known(new)
  BY <1>4, <1>6 DEF Known
<1>8. /\ symtab' = q.tab /\ added' = added \cup {new} /\ fresh' = fresh + 1 /\ AddMemberFile(q.load)
  BY <1>2 DEF Install
<1>9. /\ symtab' \in [Names -> BodyOrNone]
      /\ added' \subseteq Bodies /\ IsFiniteSet(added')
      /\ files' \in Seq(Files \cup {Compiled})
      /\ objQ' \in Seq(Objects) /\ arcQ' \in Seq(Archives) /\ seen' \subseteq Objects
      /\ FilesOnce' /\ Origins' /\ Backrefs' /\ Best'
      /\ NoLazy => NoLazy' /\ UNCHANGED queues
  BY <1>4, <1>5, <1>7, <1>8, Insertion
<1>10. fresh' \in Nat
  BY <1>3, <1>8 DEF Typed
<1>11. r.ret \in Bodies /\ r.ret \in added' /\ IsUndefined(r.ret)
  <2>1. IsUndefined(new) /\ new \in added'
    BY <1>4, <1>8, BodyFacts
  <2>2. IsUndefined(q.tab[n]) => q.tab[n] \in Bodies /\ q.tab[n] \in added'
    BY <1>8, <1>9, NotBodies DEF BodyOrNone, Backrefs, Candidates
  <2>3. r.ret = IF IsUndefined(q.tab[n]) THEN q.tab[n] ELSE new
    BY <1>2
  <2> QED BY <1>4, <2>1, <2>2, <2>3
<1> QED BY <1>9, <1>10, <1>11 DEF TableSound

\* mangleMaybe
LEMMA Mangling ==
  ASSUME Inv, NEW u \in Bodies, MangleMaybe(u), phase \notin {"report"} \cup Ends,
         UNCHANGED <<world, visited, lto, compiled>>
  PROVE  TableSound'
<1>1. CASE UNCHANGED <<table, queues>>
  BY <1>1, SoundKept
<1>2. CASE \E m \in Mangled[u.name] : \E r \in AddUndefined(m) : Install(r)
  <2>1. Mangled[u.name] \subseteq Names
    BY SortAssumption, BodyFacts
  <2> QED BY <1>2, <2>1, Undefining
<1> QED BY <1>1, <1>2 DEF MangleMaybe

\* The steps that add such symbols once step() has run, put together.
LEMMA Asking ==
  ASSUME Inv, TableSound', UNCHANGED <<world, running, cur, accum, visited, alts, lto, compiled>>,
         \/ phase \in {"directives", "exports", "alternates"} /\ phase' = phase
         \/ phase = "entry" /\ phase' = "imageBase"
         \/ phase = "entryLoop" /\ phase' = "exports",
         dirs' \in Seq(Directives), Asked',
         exports' \in Seq(Names), list' \in Seq(Names), pool' \subseteq Names,
         entry' \in BodyOrNone, esym' \in BodyOrNone
  PROVE  Inv'
<1>1. Typed'
  BY DEF Inv, Typed, TableSound
<1>2. Phases'
  BY DEF Inv, Phases, Early, Loop
<1>3. Inputs'
  BY InputsKept
<1>4. Chosen'
  BY DEF Inv, Chosen, Ends, TableSound
<1> QED BY <1>1, <1>2, <1>3, <1>4 DEF Inv, TableSound

LEMMA IncludeInv ==
  ASSUME Inv, Include
  PROVE  Inv'
<1>1. /\ phase = "include" /\ list # <<>> /\ list' = Tail(list)
      /\ \E r \in AddUndefined(Head(list)) : Install(r)
      /\ UNCHANGED <<world, phase, running, alias, reading, config, esym, pool, undefs, lto, compiled>>
  BY DEF Include, InstallRoot
<1>2. Head(list) \in Names /\ Tail(list) \in Seq(Names)
  BY <1>1, TailFacts DEF Inv, Typed
<1>3. NoLazy /\ files = <<>>
  BY <1>1 DEF Inv, Inputs
<1>4. TableSound' /\ NoLazy' /\ UNCHANGED queues
  BY <1>1, <1>2, <1>3, Undefining DEF Ends, config
<1>5. Typed'
  BY <1>1, <1>2, <1>4 DEF Inv, Typed, TableSound, reading, config
<1>6. Phases' /\ Asked'
  BY <1>1 DEF Inv, Phases, Asked, reading, ToSet
<1>7. Inputs'
  BY <1>1, <1>4 DEF Inv, Inputs, queues, config, ToSet
<1>8. Chosen'
  BY <1>1, <1>4 DEF Inv, Chosen, Ends, TableSound, reading
<1> QED BY <1>4, <1>5, <1>6, <1>7, <1>8 DEF Inv, TableSound

LEMMA IncludeDirectiveInv ==
  ASSUME Inv, IncludeDirective
  PROVE  Inv'
<1>1. /\ phase = "directives" /\ dirs # <<>> /\ dirs' = Tail(dirs) /\ Head(dirs).opt = "include"
      /\ \E r \in AddUndefined(Head(dirs).from) : Install(r)
      /\ UNCHANGED <<world, phase, running, alias, cur, accum, config, loops, lto, compiled>>
  BY DEF IncludeDirective, NextDirective, InstallRoot
<1>2. Head(dirs).from \in Names /\ dirs' \in Seq(Directives) /\ Asked'
  BY <1>1, NextDirectiveFacts DEF Asked
<1>3. TableSound'
  BY <1>1, <1>2, Undefining DEF Ends, config
<1> QED BY <1>1, <1>2, <1>3, Asking DEF Inv, Typed, config, loops

LEMMA SetEntryInv ==
  ASSUME Inv, SetEntry
  PROVE  Inv'
<1>1. /\ phase = "entry" /\ phase' = "imageBase" /\ exports' = exports \o world.exports
      /\ \/ UNCHANGED <<table, queues, entry>>
         \/ /\ world.entry # None
            /\ \E r \in AddUndefined(world.entry) : Install(r) /\ entry' = r.ret
      /\ UNCHANGED <<world, running, alias, reading, visited, alts, loops, lto, compiled>>
  BY DEF SetEntry, InstallRoot
<1>2. exports' \in Seq(Names)
  BY <1>1, WorldAssumption, ConcatFacts DEF Inv, Typed
<1>3. TableSound' /\ entry' \in BodyOrNone
  <2>1. CASE UNCHANGED <<table, queues, entry>>
    BY <1>1, <2>1, SoundKept DEF Ends, Inv, Typed
  <2>2. CASE world.entry # None /\ \E r \in AddUndefined(world.entry) : Install(r) /\ entry' = r.ret
    <3>1. world.entry \in Names
      BY <2>2, WorldAssumption DEF Inv, Typed
    <3> QED BY <1>1, <2>2, <3>1, Undefining DEF Ends, BodyOrNone
  <2> QED BY <1>1, <2>1, <2>2
<1>4. dirs' \in Seq(Directives) /\ Asked'
  BY <1>1 DEF Inv, Typed, Asked, reading, ToSet
<1> QED BY <1>1, <1>2, <1>3, <1>4, Asking DEF Inv, Typed, reading, loops

\* The three parts of a round of the driver's loop.
LEMMA MangleEntryInv ==
  ASSUME Inv, MangleEntry
  PROVE  Inv'
<1>1. /\ phase = "entryLoop" /\ phase' = "exports" /\ list' = exports
      /\ IF entry = None THEN UNCHANGED <<table, alias, queues>> ELSE MangleMaybe(entry)
      /\ UNCHANGED <<world, running, reading, config, esym, pool, undefs, bitcode>>
  BY DEF MangleEntry
<1>2. UNCHANGED <<world, visited, lto, compiled>>
  BY <1>1 DEF config, bitcode
<1>3. TableSound'
  <2>1. entry # None => entry \in Bodies
    BY DEF Inv, Typed, BodyOrNone
  <2> QED BY <1>1, <1>2, <2>1, SoundKept, Mangling DEF Ends
<1>4. dirs' \in Seq(Directives) /\ Asked'
  BY <1>1 DEF Inv, Typed, Asked, reading, ToSet
<1> QED BY <1>1, <1>3, <1>4, Asking DEF Inv, Typed, reading, config, bitcode

LEMMA ExportInv ==
  ASSUME Inv, ExportUndefined \/ MangleExport
  PROVE  Inv'
<1>1. /\ phase = "exports" /\ phase' = phase /\ list # <<>> /\ list' \in {list, Tail(list)}
      /\ UNCHANGED <<world, running, reading, config, pool, undefs, lto, compiled>>
      /\ \/ \E r \in AddUndefined(Head(list)) : Install(r) /\ esym' = r.ret
         \/ esym # None /\ MangleMaybe(esym) /\ esym' = None
  <2>1. CASE ExportUndefined
    BY <2>1 DEF ExportUndefined, InstallRoot
  <2>2. CASE MangleExport
    BY <2>2 DEF MangleExport, bitcode
  <2> QED BY <2>1, <2>2
<1>2. Head(list) \in Names /\ list' \in Seq(Names)
  <2>1. list \in Seq(Names)
    BY DEF Inv, Typed
  <2>2. Head(list) \in Names /\ Tail(list) \in Seq(Names)
    BY <1>1, <2>1, TailFacts
  <2> QED BY <1>1, <2>1, <2>2
<1>3. TableSound' /\ esym' \in BodyOrNone
  <2>1. esym # None => esym \in Bodies
    BY DEF Inv, Typed, BodyOrNone
  <2> QED BY <1>1, <1>2, <2>1, Undefining, Mangling DEF Ends, BodyOrNone, config
<1>4. dirs' \in Seq(Directives) /\ Asked'
  BY <1>1 DEF Inv, Typed, Asked, reading, ToSet
<1> QED BY <1>1, <1>2, <1>3, <1>4, Asking DEF Inv, Typed, reading, config

\* The names to alias are those of /alternatename options.
Alternates == phase = "alternates" => \A n \in pool : \E p \in alts : p[1] = n

LEMMA TryAlternateInv ==
  ASSUME Inv, Alternates, NEW n \in Names, TryAlternate(n)
  PROVE  Inv'
<1>1. PICK to : to = (CHOOSE p \in alts : p[1] = n)[2]
  OBVIOUS
<1>2. /\ phase = "alternates" /\ phase' = phase /\ pool' = pool \ {n} /\ n \in pool
      /\ UNCHANGED <<world, running, reading, config, esym, list, undefs, bitcode>>
      /\ \/ \E r \in AddUndefined(to) : Install(r)
         \/ UNCHANGED <<table, alias, queues>>
  BY <1>1 DEF TryAlternate
<1>3. to \in Names
  <2>1. \E p \in alts : p[1] = n
    BY <1>2 DEF Alternates
  <2>2. PICK q \in alts : q = CHOOSE p \in alts : p[1] = n
    BY <2>1
  <2>3. q \in Names \X Names
    BY DEF Inv, Typed
  <2> QED BY <1>1, <2>2, <2>3
<1>4. UNCHANGED <<world, visited, lto, compiled>>
  BY <1>2 DEF config, bitcode
<1>5. TableSound'
  BY <1>2, <1>3, <1>4, Undefining, SoundKept DEF Ends
<1>6. dirs' \in Seq(Directives) /\ Asked'
  BY <1>2 DEF Inv, Typed, Asked, reading, ToSet
<1> QED BY <1>2, <1>5, <1>6, Asking DEF Inv, Typed, reading, config, bitcode

(* The step that adds a symbol of an object file.                          *)
LEMMA ReadSymbolInv ==
  ASSUME Inv, ReadSymbol
  PROVE  Inv'
<1>1. PICK f, i, new : f = objQ[cur[1]] /\ i = cur[2] /\ new = world.syms[f][i]
  OBVIOUS
<1>2. /\ phase = "objects" /\ cur[1] <= Len(objQ) /\ i <= Len(world.syms[f])
      /\ \E r \in AddSymbol(new) :
           /\ symtab' = r.tab /\ AddMemberFile(r.load)
           /\ phase' = IF r.err THEN "duplicate" ELSE phase
      /\ added' = added \cup {new}
      /\ cur' = [cur EXCEPT ![2] = @ + 1]
      /\ UNCHANGED <<world, running, fresh, alias, dirs, accum, config, loops, bitcode>>
  BY <1>1 DEF ReadSymbol
<1>3. PICK r \in AddSymbol(new) :
        /\ symtab' = r.tab /\ AddMemberFile(r.load)
        /\ phase' = IF r.err THEN "duplicate" ELSE phase
  BY <1>2
<1>4. /\ objQ \in Seq(Objects) /\ cur[1] \in Nat \ {0} /\ i \in Nat \ {0}
      /\ cur \in (Nat \ {0}) \X (Nat \ {0}) /\ world \in Worlds
  BY <1>1 DEF Inv, Typed
<1>5. f \in Objects /\ f \in ToSet(objQ)
  BY <1>1, <1>2, <1>4, LenProperties DEF ToSet
<1>6. world.syms[f] \in Seq(Bodies)
  BY <1>4, <1>5, WorldAssumption
<1>7. i \in DOMAIN world.syms[f] /\ new \in Bodies
  BY <1>1, <1>2, <1>4, <1>6, LenProperties
<1>8. new.file = f /\ new.id = i /\ new.kind # "lazy"
  BY <1>1, <1>4, <1>5, <1>7, FileAssumption
<1>9. f \in ToSet(files) /\ f \notin Archives /\ f # Driver /\ f # Compiled
  BY <1>5, SortAssumption DEF Inv, FilesOnce, Files
<1>10. Known(new) /\ ~IsLazy(new)
  BY <1>1, <1>5, <1>7, <1>8, <1>9 DEF Known, IsLazy
<1>11. UNCHANGED <<world, visited, lto, compiled>>
  BY <1>2 DEF config, bitcode
<1>12. /\ symtab' \in [Names -> BodyOrNone]
       /\ added' \subseteq Bodies /\ IsFiniteSet(added')
       /\ files' \in Seq(Files \cup {Compiled})
       /\ objQ' \in Seq(Objects) /\ arcQ' \in Seq(Archives) /\ seen' \subseteq Objects
       /\ FilesOnce' /\ Origins' /\ Backrefs' /\ Best'
  BY <1>2, <1>3, <1>7, <1>8, <1>9, <1>10, <1>11, Insertion DEF Ends
<1>13. cur' \in (Nat \ {0}) \X (Nat \ {0})
  BY <1>2, <1>4
<1>14. Typed' /\ Asked'
  <2>1. UNCHANGED <<world, running, dirs, accum, visited, exports, alts, entry, esym, list, pool, fresh, lto, compiled>>
    BY <1>2 DEF config, loops, bitcode
  <2>2. Typed'
    BY <1>12, <1>13, <2>1 DEF Inv, Typed
  <2> QED BY <2>1, <2>2 DEF Inv, Asked, ToSet
<1>15. Phases' /\ Inputs'
  BY <1>2, <1>3, <1>11, InputsKept DEF Inv, Phases, Early, Loop
<1>16. Chosen'
  BY <1>2, <1>3, <1>12 DEF Inv, Chosen, Ends
<1> QED BY <1>12, <1>14, <1>15, <1>16 DEF Inv

(* __ImageBase is absolute.                                                *)
LEMMA SetImageBaseInv ==
  ASSUME Inv, SetImageBase
  PROVE  Inv'
<1>1. PICK new : new = DriverBody(ImageBase, "absolute")
  OBVIOUS
<1>2. /\ phase = "imageBase" /\ phase' = RunOrLeave /\ running' = TRUE
      /\ \E r \in AddSymbol(new) : symtab' = r.tab
      /\ added' = added \cup {new} /\ fresh' = fresh + 1
      /\ UNCHANGED <<world, alias, queues, reading, config, loops, bitcode>>
  BY <1>1 DEF SetImageBase
<1>3. PICK r \in AddSymbol(new) : symtab' = r.tab
  BY <1>2
<1>4. Typed
  BY DEF Inv
<1>5. /\ new \in Bodies /\ new.kind = "absolute" /\ new.name = ImageBase /\ new.file = Driver /\ new.to = None
  BY <1>1, <1>4, SortAssumption DEF DriverBody, Bodies, Typed, Kinds, DefinedKinds
<1>6. ~IsLazy(new) /\ IsDefined(new)
  BY <1>5, BodyFacts DEF Others, BitcodeKinds
<1>7. Driver \notin Objects /\ Driver \notin Archives /\ Driver # Compiled
  BY SortAssumption DEF Files
<1>8. new.file # Compiled /\ Known(new)
  BY <1>5, <1>7 DEF Known
<1>9. r.load = None
  BY <1>4, <1>5, <1>6, AddSymbolFacts
<1>10. AddMemberFile(r.load) /\ UNCHANGED <<world, visited, lto, compiled>>
  BY <1>2, <1>9 DEF AddMemberFile, config, bitcode
<1>11. TableSound'
  <2>1. fresh' \in Nat
    BY <1>2, <1>4 DEF Typed
  <2> QED BY <1>2, <1>3, <1>5, <1>6, <1>8, <1>10, <2>1, Insertion DEF Ends, TableSound
<1>12. compiled = 0 /\ phase' \in {"objects", "entryLoop"}
  BY <1>2, <1>4 DEF Inv, Phases, Early, RunOrLeave, Typed
<1>13. Typed' /\ Asked'
  BY <1>2, <1>11 DEF Inv, Typed, TableSound, Asked, ToSet, reading, config, loops, bitcode
<1>14. Phases' /\ Inputs'
  BY <1>2, <1>10, <1>12, InputsKept DEF Inv, Phases, Early, Loop
<1>15. Chosen'
  BY <1>2, <1>11, <1>12 DEF Inv, Chosen, Ends, TableSound, reading
<1> QED BY <1>11, <1>13, <1>14, <1>15 DEF Inv, TableSound
(* addLazy: it takes no definition's place.                                *)
LEMMA AddLazyInv ==
  ASSUME Inv, AddLazy
  PROVE  Inv'
<1>1. PICK a, i, new, old : a = arcQ[cur[1]] /\ i = cur[2] /\ new = world.index[a][i] /\ old = symtab[new.name]
  OBVIOUS
<1>2. /\ phase = "archives" /\ cur[1] <= Len(arcQ) /\ i <= Len(world.index[a])
      /\ \/ UNCHANGED <<symtab, accum>>
         \/ /\ ~IsDefined(old)
            /\ symtab' = [symtab EXCEPT ![new.name] = new]
            /\ accum' \in {accum, Append(accum, new.name)}
      /\ added' = added \cup {new} /\ cur' = [cur EXCEPT ![2] = @ + 1]
      /\ UNCHANGED <<world, phase, running, fresh, alias, queues, dirs, config, loops, bitcode>>
  BY <1>1 DEF AddLazy
<1>3. /\ Typed /\ FilesOnce /\ Origins /\ Best /\ Backrefs
      /\ arcQ \in Seq(Archives) /\ cur[1] \in Nat \ {0} /\ i \in Nat \ {0}
      /\ cur \in (Nat \ {0}) \X (Nat \ {0}) /\ world \in Worlds
  BY <1>1, <1>2 DEF Inv, Typed, Chosen, Ends
<1>4. a \in Archives /\ a \in ToSet(arcQ)
  <2>1. DOMAIN arcQ = 1 .. Len(arcQ) /\ Len(arcQ) \in Nat
    BY <1>3, LenProperties
  <2>2. cur[1] \in DOMAIN arcQ /\ cur[1] \in Nat
    BY <1>2, <1>3, <2>1
  <2> QED BY <1>1, <1>3, <2>2 DEF ToSet
<1>5. world.index[a] \in Seq(Bodies)
  BY <1>3, <1>4, WorldAssumption
<1>6. i \in DOMAIN world.index[a] /\ new \in Bodies
  <2>1. /\ DOMAIN world.index[a] = 1 .. Len(world.index[a])
        /\ Len(world.index[a]) \in Nat
    BY <1>5, LenProperties
  <2>2. i \in DOMAIN world.index[a]
    BY <1>2, <1>3, <2>1
  <2> QED BY <1>1, <1>5, <2>2
<1>7. new.file = a /\ new.kind = "lazy" /\ new.to \in Objects
  BY <1>1, <1>3, <1>4, <1>6, FileAssumption
<1>8. a \in ToSet(files) /\ a \notin Objects /\ a # Driver /\ a # Compiled
  BY <1>4, SortAssumption DEF Inv, FilesOnce, Files
<1>9. new.to \in MemberFiles(world)
  BY <1>1, <1>4, <1>6 DEF MemberFiles
<1>10. /\ Known(new) /\ IsLazy(new) /\ ~IsDefined(new) /\ new.name \in Names
  BY <1>4, <1>6, <1>7, <1>8, <1>9, BodyFacts DEF Known, Others, BitcodeKinds
<1>11. UNCHANGED <<world, running, files, objQ, arcQ, seen, dirs, visited, exports, alts, entry, esym, list, pool,
                   fresh, lto, compiled>>
  BY <1>2 DEF queues, config, loops, bitcode
<1>12. FilesKept
  BY <1>11, SameFilesKept
<1>13. /\ symtab' \in [Names -> BodyOrNone]
       /\ \A n \in Names : \/ symtab'[n] = symtab[n]
                           \/ n = new.name /\ symtab'[n] = new /\ ~IsDefined(symtab[n])
  BY <1>1, <1>2, <1>3, <1>6, <1>10 DEF Typed, BodyOrNone
<1>14. /\ accum' \in Seq(Names)
       /\ \A i1 \in DOMAIN accum' : IsLazy(symtab'[accum'[i1]])
  <2>1. accum \in Seq(Names) /\ \A i1 \in DOMAIN accum : accum[i1] \in Names /\ IsLazy(symtab[accum[i1]])
    BY <1>3, LenProperties DEF Typed, Inv, Chosen
  <2>2. \A i1 \in DOMAIN accum : IsLazy(symtab'[accum[i1]])
    BY <1>10, <1>13, <2>1
  <2>3. CASE accum' = accum
    BY <2>1, <2>2, <2>3
  <2>4. CASE accum' # accum
    <3>1. accum' = Append(accum, new.name) /\ symtab'[new.name] = new
      BY <1>2, <1>3, <1>10, <2>4 DEF Typed
    <3>2. /\ accum' \in Seq(Names) /\ DOMAIN accum' = DOMAIN accum \cup {Len(accum) + 1}
          /\ \A i1 \in DOMAIN accum : accum'[i1] = accum[i1]
          /\ accum'[Len(accum) + 1] = new.name
      BY <1>10, <2>1, <3>1, AppendFacts
    <3> QED BY <1>10, <2>2, <3>1, <3>2
  <2> QED BY <2>3, <2>4
<1>15. added' \subseteq Bodies /\ IsFiniteSet(added')
  BY <1>2, <1>3, <1>6, FS_AddElement DEF Typed
<1>16. cur' \in (Nat \ {0}) \X (Nat \ {0})
  BY <1>2, <1>3
<1>17. Typed'
  BY <1>11, <1>13, <1>14, <1>15, <1>16 DEF Inv, Typed
<1>18. Asked' /\ FilesOnce'
  BY <1>11 DEF Inv, Asked, FilesOnce, MemberFiles, ToSet
<1>19. Origins'
  <2>1. \A b \in added \cup ToSet(lto) \cup {new} : Known(b)'
    <3>1. \A b \in added \cup ToSet(lto) \cup {new} : Known(b)
      BY <1>3, <1>10 DEF Origins
    <3>2. MemberFiles(world)' = MemberFiles(world) /\ ToSet(files)' = ToSet(files)
      BY <1>11
    <3> QED BY <1>11, <3>1, <3>2 DEF Known
  <2>2. added' = added \cup {new} /\ ToSet(lto)' = ToSet(lto)
    BY <1>2, <1>11
  <2> QED BY <1>3, <1>10, <2>1, <2>2 DEF Origins
<1>20. Backrefs'
  <2>1. \A n \in Names : symtab'[n] # None => symtab'[n] \in added' /\ symtab'[n].name = n
    BY <1>2, <1>3, <1>13 DEF Backrefs, Candidates
  <2> QED BY <2>1 DEF Backrefs, Candidates
<1>21. Best'
  <2>1. \A b \in added' \ added : IsDefined(b) => Settled(b)'
    BY <1>2, <1>10
  <2>2. added \subseteq added' /\ phase # "duplicate"
    BY <1>2
  <2>3. \A b \in added' : IsDefined(b) => Settled(b)'
    BY <1>3, <1>11, <1>12, <1>13, <2>1, <2>2, Improves
  <2> QED BY <2>3 DEF Best
<1>22. Phases' /\ Inputs'
  BY <1>2, <1>11, PhaseKept, InputsKept
<1>23. Chosen'
  BY <1>2, <1>14, <1>20 DEF Chosen, Ends
<1> QED BY <1>17, <1>18, <1>19, <1>20, <1>21, <1>22, <1>23 DEF Inv

-----------------------------------------------------------------------------
(* Weak aliases.                                                           *)

\* Aliases and roots are bodies that were added.
Aliases ==
  /\ \A b \in DOMAIN alias : alias[b] \in added /\ IsUndefined(alias[b])
  /\ \A u \in roots : u \in added /\ IsUndefined(u)

\* Bodies that a chain of aliases may lead to, or None where it ends.
Linked == {b \in Bodies : Known(b) /\ ~IsLazy(b)}

LEMMA AliasIsLinked ==
  ASSUME Inv, Aliases
  PROVE  \A b \in Linked : WeakAlias(b) \in Linked \cup {None}
<1> TAKE b \in Linked
<1>1. CASE b \in DOMAIN alias
  <2>1. alias[b] \in added /\ IsUndefined(alias[b])
    BY <1>1 DEF Aliases
  <2>2. alias[b] \in Bodies /\ Known(alias[b]) /\ ~IsLazy(alias[b])
    BY <2>1 DEF Inv, Typed, Origins, IsUndefined, IsLazy
  <2> QED BY <1>1, <2>2 DEF WeakAlias, Linked
<1>2. CASE b \notin DOMAIN alias
  <2> PICK syms : syms = world.syms[b.file]
    OBVIOUS
  <2> PICK found : found = {i \in 1 .. b.id - 1 : syms[i].name = b.to}
    OBVIOUS
  <2>1. WeakAlias(b) = IF b.to = None \/ found = {} THEN None ELSE syms[CHOOSE i \in found : TRUE]
    BY <1>2 DEF WeakAlias, Default
  <2> SUFFICES ASSUME b.to # None, found # {} PROVE WeakAlias(b) \in Linked
    BY <2>1
  <2>2. PICK i \in found : WeakAlias(b) = syms[i]
    BY <2>1
  <2>3. b.file \in Objects
    BY BodyFacts DEF Linked, Known, Bodies, Files
  <2>4. /\ world \in Worlds /\ syms \in Seq(Bodies) /\ b.id \in DOMAIN syms
        /\ DOMAIN syms = 1 .. Len(syms) /\ Len(syms) \in Nat
    BY <2>3, WorldAssumption, LenProperties DEF Inv, Typed, Linked, Known
  <2>5. i \in DOMAIN syms /\ syms[i] \in Bodies
    BY <2>4
  <2>6. syms[i].file = b.file /\ syms[i].id = i /\ syms[i].kind # "lazy"
    BY <2>3, <2>4, <2>5, FileAssumption
  <2>7. b.file \notin Archives /\ b.file # Driver /\ b.file # Compiled
    BY <2>3, SortAssumption DEF Files
  <2>8. b.file \in ToSet(files)
    BY <2>7 DEF Linked, Known
  <2>9. Known(syms[i]) /\ ~IsLazy(syms[i])
    BY <2>5, <2>6, <2>7, <2>8 DEF Known, IsLazy
  <2> QED BY <2>2, <2>5, <2>9 DEF Linked
<1> QED BY <1>1, <1>2

(* Undefined::getWeakAlias leads to the replacement of a body of the chain *)
(* that is a definition, and to nothing only if the alias itself is none.  *)
LEMMA ChainFacts ==
  ASSUME IsFiniteSet(added), NEW S, None \notin S, NEW u \in S, \A b \in S : WeakAlias(b) \in S \cup {None}
  PROVE  /\ GetWeakAlias(u) # None =>
              IsDefined(GetWeakAlias(u)) /\ \E b \in S : GetWeakAlias(u) = Repl(b)
         /\ GetWeakAlias(u) = None /\ WeakAlias(u) # None => ~IsDefined(Repl(WeakAlias(u)))
<1> DEFINE N == S \cup {None}
           AliasOf == [b \in N |-> IF b = None THEN None ELSE WeakAlias(b)]
           Step(f) == f = [i \in Nat |-> IF i = 0 THEN u
                             ELSE IF f[i - 1] = None THEN None ELSE WeakAlias(f[i - 1])]
           step == CHOOSE f : Step(f)
<1>1. AliasOf \in [N -> N]
  OBVIOUS
<1>2. Step(step)
  <2>1. PICK f : Orbit(f, N, AliasOf, u)
    BY <1>1, Iterate
  <2>2. f \in [Nat -> N] /\ f[0] = u /\ \A n \in Nat : f[n + 1] = AliasOf[f[n]]
    BY <2>1 DEF Orbit
  <2>3. ASSUME NEW i \in Nat, i # 0 PROVE f[i] = IF f[i - 1] = None THEN None ELSE WeakAlias(f[i - 1])
    <3>1. i - 1 \in Nat /\ (i - 1) + 1 = i
      BY <2>3
    <3> QED BY <2>2, <3>1
  <2>4. Step(f)
    BY <2>2, <2>3
  <2> QED BY <2>4
<1> HIDE DEF step
<1>3. \A i \in Nat : step[i] \in N
  <2> DEFINE T == {i \in Nat : step[i] \in N}
  <2>1. 0 \in T
    BY <1>2
  <2>2. ASSUME NEW i \in T PROVE i + 1 \in T
    <3>1. i + 1 \in Nat /\ i + 1 # 0 /\ (i + 1) - 1 = i /\ step[i] \in N
      OBVIOUS
    <3>2. step[i + 1] = IF step[i] = None THEN None ELSE WeakAlias(step[i])
      BY <1>2, <3>1
    <3> QED BY <3>1, <3>2
  <2> HIDE DEF T
  <2>3. T \in SUBSET Nat
    BY DEF T
  <2>4. T = Nat
    BY <2>1, <2>2, <2>3, Induction
  <2> QED BY <2>4 DEF T
<1> PICK c : c = Chain(u)
  OBVIOUS
<1>4. Cardinality(added) + 1 \in Nat /\ Cardinality(added) \in Nat
  BY FS_CardinalityType
<1>5. c = [i \in 1 .. Cardinality(added) + 1 |-> step[i]]
  BY DEF Chain, step
<1>6. /\ \A i \in DOMAIN c : c[i] \in N
      /\ 1 \in DOMAIN c /\ (u # None => c[1] = WeakAlias(u))
  <2>1. step[1] = IF step[0] = None THEN None ELSE WeakAlias(step[0])
    BY <1>2
  <2>2. step[0] = u
    BY <1>2
  <2> QED BY <1>3, <1>4, <1>5, <2>1, <2>2
<1> PICK hits : hits = {i \in DOMAIN c : c[i] # None /\ IsDefined(Repl(c[i]))}
  OBVIOUS
<1>7. GetWeakAlias(u) = IF hits = {} THEN None ELSE Repl(c[CHOOSE i \in hits : \A j \in hits : i <= j])
  BY DEF GetWeakAlias
<1>8. hits # {} => \E i \in hits : GetWeakAlias(u) = Repl(c[i])
  <2>1. hits \in SUBSET Nat
    BY <1>4, <1>5
  <2>2. hits # {} => \E i \in hits : \A j \in hits : i <= j
    BY <2>1, Least
  <2> QED BY <1>7, <2>2
<1>9. CASE hits = {}
  BY <1>6, <1>7, <1>9
<1>10. CASE hits # {}
  BY <1>6, <1>8, <1>10, NotBodies
<1> QED BY <1>9, <1>10

(* Whatever the chain of an undefined symbol leads to is a body.           *)
LEMMA WeakAliasIsBody ==
  ASSUME Inv, Aliases, NEW u \in Linked
  PROVE  /\ GetWeakAlias(u) \in BodyOrNone
         /\ Backrefs /\ GetWeakAlias(u) # None => Known(GetWeakAlias(u))
<1>1. GetWeakAlias(u) # None => \E b \in Linked : GetWeakAlias(u) = Repl(b)
  <2>1. IsFiniteSet(added) /\ None \notin Linked
    BY SortAssumption DEF Inv, Typed, Linked
  <2> QED BY <2>1, AliasIsLinked, ChainFacts
<1>2. ASSUME NEW b \in Linked
      PROVE  Repl(b) \in BodyOrNone /\ (Backrefs /\ Repl(b) # None => Known(Repl(b)))
  <2>1. b \in Bodies /\ Known(b) /\ b.name \in Names
    BY BodyFacts DEF Linked
  <2>2. symtab[b.name] \in BodyOrNone
    BY <2>1 DEF Inv, Typed
  <2>3. Backrefs /\ symtab[b.name] # None => Known(symtab[b.name])
    BY <2>1 DEF Backrefs, Candidates, Inv, Origins
  <2> QED BY <2>1, <2>2, <2>3 DEF Repl, BodyOrNone
<1> QED BY <1>1, <1>2 DEF BodyOrNone

(* reportRemainingUndefines: names without a definition get one.           *)
LEMMA ReportInv ==
  ASSUME Inv, Aliases, NEW n \in Names, Report(n)
  PROVE  Inv'
<1>1. PICK u, d : u = symtab[n] /\ d = GetWeakAlias(u)
  OBVIOUS
<1>2. /\ phase = "report" /\ phase' \in {"report", "hang"} /\ n \in pool /\ pool' = pool \ {n}
      /\ \E b \in {d, DriverBody(n, "localimport"), DriverBody(n, "absolute")} :
           \/ symtab' = symtab
           \/ b # None /\ symtab' = [symtab EXCEPT ![n] = b]
      /\ added' = added /\ fresh' \in {fresh, fresh + 1}
      /\ UNCHANGED <<world, running, alias, queues, reading, config, esym, list, bitcode>>
  <2>1. DriverBody(n, "localimport") \in Bodies /\ DriverBody(n, "absolute") \in Bodies
    BY SortAssumption DEF DriverBody, Bodies, Inv, Typed, Kinds, DefinedKinds
  <2> QED BY <1>1, <2>1, BodyFacts DEF Report, table
<1>3. IsUndefined(u) /\ u \in added /\ Typed /\ Origins /\ Best
  BY <1>1, <1>2 DEF Inv, Chosen
<1>4. u \in Linked
  BY <1>3, BodyFacts DEF Typed, Origins, Linked, IsUndefined, IsLazy
<1>5. d \in BodyOrNone
  BY <1>1, <1>4, WeakAliasIsBody
<1>6. DriverBody(n, "localimport") \in Bodies /\ DriverBody(n, "absolute") \in Bodies
  BY SortAssumption DEF DriverBody, Bodies, Inv, Typed, Kinds, DefinedKinds
<1>7. /\ symtab' \in [Names -> BodyOrNone]
      /\ \A m \in Names \ {n} : symtab'[m] = symtab[m]
  <2>1. PICK b \in BodyOrNone : symtab' = symtab \/ symtab' = [symtab EXCEPT ![n] = b]
    BY <1>2, <1>5, <1>6 DEF BodyOrNone
  <2> QED BY <1>3, <2>1 DEF Typed
<1>8. UNCHANGED <<world, running, added, files, objQ, arcQ, seen, cur, dirs, accum, visited, exports, alts, entry,
                  esym, list, lto, compiled>>
  BY <1>2 DEF queues, reading, config, bitcode
<1>9. Typed'
  BY <1>2, <1>3, <1>7, <1>8 DEF Typed
<1>10. FilesOnce' /\ Asked'
  BY <1>8 DEF Inv, FilesOnce, MemberFiles, Asked, ToSet
<1>11. Origins'
  <2>1. MemberFiles(world)' = MemberFiles(world) /\ ToSet(files)' = ToSet(files) /\ ToSet(lto)' = ToSet(lto)
    BY <1>8
  <2>2. \A b \in added \cup ToSet(lto) : Known(b)'
    BY <1>3, <1>8, <2>1 DEF Origins, Known
  <2> QED BY <1>3, <1>8, <2>1, <2>2 DEF Origins
<1>12. Phases' /\ Inputs'
  BY <1>2, <1>8, InputsKept DEF Inv, Phases, Early, Loop
<1>13. Chosen'
  <2>1. accum = <<>>
    BY <1>2 DEF Inv, Chosen
  <2>2. \A m \in pool' : IsUndefined(symtab'[m]) /\ symtab'[m] \in added'
    BY <1>2, <1>7, <1>8 DEF Inv, Chosen, Typed
  <2> QED BY <1>2, <1>8, <2>1, <2>2 DEF Chosen, Ends
<1>14. Best'
  <2> SUFFICES ASSUME NEW b \in added, IsDefined(b) PROVE Settled(b)'
    BY <1>8 DEF Best
  <2>1. Settled(b) /\ b \in Bodies /\ b.name \in Names
    BY <1>2, <1>3, BodyFacts DEF Best, Typed
  <2>2. \A c, e : Beats(c, e)' <=> Beats(c, e)
    BY <1>8 DEF Beats, Larger, Before, Index
  <2>3. Candidates(b.name)' = Candidates(b.name)
    BY <1>8 DEF Candidates
  <2>4. CASE b.name = n
    <3>1. ~IsDefined(u) /\ u.kind = "undef"
      BY <1>3 DEF IsUndefined, IsDefined, DefinedKinds, BitcodeKinds
    <3> QED BY <1>1, <1>8, <2>1, <2>3, <2>4, <3>1 DEF Settled, SetAside
  <2>5. CASE b.name # n
    <3>1. symtab'[b.name] = symtab[b.name]
      BY <1>7, <2>1, <2>5
    <3> QED BY <1>8, <2>1, <2>2, <2>3, <3>1 DEF Settled, SetAside
  <2> QED BY <2>4, <2>5
<1> QED BY <1>9, <1>10, <1>11, <1>12, <1>13, <1>14 DEF Inv

-----------------------------------------------------------------------------
(* Link-time optimisation.                                                 *)

LEMMA ImageFinite ==
  ASSUME NEW S, IsFiniteSet(S), NEW f
  PROVE  IsFiniteSet({f[x] : x \in S})
<1> DEFINE T == {f[x] : x \in S}
           g == [x \in S |-> f[x]]
<1>1. g \in Surjection(S, T)
  BY DEF Surjection
<1> HIDE DEF g, T
<1>2. IsFiniteSet(T)
  BY <1>1, FS_Surjection
<1> QED BY <1>2 DEF T

\* A function of an interval is a sequence.
LEMMA MapIsSeq ==
  ASSUME NEW S, NEW n \in Nat, NEW f \in [1 .. n -> S]
  PROVE  f \in Seq(S) /\ DOMAIN f = 1 .. n
BY SeqDef

(* What must be preserved is named in bitcode files.                       *)
LEMMA PreservedFacts ==
  ASSUME Inv, Aliases, Backrefs, compiled = 0
  PROVE  /\ MustPreserve \subseteq Names /\ IsFiniteSet(MustPreserve)
         /\ \A n \in MustPreserve : \E o \in world.bitcode : \E k \in DOMAIN world.syms[o] :
              world.syms[o][k].name = n
<1> DEFINE Chosens == {Repl(b) : b \in added}
           Defaults == {GetWeakAlias(u) : u \in roots}
           Win == [b \in added |-> Repl(b)]
           Def == [u \in roots |-> GetWeakAlias(u)]
           All == Chosens \cup Defaults \cup added
           name == [b \in All |-> b.name]
<1>1. /\ IsFiniteSet(added) /\ added \subseteq Bodies /\ roots \subseteq added /\ IsFiniteSet(roots)
      /\ \A b \in added : Known(b)
  BY FS_Subset DEF Inv, Typed, Origins, Aliases
<1>2. IsFiniteSet(All)
  <2>1. IsFiniteSet({Win[b] : b \in added}) /\ IsFiniteSet({Def[u] : u \in roots})
    BY <1>1, ImageFinite
  <2>2. {Win[b] : b \in added} = Chosens /\ {Def[u] : u \in roots} = Defaults
    OBVIOUS
  <2> HIDE DEF Chosens, Defaults
  <2> QED BY <1>1, <2>1, <2>2, FS_Union
<1>3. ASSUME NEW b \in All, IsBitcode(b) PROVE b \in Bodies /\ Known(b)
  <2>1. CASE b \in added
    BY <1>1, <2>1
  <2>2. CASE b \in Chosens
    <3>1. PICK c \in added : b = symtab[c.name]
      BY <2>2 DEF Repl
    <3>2. c.name \in Names
      BY <1>1, BodyFacts
    <3> QED BY <1>1, <1>3, <3>1, <3>2 DEF Backrefs, Candidates, IsBitcode
  <2>3. CASE b \in Defaults
    <3>1. PICK u \in roots : b = GetWeakAlias(u)
      BY <2>3
    <3>2. u \in Linked
      BY <1>1 DEF Aliases, Linked, IsUndefined, IsLazy
    <3> QED BY <1>3, <3>1, <3>2, WeakAliasIsBody DEF IsBitcode, BodyOrNone
  <2> QED BY <2>1, <2>2, <2>3
<1>4. ASSUME NEW b \in All, IsBitcode(b)
      PROVE  /\ b.name \in Names
             /\ \E o \in world.bitcode : \E k \in DOMAIN world.syms[o] : world.syms[o][k].name = b.name
  <2>1. b \in Bodies /\ Known(b) /\ b.kind \in BitcodeKinds
    BY <1>3, <1>4 DEF IsBitcode
  <2>2. b.file \in Objects /\ b.file \in Files
    <3>1. ~(b.file \in Archives) /\ b.file # Driver
      BY <2>1 DEF Known, BitcodeKinds
    <3>2. b.file # Compiled
      <4>1. Compiled \notin ToSet(files) /\ Compiled # Driver
        BY SortAssumption DEF Inv, FilesOnce
      <4> QED BY <2>1, <4>1 DEF Known
    <3> QED BY <2>1, <3>1, <3>2 DEF Bodies, Files
  <2>3. b.id \in DOMAIN world.syms[b.file] /\ b = world.syms[b.file][b.id]
    BY <2>1, <2>2 DEF Known
  <2>4. b.file \in world.bitcode
    BY <2>1, <2>2, <2>3, FileAssumption DEF Inv, Typed
  <2> QED BY <2>1, <2>3, <2>4, BodyFacts
<1>5. MustPreserve \subseteq {name[b] : b \in {c \in All : IsBitcode(c)}}
  <2> SUFFICES ASSUME NEW n \in MustPreserve PROVE \E c \in All : IsBitcode(c) /\ n = c.name
    OBVIOUS
  <2>1. PICK c : /\ n = c.name /\ IsBitcode(c)
                 /\ \/ \E b \in added : c = Repl(b)
                    \/ \E u \in roots : c \in {Repl(u), GetWeakAlias(u)}
                    \/ c \in added
    BY DEF MustPreserve, SymbolsOf
  <2>2. c \in All
    BY <1>1, <2>1
  <2> QED BY <2>1, <2>2
<1>6. IsFiniteSet({c \in All : IsBitcode(c)})
  BY <1>2, FS_Subset
<1>7. IsFiniteSet({name[b] : b \in {c \in All : IsBitcode(c)}})
  <2> HIDE DEF name, All
  <2> QED BY <1>6, ImageFinite
<1>8. IsFiniteSet(MustPreserve)
  BY <1>5, <1>7, FS_Subset
<1>9. ASSUME NEW n \in MustPreserve PROVE \E c \in All : IsBitcode(c) /\ n = c.name
  BY <1>5
<1> QED BY <1>4, <1>8, <1>9

\* Symbols of the compiled object.
FromLTO == {b \in Bodies : /\ b.file = Compiled /\ b.to = None
                           /\ b.kind \in {"regular", "comdat", "undef"}}

(* The compiled object defines a name once, and leaves undefined what no   *)
(* bitcode file defines.                                                   *)
LEMMA CompiledFacts ==
  ASSUME Inv, Aliases, Backrefs, compiled = 0
  PROVE  LET s == CompiledSymbols(MustPreserve) IN
         /\ s \in Seq(FromLTO)
         /\ \A a, b \in ToSet(s) : a.name = b.name /\ IsDefined(a) /\ IsDefined(b) => a = b
         /\ \A a \in ToSet(s) : a.kind = "undef" =>
              \/ \A b \in SymbolsOf(BitcodeFiles) : IsBitcode(b) => b.name # a.name
              \/ \E i \in DOMAIN world.emits : world.emits[i][1] = a.name /\ world.emits[i][2] = "undef"
<1> DEFINE syms == SymbolsOf(BitcodeFiles)
           Strong(n) == \E b \in syms : b.name = n /\ b.kind = "bitcode"
           undefined == {b.name : b \in syms} \ {b.name : b \in {c \in syms : IsBitcode(c)}}
           Symbol(n, i, k) == [file |-> Compiled, id |-> i, name |-> n, kind |-> k,
                               size |-> 0, to |-> None]
           defs == SetToSeq(MustPreserve)
           refs == SetToSeq(undefined)
           A == [i \in DOMAIN defs |->
                   Symbol(defs[i], i, IF Strong(defs[i]) THEN "regular" ELSE "comdat")]
           B == [i \in DOMAIN refs |-> Symbol(refs[i], Len(defs) + i, "undef")]
           C == [i \in DOMAIN world.emits |->
                   Symbol(world.emits[i][1], Len(defs \o refs) + i, world.emits[i][2])]
<1>1. CompiledSymbols(MustPreserve) = A \o B \o C
  BY DEF CompiledSymbols
<1>2. /\ defs \in Seq(Names) /\ DOMAIN defs = 1 .. Len(defs) /\ Len(defs) \in Nat
      /\ \A i \in DOMAIN defs : defs[i] \in MustPreserve
      /\ \A i, j \in DOMAIN defs : defs[i] = defs[j] => i = j
  <2>1. /\ defs \in Seq(MustPreserve) /\ MustPreserve \subseteq Names
        /\ \A i, j \in DOMAIN defs : defs[i] = defs[j] => i = j
    BY PreservedFacts, SetToSeqFacts
  <2> HIDE DEF defs
  <2> QED BY <2>1, LenProperties, SeqMonotonic
<1>3. /\ refs \in Seq(Names) /\ DOMAIN refs = 1 .. Len(refs) /\ Len(refs) \in Nat
      /\ \A i \in DOMAIN refs : refs[i] \in undefined
  <2>1. syms \subseteq added /\ IsFiniteSet(added) /\ added \subseteq Bodies
    BY DEF SymbolsOf, Inv, Typed
  <2> DEFINE name == [b \in added |-> b.name]
  <2>2. IsFiniteSet({name[b] : b \in added})
    <3> HIDE DEF name
    <3> QED BY <2>1, ImageFinite
  <2>3. undefined \subseteq {name[b] : b \in added} /\ undefined \subseteq Names
    <3> HIDE DEF syms
    <3> QED BY <2>1, BodyFacts
  <2> HIDE DEF undefined
  <2>4. IsFiniteSet(undefined)
    BY <2>2, <2>3, FS_Subset
  <2>5. refs \in Seq(undefined)
    BY <2>4, SetToSeqFacts
  <2> HIDE DEF refs
  <2> QED BY <2>3, <2>5, LenProperties, SeqMonotonic
<1>4. /\ world \in Worlds /\ world.emits \in Seq(Names \X {"undef", "comdat"})
      /\ DOMAIN world.emits = 1 .. Len(world.emits) /\ Len(world.emits) \in Nat
      /\ \A i \in DOMAIN world.emits : world.emits[i] \in Names \X {"undef", "comdat"}
  BY WorldAssumption, LenProperties DEF Inv, Typed
<1>5. \A n \in Names, i \in Nat, k \in {"regular", "comdat", "undef"} : Symbol(n, i, k) \in FromLTO
  BY DEF FromLTO, Bodies, Kinds, DefinedKinds
<1>6. A \in Seq(FromLTO)
  <2>1. ASSUME NEW i \in DOMAIN defs PROVE A[i] \in FromLTO
    <3> HIDE DEF defs, Strong, Symbol
    <3>1. defs[i] \in Names /\ i \in Nat
      BY <1>2, ElementOfSeq
    <3>2. PICK k \in {"regular", "comdat"} : A[i] = Symbol(defs[i], i, k)
      OBVIOUS
    <3> QED BY <1>5, <3>1, <3>2
  <2> HIDE DEF defs, Symbol, Strong
  <2> QED BY <1>2, <2>1, MapIsSeq
<1>7. B \in Seq(FromLTO)
  <2>1. ASSUME NEW i \in DOMAIN refs PROVE B[i] \in FromLTO
    <3> HIDE DEF refs, defs, Symbol
    <3>1. refs[i] \in Names /\ Len(defs) + i \in Nat
      BY <1>2, <1>3, ElementOfSeq
    <3>2. B[i] = Symbol(refs[i], Len(defs) + i, "undef")
      OBVIOUS
    <3> QED BY <1>5, <3>1, <3>2
  <2> HIDE DEF refs, defs, Symbol
  <2> QED BY <1>3, <2>1, MapIsSeq
<1>8. C \in Seq(FromLTO)
  <2>1. Len(defs \o refs) \in Nat
    <3> HIDE DEF refs, defs
    <3> QED BY <1>2, <1>3, ConcatProperties, LenProperties
  <2>2. ASSUME NEW i \in DOMAIN world.emits PROVE C[i] \in FromLTO
    <3> HIDE DEF refs, defs, Symbol
    <3>1. /\ world.emits[i][1] \in Names /\ world.emits[i][2] \in {"undef", "comdat"}
          /\ Len(defs \o refs) + i \in Nat
      BY <1>4, <2>1
    <3>2. C[i] = Symbol(world.emits[i][1], Len(defs \o refs) + i, world.emits[i][2])
      OBVIOUS
    <3> QED BY <1>5, <3>1, <3>2
  <2> HIDE DEF refs, defs, Symbol
  <2> QED BY <1>4, <2>2, MapIsSeq
<1>9. /\ \A x \in ToSet(A) : \E i \in DOMAIN defs : x = A[i] /\ x.name = defs[i]
      /\ \A x \in ToSet(A) : x.kind # "undef"
      /\ \A x \in ToSet(B) : x.kind = "undef" /\ \E i \in DOMAIN refs : x.name = refs[i]
      /\ \A x \in ToSet(C) : \E i \in DOMAIN world.emits :
           x = C[i] /\ x.name = world.emits[i][1] /\ x.kind = world.emits[i][2]
  <2> HIDE DEF refs, defs, Strong
  <2>1. ASSUME NEW i \in DOMAIN A PROVE A[i].name = defs[i] /\ A[i].kind # "undef"
    OBVIOUS
  <2>2. ASSUME NEW i \in DOMAIN B PROVE B[i].kind = "undef" /\ B[i].name = refs[i]
    OBVIOUS
  <2>3. ASSUME NEW i \in DOMAIN C PROVE C[i].name = world.emits[i][1] /\ C[i].kind = world.emits[i][2]
    OBVIOUS
  <2>4. DOMAIN A = DOMAIN defs /\ DOMAIN B = DOMAIN refs /\ DOMAIN C = DOMAIN world.emits
    OBVIOUS
  <2> HIDE DEF A, B, C
  <2> QED BY <2>1, <2>2, <2>3, <2>4 DEF ToSet
<1> HIDE DEF A, B, C, defs, refs, syms, undefined
<1>10. A \o B \o C \in Seq(FromLTO) /\ ToSet(A \o B \o C) \subseteq ToSet(A) \cup ToSet(B) \cup ToSet(C)
  <2>1. A \o B \in Seq(FromLTO) /\ ToSet(A \o B) \subseteq ToSet(A) \cup ToSet(B)
    BY <1>6, <1>7, ConcatFacts DEF ToSet
  <2> DEFINE AB == A \o B
  <2> HIDE DEF AB
  <2>2. AB \o C \in Seq(FromLTO) /\ ToSet(AB \o C) \subseteq ToSet(AB) \cup ToSet(C)
    BY <1>8, <2>1, ConcatFacts DEF ToSet, AB
  <2> QED BY <2>1, <2>2 DEF AB
<1>11. ASSUME NEW a \in ToSet(A) \cup ToSet(B) \cup ToSet(C), NEW b \in ToSet(A) \cup ToSet(B) \cup ToSet(C),
              a.name = b.name, IsDefined(a), IsDefined(b)
       PROVE  a = b
  <2>1. a.kind # "undef" /\ b.kind # "undef"
    BY <1>11 DEF IsDefined, DefinedKinds, BitcodeKinds
  <2>2. \A x \in ToSet(C), y \in ToSet(A) : x.kind # "undef" => x.name # y.name
    <3> SUFFICES ASSUME NEW x \in ToSet(C), NEW y \in ToSet(A), x.kind # "undef", x.name = y.name PROVE FALSE
      OBVIOUS
    <3>1. PICK i \in DOMAIN world.emits : x.name = world.emits[i][1] /\ world.emits[i][2] = "comdat"
      BY <1>4, <1>9
    <3>2. y.name \in MustPreserve
      <4>1. PICK j \in DOMAIN defs : y.name = defs[j]
        BY <1>9
      <4> QED BY <1>2, <4>1
    <3>3. PICK o \in world.bitcode : \E k \in DOMAIN world.syms[o] : world.syms[o][k].name = y.name
      BY <3>2, PreservedFacts
    <3>4. world.bitcode \subseteq Objects
      BY <1>4, WorldAssumption
    <3> QED BY <1>4, <3>1, <3>3, <3>4, FileAssumption
  <2>3. \A x, y \in ToSet(A) : x.name = y.name => x = y
    BY <1>2, <1>9
  <2>4. ASSUME NEW x \in ToSet(C), NEW y \in ToSet(C), x.name = y.name, x.kind # "undef", y.kind # "undef"
        PROVE  x = y
    <3>1. PICK i \in DOMAIN world.emits : x = C[i] /\ x.name = world.emits[i][1] /\ world.emits[i][2] = "comdat"
      BY <1>4, <1>9, <2>4
    <3>2. PICK j \in DOMAIN world.emits : y = C[j] /\ y.name = world.emits[j][1] /\ world.emits[j][2] = "comdat"
      BY <1>4, <1>9, <2>4
    <3>3. world.emits[i] = world.emits[j]
      BY <1>4, <2>4, <3>1, <3>2
    <3> QED BY <1>4, <3>1, <3>2, <3>3, FileAssumption
  <2> QED BY <1>9, <1>11, <2>1, <2>2, <2>3, <2>4
<1>12. ASSUME NEW a \in ToSet(A) \cup ToSet(B) \cup ToSet(C), a.kind = "undef"
       PROVE  \/ \A b \in SymbolsOf(BitcodeFiles) : IsBitcode(b) => b.name # a.name
              \/ \E i \in DOMAIN world.emits : world.emits[i][1] = a.name /\ world.emits[i][2] = "undef"
  <2>1. a \in ToSet(B) \/ a \in ToSet(C)
    BY <1>9, <1>12
  <2>2. CASE a \in ToSet(B)
    <3>1. a.name \in undefined
      BY <1>3, <1>9, <2>2
    <3> QED BY <3>1 DEF undefined, syms
  <2>3. CASE a \in ToSet(C)
    BY <1>9, <1>12, <2>3
  <2> QED BY <2>1, <2>2, <2>3
<1> QED BY <1>1, <1>10, <1>11, <1>12

(* createLTOObject                                                         *)
LEMMA CreateLTOObjectInv ==
  ASSUME Inv, Aliases, CreateLTOObject
  PROVE  Inv'
<1>1. /\ phase = "compile"
      /\ \/ phase' = "hang" /\ UNCHANGED <<files, lto, compiled>>
         \/ /\ phase' = "replace" /\ lto' = CompiledSymbols(MustPreserve)
            /\ compiled' = Cardinality(BitcodeFiles) /\ files' = Append(files, Compiled)
      /\ UNCHANGED <<world, running, table, alias, objQ, arcQ, seen, reading, config, loops, roots>>
  BY DEF CreateLTOObject
<1>2. /\ Typed /\ FilesOnce /\ Origins /\ Backrefs /\ Best
      /\ compiled = 0 /\ running /\ accum = <<>> /\ BitcodeFiles # {}
  BY <1>1 DEF Inv, Chosen, Phases, Loop, Ends
<1>3. UNCHANGED <<world, running, symtab, added, fresh, objQ, arcQ, seen, cur, dirs, accum, visited, exports,
                  alts, entry, esym, list, pool>>
  BY <1>1 DEF table, reading, config, loops
<1>4. MemberFiles(world)' = MemberFiles(world)
  BY <1>3
<1>5. CASE phase' = "hang"
  <2>1. UNCHANGED <<files, lto, compiled>>
    BY <1>1, <1>5
  <2>2. FilesOnce' /\ Origins' /\ Best'
    BY <1>1, <1>3, <2>1, Quiet DEF queues
  <2>3. Typed' /\ Asked'
    BY <1>3, <2>1 DEF Inv, Typed, Asked, ToSet
  <2>4. Phases' /\ Inputs' /\ Chosen'
    BY <1>1, <1>2, <1>3, <1>5, <2>1, InputsKept DEF Inv, Phases, Early, Loop, Chosen, Ends
  <2> QED BY <2>2, <2>3, <2>4 DEF Inv
<1>6. CASE phase' = "replace"
  <2>1. /\ lto' = CompiledSymbols(MustPreserve) /\ files' = Append(files, Compiled)
        /\ compiled' = Cardinality(BitcodeFiles)
    BY <1>1, <1>6
  <2>2. /\ lto' \in Seq(FromLTO)
        /\ \A a, b \in ToSet(lto') : a.name = b.name /\ IsDefined(a) /\ IsDefined(b) => a = b
    BY <1>2, <2>1, CompiledFacts
  <2>3. lto' \in Seq(Bodies) /\ \A b \in ToSet(lto') : b \in FromLTO
    <3>1. FromLTO \subseteq Bodies
      BY DEF FromLTO
    <3> QED BY <2>2, <3>1, SeqMonotonic, LenProperties DEF ToSet
  <2>4. compiled' \in Nat /\ compiled' > 0
    <3>1. IsFiniteSet(BitcodeFiles)
      <4>1. Len(files) \in Nat /\ DOMAIN files = 1 .. Len(files)
        BY <1>2, LenProperties DEF Typed
      <4>2. IsFiniteSet(DOMAIN files)
        BY <4>1, FS_Interval
      <4>3. IsFiniteSet({files[i] : i \in DOMAIN files})
        BY <4>2, ImageFinite
      <4>4. BitcodeFiles \subseteq {files[i] : i \in DOMAIN files}
        BY DEF BitcodeFiles, ToSet
      <4> QED BY <4>3, <4>4, FS_Subset
    <3>2. Cardinality(BitcodeFiles) \in Nat /\ Cardinality(BitcodeFiles) # 0
      BY <1>2, <3>1, FS_CardinalityType, FS_EmptySet
    <3> QED BY <2>1, <3>2
  <2>5. Compiled \notin ToSet(files)
    BY <1>2 DEF FilesOnce
  <2>6. /\ files' \in Seq(Files \cup {Compiled})
        /\ \A i, j \in DOMAIN files' : files'[i] = files'[j] => i = j
        /\ ToSet(files)' = ToSet(files) \cup {Compiled}
        /\ FilesKept
    BY <1>2, <2>1, <2>5, AppendFileKeeps
  <2>7. Typed' /\ Asked'
    BY <1>2, <1>3, <2>3, <2>4, <2>6 DEF Inv, Typed, Asked, ToSet
  <2>8. FilesOnce'
    <3>1. ToSet(objQ)' = ToSet(objQ) /\ ToSet(arcQ)' = ToSet(arcQ)
      BY <1>3
    <3> QED BY <1>2, <1>3, <1>4, <2>4, <2>6, <3>1 DEF FilesOnce
  <2>9. Origins'
    <3>1. ASSUME NEW b \in added PROVE Known(b)'
      BY <1>2, <1>3, <1>4, <2>6 DEF Origins, Known
    <3>2. ASSUME NEW b \in ToSet(lto') PROVE Known(b)' /\ b.file = Compiled /\ b.kind \in {"regular", "comdat", "undef"}
      <4>1. Compiled \notin Objects /\ Compiled \notin Archives /\ Compiled # Driver
        BY SortAssumption DEF Files
      <4>2. b \in FromLTO
        BY <2>3
      <4> QED BY <2>6, <4>1, <4>2 DEF Known, FromLTO
    <3>3. \A b \in added : b.file # Compiled
      BY <1>2, <2>5, SortAssumption DEF Origins, Known
    <3>4. ToSet(lto)' = ToSet(lto') /\ added' = added
      BY <1>3 DEF ToSet
    <3> QED BY <2>2, <3>1, <3>2, <3>3, <3>4 DEF Origins
  <2>10. Backrefs'
    BY <1>2, <1>3 DEF Backrefs, Candidates
  <2>11. Best'
    <3>1. \A n \in Names : symtab'[n] = symtab[n]
      BY <1>3
    <3>2. added \subseteq added' /\ added' \ added = {} /\ phase # "duplicate"
      BY <1>1, <1>3
    <3>3. \A b \in added' : IsDefined(b) => Settled(b)'
      BY <1>2, <2>4, <2>6, <3>1, <3>2, Improves
    <3> QED BY <3>3 DEF Best
  <2>12. Phases' /\ Inputs' /\ Chosen'
    BY <1>1, <1>2, <1>3, <1>6, <2>4, <2>10, InputsKept DEF Inv, Phases, Early, Loop, Chosen, Ends
  <2> QED BY <2>7, <2>8, <2>9, <2>11, <2>12 DEF Inv
<1> QED BY <1>1, <1>5, <1>6

(* ReplaceBitcode: what bitcode was compiled to takes its place and wins   *)
(* over the rest, or the link fails.                                       *)
LEMMA ReplaceBitcodeInv ==
  ASSUME Inv, ReplaceBitcode
  PROVE  Inv'
<1>1. PICK new, was, old, put :
        /\ new = Head(lto) /\ was = symtab[new.name] /\ old = IF was = None THEN new ELSE was
        /\ put = [symtab EXCEPT ![new.name] = new]
  OBVIOUS
<1>2. /\ phase = "replace" /\ lto # <<>> /\ lto' = Tail(lto) /\ added' = added \cup {new}
      /\ \/ IsLazy(old) /\ AddMemberFile(old) /\ UNCHANGED <<symtab, phase>>
         \/ /\ ~IsLazy(old) /\ UNCHANGED queues
            /\ \E c \in IF IsBitcode(old) THEN {-1} ELSE Compare(old, new) :
                 /\ symtab' = IF c < 0 THEN put ELSE symtab
                 /\ phase' = IF c = 0 THEN "duplicate" ELSE phase
      /\ UNCHANGED <<world, running, fresh, alias, reading, config, loops, roots, compiled>>
  BY <1>1 DEF ReplaceBitcode
<1>3. /\ Typed /\ FilesOnce /\ Origins /\ Backrefs /\ Best
      /\ compiled > 0 /\ running /\ accum = <<>>
  BY <1>2 DEF Inv, Chosen, Phases, Loop, Ends
<1>4. /\ new \in ToSet(lto) /\ new \in Bodies
      /\ lto' \in Seq(Bodies) /\ ToSet(lto)' \subseteq ToSet(lto)
  BY <1>1, <1>2, <1>3, TailFacts DEF Typed, ToSet
<1>5. Known(new) /\ new.file = Compiled /\ new.kind \in {"regular", "comdat", "undef"}
  BY <1>3, <1>4 DEF Origins
<1>6. /\ new.name \in Names /\ ~IsLazy(new) /\ ~IsBitcode(new) /\ new # None
      /\ IsDefined(new) \/ IsUndefined(new)
  BY <1>4, <1>5, BodyFacts DEF BitcodeKinds
<1>7. was \in BodyOrNone /\ (was # None => was \in added /\ was.name = new.name)
  BY <1>1, <1>3, <1>6 DEF Typed, Backrefs, Candidates
<1>8. /\ put \in [Names -> BodyOrNone] /\ put[new.name] = new
      /\ \A m \in Names \ {new.name} : put[m] = symtab[m]
  BY <1>1, <1>3, <1>4, <1>6 DEF Typed, BodyOrNone
<1>9. symtab' \in {symtab, put} /\ phase' \in {"replace", "duplicate"}
  BY <1>2
<1>10. /\ files' \in Seq(Files \cup {Compiled})
       /\ objQ' \in Seq(Objects) /\ arcQ' \in Seq(Archives) /\ seen' \subseteq Objects
       /\ FilesOnce' /\ FilesKept
  <2>1. UNCHANGED <<world, visited, compiled>>
    BY <1>2 DEF config
  <2>2. CASE IsLazy(old)
    <3>1. old \in added
      BY <1>1, <1>6, <1>7, <2>2
    <3>2. AddMemberFile(old)
      BY <1>2, <2>2
    <3> QED BY <1>3, <2>1, <2>2, <3>1, <3>2, AddMemberKeeps
  <2>3. CASE ~IsLazy(old)
    <3>1. AddMemberFile(None)
      BY <1>2, <2>3 DEF AddMemberFile
    <3> QED BY <1>3, <2>1, <3>1, AddMemberKeeps
  <2> QED BY <2>2, <2>3
<1>11. UNCHANGED <<world, running, fresh, cur, dirs, accum, visited, exports, alts, entry, esym, list, pool, compiled>>
  BY <1>2 DEF reading, config, loops
<1>12. added' \subseteq Bodies /\ IsFiniteSet(added')
  BY <1>2, <1>3, <1>4, FS_AddElement DEF Typed
<1>13. Typed' /\ Asked'
  <2>1. symtab' \in [Names -> BodyOrNone]
    BY <1>3, <1>8, <1>9 DEF Typed
  <2> QED BY <1>3, <1>4, <1>10, <1>11, <1>12, <2>1 DEF Inv, Typed, Asked, ToSet
<1>14. Origins'
  <2>1. added' \cup ToSet(lto)' \subseteq added \cup ToSet(lto)
    BY <1>2, <1>4
  <2>2. MemberFiles(world)' = MemberFiles(world) /\ ToSet(files) \subseteq ToSet(files)'
    BY <1>10, <1>11 DEF FilesKept
  <2>3. \A b \in added \cup ToSet(lto) : Known(b)'
    BY <1>3, <1>11, <2>2 DEF Origins, Known
  <2> QED BY <1>3, <1>4, <2>1, <2>3 DEF Origins
<1>15. Backrefs'
  <2>1. \A m \in Names : symtab'[m] # None => symtab'[m] \in added' /\ symtab'[m].name = m
    BY <1>2, <1>3, <1>8, <1>9 DEF Backrefs, Candidates
  <2> QED BY <2>1 DEF Backrefs, Candidates
<1>16. Phases' /\ Inputs' /\ Chosen'
  <2>1. Phases'
    BY <1>2, <1>3, <1>9, <1>11 DEF Inv, Phases, Early, Loop
  <2>2. Chosen'
    BY <1>3, <1>9, <1>11, <1>15 DEF Chosen, Ends
  <2> QED BY <1>2, <1>9, <1>11, <2>1, <2>2, InputsKept
<1>17. Best'
  <2> SUFFICES ASSUME phase' # "duplicate" PROVE \A b \in added' : IsDefined(b) => Settled(b)'
    BY DEF Best
  <2>1. HasFile(new) /\ (IsDefined(was) => HasFile(was))
    BY <1>3, <1>4, <1>7, AddedHaveFiles, NotBodies
  <2>2. ASSUME IsDefined(was), IsDefined(new), was # new, ~IsBitcode(was)
        PROVE  \/ Beats(was, new) /\ symtab' = symtab
               \/ Beats(new, was) /\ symtab' = put
    <3>1. was \in added /\ was.name = new.name /\ was \in Bodies /\ old = was /\ ~IsLazy(was)
      BY <1>1, <1>7, <2>2, NotBodies, BodyFacts DEF BodyOrNone, IsLazy, IsDefined, DefinedKinds, BitcodeKinds
    <3>2. PICK c \in Compare(was, new) : symtab' = (IF c < 0 THEN put ELSE symtab) /\ c # 0
      BY <1>2, <2>2, <3>1
    <3>3. c \in {-1, 1}
      BY <1>4, <3>1, <3>2, CompareValues
    <3>4. ByFile(was, new) => (Before(was, new) <=> ~Before(new, was))
      BY <1>3, <1>4, <1>5, <1>7, <2>2, <3>1, FilesTell
    <3>5. (1 \in Compare(was, new) <=> Beats(was, new)) /\ (-1 \in Compare(was, new) <=> Beats(new, was))
      BY <1>4, <2>2, <3>1, <3>4, CompareDefinitions
    <3> QED BY <3>2, <3>3, <3>5
  <2>3. ASSUME IsDefined(was), IsUndefined(new), ~IsBitcode(was)
        PROVE  symtab' = symtab
    <3>1. was \in Bodies /\ old = was /\ ~IsLazy(was)
      BY <1>1, <1>7, <2>3, NotBodies, BodyFacts DEF BodyOrNone, IsLazy, IsDefined, DefinedKinds, BitcodeKinds
    <3>2. Compare(was, new) = {1}
      <4>1. Rank(new) = 8 /\ Rank(was) \in 1 .. 7
        BY <1>4, <2>3, <3>1, Ranks, BodyFacts DEF BitcodeKinds
      <4>2. CompareOrdered(was, new) = {1}
        BY <1>6, <2>3, <4>1 DEF CompareOrdered
      <4> QED BY <4>1, <4>2 DEF Compare
    <3> QED BY <1>2, <2>3, <3>1, <3>2
  <2>4. ASSUME NEW m \in Names
        PROVE  \/ symtab'[m] = symtab[m]
               \/ ~IsDefined(symtab[m])
               \/ /\ symtab'[m] \in Bodies /\ IsDefined(symtab'[m])
                  /\ HasFile(symtab'[m]) /\ Beats(symtab'[m], symtab[m])
               \/ IsBitcode(symtab[m]) /\ compiled' > 0
    <3> SUFFICES ASSUME symtab'[m] # symtab[m], IsDefined(symtab[m]), ~IsBitcode(symtab[m])
                 PROVE  /\ symtab'[m] \in Bodies /\ IsDefined(symtab'[m])
                        /\ HasFile(symtab'[m]) /\ Beats(symtab'[m], symtab[m])
      BY <1>3, <1>11
    <3>1. m = new.name /\ symtab' = put /\ symtab'[m] = new /\ symtab[m] = was /\ was # new /\ symtab' # symtab
      BY <1>1, <1>8, <1>9
    <3>2. IsDefined(new)
      BY <1>6, <2>3, <3>1
    <3> QED BY <1>4, <2>1, <2>2, <3>1, <3>2
  <2>5. ASSUME IsDefined(new) PROVE Settled(new)'
    <3>1. CASE symtab'[new.name] = new
      BY <3>1 DEF Settled
    <3>2. CASE symtab'[new.name] # new
      <4>1. symtab' = symtab /\ was # new
        BY <1>1, <1>8, <1>9, <3>2
      <4>2. CASE IsLazy(old)
        <5>1. old \in Candidates(new.name)'
          BY <1>1, <1>2, <1>6, <1>7, <4>2 DEF Candidates
        <5> QED BY <1>5, <4>2, <5>1 DEF Settled, SetAside
      <4>3. CASE ~IsLazy(old)
        <5>1. PICK c \in IF IsBitcode(old) THEN {-1} ELSE Compare(old, new) :
                symtab' = (IF c < 0 THEN put ELSE symtab) /\ c # 0
          BY <1>2, <4>3
        <5>2. ~IsBitcode(old) /\ -1 \notin {c}
          BY <1>8, <3>2, <5>1
        <5>3. old \in Bodies
          BY <1>1, <1>4, <1>7 DEF BodyOrNone
        <5>4. c = 1 /\ 1 \in Compare(old, new)
          BY <1>4, <5>1, <5>2, <5>3, CompareValues
        <5>5. was # None
          <6> SUFFICES ASSUME was = None PROVE FALSE
            OBVIOUS
          <6>1. old = new /\ ~Beats(new, new)
            <7>1. ~Before(new, new)
              BY <1>3, <1>5, IndexInt, SortAssumption DEF Before, Known
            <7> QED BY <1>1, <1>5, <7>1 DEF Beats, Others, BitcodeKinds
          <6>2. ByFile(new, new) => Before(new, new)
            BY <1>4, <2>5, <5>4, <6>1, OrderedDefinitions, Ranks DEF Compare
          <6> QED BY <1>4, <2>5, <5>4, <6>1, OrderedDefinitions, Ranks DEF Compare
        <5>6. IsDefined(was)
          <6>1. was \in Bodies /\ old = was
            BY <1>1, <1>7, <5>5 DEF BodyOrNone
          <6>2. IsUndefined(was) => Compare(was, new) = {-1}
            <7> SUFFICES ASSUME IsUndefined(was) PROVE Compare(was, new) = {-1}
              OBVIOUS
            <7>1. Rank(was) = 8 /\ Rank(new) \in 1 .. 7
              BY <1>4, <2>5, <6>1, Ranks, BodyFacts DEF BitcodeKinds
            <7>2. CompareOrdered(new, was) = {1}
              BY <5>2, <6>1, <7>1 DEF CompareOrdered
            <7> QED BY <7>1, <7>2 DEF Compare
          <6> QED BY <4>3, <5>4, <6>1, <6>2, BodyFacts
        <5>7. Beats(was, new)
          BY <1>1, <1>8, <2>2, <2>5, <3>2, <4>1, <5>2, <5>5, <5>6
        <5>8. Beats(was, new)' /\ symtab'[new.name] = was
          BY <1>1, <1>4, <1>7, <1>10, <2>1, <4>1, <5>5, <5>6, <5>7, BeatsKept DEF BodyOrNone
        <5> QED BY <5>6, <5>8 DEF Settled
      <4> QED BY <4>2, <4>3
    <3> QED BY <3>1, <3>2
  <2>6. \A b \in added' \ added : IsDefined(b) => Settled(b)'
    BY <1>2, <2>5
  <2>7. added \subseteq added' /\ phase # "duplicate" /\ (compiled > 0 => compiled' > 0)
    BY <1>2, <1>11
  <2> QED BY <1>3, <1>10, <2>4, <2>6, <2>7, Improves
<1> QED BY <1>10, <1>13, <1>14, <1>16, <1>17 DEF Inv

-----------------------------------------------------------------------------
(* The invariants.                                                         *)

LEMMA InitInv == ASSUME Init PROVE Inv /\ Alternates /\ Aliases
<1> USE DEF Init
<1>1. /\ world \in Worlds /\ world.cmd \in Seq(Files) /\ world.include \in Seq(Names)
      /\ world.alts \subseteq Names \X Names
  BY WorldAssumption
<1>2. \A i \in DOMAIN world.cmd : world.cmd[i] \in Files
  BY <1>1, ElementOfSeq, LenProperties
<1>3. ToSet(<<>>) = {} /\ DOMAIN <<>> = {} /\ \A S : <<>> \in Seq(S)
  BY EmptySeq DEF ToSet
<1>4. visited = ToSet(world.cmd) /\ visited \subseteq Files
  BY <1>2 DEF ToSet
<1>5. Typed
  <2>1. symtab \in [Names -> BodyOrNone] /\ entry \in BodyOrNone /\ esym \in BodyOrNone
    BY DEF BodyOrNone
  <2>2. cur \in (Nat \ {0}) \X (Nat \ {0})
    OBVIOUS
  <2>3. /\ files \in Seq(Files \cup {Compiled}) /\ objQ \in Seq(Objects) /\ arcQ \in Seq(Archives)
        /\ dirs \in Seq(Directives) /\ accum \in Seq(Names) /\ exports \in Seq(Names) /\ lto \in Seq(Bodies)
    BY <1>3
  <2> QED BY <1>1, <1>4, <2>1, <2>2, <2>3, FS_EmptySet DEF Typed
<1>6. Phases
  BY DEF Phases, Early, Loop
<1>7. FilesOnce
  <2>1. visited \cap MemberFiles(world) = {}
    BY <1>1, <1>4, FileAssumption
  <2> QED BY <1>3, <2>1 DEF FilesOnce
<1>8. Inputs /\ Asked
  <2>1. Len(files) = 0 /\ Len(world.cmd) \in Nat
    BY <1>1, <1>3, LenProperties
  <2> QED BY <1>3, <1>4, <2>1, NotBodies DEF Inputs, NoLazy, Asked
<1>9. Origins /\ Chosen /\ Best
  BY <1>3 DEF Origins, Chosen, Ends, Backrefs, Best
<1>10. Alternates /\ Aliases
  BY <1>3 DEF Alternates, Aliases
<1> QED BY <1>5, <1>6, <1>7, <1>8, <1>9, <1>10 DEF Inv

LEMMA StutterInv ==
  ASSUME Inv, UNCHANGED vars
  PROVE  Inv'
<1>1. UNCHANGED <<world, phase, running, symtab, added, fresh, files, objQ, arcQ, seen, cur, dirs, accum, visited,
                  exports, alts, entry, esym, list, pool, lto, compiled>>
  BY DEF vars, table, queues, reading, config, loops, bitcode
<1>2. Typed' /\ Phases' /\ Asked'
  BY <1>1 DEF Inv, Typed, Phases, BitcodeFiles, Asked, ToSet
<1>3. FilesOnce' /\ Origins' /\ (Backrefs => Backrefs') /\ (NoLazy => NoLazy') /\ (phase # "duplicate" => Best')
  BY <1>1, Quiet DEF queues
<1>4. Inputs' /\ Chosen' /\ Best'
  BY <1>1, <1>3 DEF Inv, Inputs, Chosen, Best, ToSet
<1> QED BY <1>2, <1>3, <1>4 DEF Inv

LEMMA NextInv ==
  ASSUME Inv, Alternates, Aliases, Next
  PROVE  Inv'
BY IncludeInv, SimpleDone, AddInputInv, ReadSymbolInv, NextObjectInv, QueueDoneInv, DefaultLibInv,
   AlternateNameInv, ExportDirectiveInv, IncludeDirectiveInv, AddLazyInv, NextArchiveInv, LoadMemberInv,
   SetEntryInv, SetImageBaseInv, MangleEntryInv, ExportInv, ExportsDoneInv, TryAlternateInv, ReportInv,
   UndefinesInv, CreateLTOObjectInv, ReplaceBitcodeInv, StutterInv DEF Next, Terminated

LEMMA NextAlternates ==
  ASSUME Alternates, Next
  PROVE  Alternates'
<1>1. CASE ExportsDone
  BY <1>1 DEF ExportsDone, Alternates, config
<1>2. CASE \E n \in Names : TryAlternate(n) \/ Report(n)
  BY <1>2 DEF TryAlternate, Report, Alternates, config
<1>3. CASE phase' # "alternates"
  BY <1>3 DEF Alternates
<1>4. ASSUME ~ExportsDone, ~\E n \in Names : TryAlternate(n) \/ Report(n), phase' = "alternates"
      PROVE  UNCHANGED <<phase, pool, alts>>
  <2>1. phase' # RunOrLeave
    BY <1>4, RunOrLeaveIs
  <2>2. CASE Include \/ IncludeDone \/ AddInput \/ InputsDone \/ ReadSymbol \/ NextObject \/ ObjectsDone
    BY <1>4, <2>2 DEF Include, IncludeDone, AddInput, InputsDone, ReadSymbol, NextObject, ObjectsDone, config, loops
  <2>3. CASE DefaultLib \/ AlternateName \/ ExportDirective \/ IncludeDirective \/ DirectivesDone
    BY <1>4, <2>3 DEF DefaultLib, AlternateName, ExportDirective, IncludeDirective, DirectivesDone, NextDirective, config, loops
  <2>4. CASE AddLazy \/ NextArchive \/ ArchivesDone \/ LoadMember \/ StepDone
    BY <1>4, <2>1, <2>4 DEF AddLazy, NextArchive, ArchivesDone, LoadMember, StepDone, config, loops
  <2>5. CASE SetEntry \/ SetImageBase \/ MangleEntry \/ ExportUndefined \/ MangleExport \/ RoundDone
    BY <1>4, <2>1, <2>5 DEF SetEntry, SetImageBase, MangleEntry, ExportUndefined, MangleExport, RoundDone, config, loops
  <2>6. CASE CheckUndefines \/ CreateLTOObject \/ ReplaceBitcode \/ ReplaceDone \/ LateDone \/ ReportDone \/ Terminated
    BY <1>4, <2>1, <2>6 DEF CheckUndefines, CreateLTOObject, ReplaceBitcode, ReplaceDone, LateDone, ReportDone, Terminated, vars, config, loops
  <2> QED BY <1>4, <2>2, <2>3, <2>4, <2>5, <2>6 DEF Next
<1> QED BY <1>1, <1>2, <1>3, <1>4 DEF Alternates

\* Aliases and roots are what addUndefined returned.
LEMMA Rooting ==
  ASSUME Inv, Aliases, NEW n \in Names, NEW r \in AddUndefined(n), Install(r), phase \notin {"report"} \cup Ends,
         UNCHANGED <<world, visited, lto, compiled>>
  PROVE  /\ UNCHANGED alias /\ roots' = roots \cup {r.ret} => Aliases'
         /\ \A u : SetAlias(u, r.ret) /\ UNCHANGED roots => Aliases'
<1>1. r.ret \in added' /\ IsUndefined(r.ret) /\ added \subseteq added'
  <2>1. r.ret \in added' /\ IsUndefined(r.ret)
    BY Undefining
  <2> QED BY <2>1 DEF Install
<1> QED BY <1>1 DEF Aliases, SetAlias

LEMMA NextAliases ==
  ASSUME Inv, Alternates, Aliases, Next
  PROVE  Aliases'
<1>1. ASSUME UNCHANGED <<alias, roots>>, added \subseteq added' PROVE Aliases'
  BY <1>1 DEF Aliases
<1>2. CASE IncludeDone \/ AddInput \/ InputsDone \/ ReadSymbol \/ NextObject \/ ObjectsDone \/ DefaultLib
           \/ AlternateName \/ ExportDirective \/ DirectivesDone
  BY <1>1, <1>2 DEF IncludeDone, AddInput, InputsDone, ReadSymbol, NextObject, ObjectsDone, DefaultLib,
     AlternateName, ExportDirective, DirectivesDone, table, bitcode
<1>3. CASE AddLazy \/ NextArchive \/ ArchivesDone \/ LoadMember \/ StepDone \/ SetImageBase \/ ExportsDone \/ RoundDone
  BY <1>1, <1>3 DEF AddLazy, NextArchive, ArchivesDone, LoadMember, StepDone, SetImageBase, ExportsDone, RoundDone,
     table, bitcode
<1>4. CASE CheckUndefines \/ CreateLTOObject \/ ReplaceBitcode \/ ReplaceDone \/ LateDone \/ ReportDone \/ Terminated
  BY <1>1, <1>4 DEF CheckUndefines, CreateLTOObject, ReplaceBitcode, ReplaceDone, LateDone, ReportDone, Terminated,
     vars, table, bitcode
<1>5. CASE \E n \in Names : Report(n)
  BY <1>1, <1>5 DEF Report, table, bitcode
<1>6. CASE Include
  <2>1. Head(list) \in Names
    BY <1>6, TailFacts DEF Include, Inv, Typed
  <2>2. PICK r \in AddUndefined(Head(list)) : Install(r) /\ roots' = roots \cup {r.ret}
    BY <1>6 DEF Include, InstallRoot
  <2>3. phase = "include" /\ UNCHANGED <<world, visited, lto, compiled, alias>>
    BY <1>6 DEF Include, config
  <2> QED BY <2>1, <2>2, <2>3, Rooting DEF Ends
<1>7. CASE IncludeDirective
  <2>1. PICK r \in AddUndefined(Head(dirs).from) : Install(r) /\ roots' = roots \cup {r.ret}
    BY <1>7 DEF IncludeDirective, InstallRoot
  <2>2. phase = "directives" /\ dirs # <<>> /\ Head(dirs).opt = "include" /\ UNCHANGED <<world, visited, lto, compiled, alias>>
    BY <1>7 DEF IncludeDirective, NextDirective, config
  <2>3. Head(dirs).from \in Names
    BY <2>2, NextDirectiveFacts
  <2> QED BY <2>1, <2>2, <2>3, Rooting DEF Ends
<1>8. CASE SetEntry
  <2>1. phase = "entry" /\ UNCHANGED <<world, visited, lto, compiled, alias>>
    BY <1>8 DEF SetEntry
  <2>2. CASE world.entry = None
    BY <1>1, <1>8, <2>2 DEF SetEntry, table
  <2>3. CASE world.entry # None
    <3>1. world.entry \in Names
      BY <2>3, WorldAssumption DEF Inv, Typed
    <3>2. PICK r \in AddUndefined(world.entry) : Install(r) /\ roots' = roots \cup {r.ret}
      BY <1>8, <2>3 DEF SetEntry, InstallRoot
    <3> QED BY <2>1, <3>1, <3>2, Rooting DEF Ends
  <2> QED BY <2>2, <2>3
<1>9. CASE ExportUndefined
  <2>1. phase = "exports" /\ list # <<>> /\ UNCHANGED <<world, visited, lto, compiled, alias>>
    BY <1>9 DEF ExportUndefined, config
  <2>2. Head(list) \in Names
    BY <2>1, TailFacts DEF Inv, Typed
  <2>3. PICK r \in AddUndefined(Head(list)) : Install(r) /\ roots' = roots \cup {r.ret}
    BY <1>9 DEF ExportUndefined, InstallRoot
  <2> QED BY <2>1, <2>2, <2>3, Rooting DEF Ends
<1>10. ASSUME NEW u \in Bodies, MangleMaybe(u), phase \notin {"report"} \cup Ends,
              UNCHANGED <<world, visited, lto, compiled, roots>>
       PROVE  Aliases'
  <2>1. CASE UNCHANGED <<table, alias, queues>>
    BY <1>1, <1>10, <2>1 DEF table
  <2>2. CASE ~UNCHANGED <<table, alias, queues>>
    <3>1. PICK m \in Mangled[u.name] : \E r \in AddUndefined(m) : Install(r) /\ SetAlias(u, r.ret)
      BY <1>10, <2>2 DEF MangleMaybe
    <3>2. m \in Names
      BY SortAssumption, BodyFacts
    <3> QED BY <1>10, <3>1, <3>2, Rooting
  <2> QED BY <2>1, <2>2
<1>11. CASE MangleEntry \/ MangleExport
  <2>1. /\ phase \in {"entryLoop", "exports"} /\ UNCHANGED <<world, visited, lto, compiled, roots>>
        /\ UNCHANGED <<table, alias>> \/ \E u \in {entry, esym} : u # None /\ MangleMaybe(u)
    BY <1>11 DEF MangleEntry, MangleExport, config, bitcode
  <2>2. \A u \in {entry, esym} : u # None => u \in Bodies
    BY DEF Inv, Typed, BodyOrNone
  <2> QED BY <1>1, <1>10, <2>1, <2>2 DEF Ends, table
<1>12. CASE \E n \in Names : TryAlternate(n)
  <2> PICK n \in Names : TryAlternate(n)
    BY <1>12
  <2>1. PICK to : to = (CHOOSE p \in alts : p[1] = n)[2]
    OBVIOUS
  <2>2. /\ phase = "alternates" /\ n \in pool /\ UNCHANGED <<world, visited, lto, compiled, roots>>
        /\ \/ UNCHANGED <<table, alias>>
           \/ \E r \in AddUndefined(to) : Install(r) /\ SetAlias(symtab[n], r.ret)
    BY <2>1 DEF TryAlternate, config, bitcode
  <2>3. to \in Names
    <3>1. \E p \in alts : p[1] = n
      BY <2>2 DEF Alternates
    <3>2. PICK q \in alts : q = CHOOSE p \in alts : p[1] = n
      BY <3>1
    <3>3. q \in Names \X Names
      BY DEF Inv, Typed
    <3> QED BY <2>1, <3>2, <3>3
  <2> QED BY <1>1, <2>2, <2>3, Rooting DEF Ends, table
<1> QED BY <1>2, <1>3, <1>4, <1>5, <1>6, <1>7, <1>8, <1>9, <1>11, <1>12 DEF Next

(* The invariants hold of every link.                                      *)
THEOREM InvHolds == Spec => [](Inv /\ Alternates /\ Aliases)
<1>1. Init => Inv /\ Alternates /\ Aliases
  BY InitInv
<1>2. Inv /\ Alternates /\ Aliases /\ [Next]_vars => (Inv /\ Alternates /\ Aliases)'
  <2>1. ASSUME Inv, Alternates, Aliases, UNCHANGED vars PROVE Alternates' /\ Aliases'
    BY <2>1 DEF Alternates, Aliases, vars, table, config, loops, bitcode
  <2> QED BY <2>1, NextInv, NextAlternates, NextAliases, StutterInv
<1> QED BY <1>1, <1>2, PTL DEF Spec

(* A body that beats another is found to win over it by compare().         *)
LEMMA BeatsCompare ==
  ASSUME NEW a \in Bodies, NEW b \in Bodies, IsDefined(a), IsDefined(b), Beats(a, b)
  PROVE  1 \in Compare(a, b)
<1>1. Rank(a) \in Nat /\ Rank(b) \in Nat
  BY Ranks
<1>2. CASE Rank(a) <= Rank(b)
  BY <1>1, <1>2, OrderedDefinitions DEF Compare
<1>3. CASE Rank(a) > Rank(b)
  <2>1. ~ByFile(b, a)
    BY <1>3, Ranks DEF ByFile
  <2>2. -1 \in CompareOrdered(b, a)
    BY <1>1, <1>3, <2>1, OrderedDefinitions
  <2>3. Compare(a, b) = {-c : c \in CompareOrdered(b, a)}
    BY <1>3 DEF Compare
  <2>4. \A c, d \in {-1, 0, 1} : -c = -d <=> c = d
    OBVIOUS
  <2>5. CompareOrdered(b, a) \subseteq {-1, 0, 1}
    BY <1>1, <1>3, OrderedDefinitions
  <2>6. \A c \in {-1, 0, 1} : -c \in Compare(a, b) <=> c \in CompareOrdered(b, a)
    BY <2>3, <2>4, <2>5
  <2> QED BY <2>2, <2>6
<1> QED BY <1>1, <1>2, <1>3

(* COFF/README.md: "The resolver keeps the Symbol's pointer to always      *)
(* point to the best SymbolBody", in links of any number of files, members *)
(* and symbols, in whatever order they arrive.                             *)
THEOREM BestIsKept == Spec => []WinnerIsBest
<1>1. ASSUME Inv PROVE WinnerIsBest
  <2> SUFFICES ASSUME phase # "duplicate", NEW n \in Names, NEW b \in Candidates(n), IsDefined(b)
               PROVE  \/ symtab[n] = b
                      \/ IsDefined(symtab[n]) /\ 1 \in Compare(symtab[n], b)
                      \/ SetAside(b)
    BY DEF WinnerIsBest
  <2>1. b \in added /\ b.name = n /\ b \in Bodies /\ Settled(b)
    BY <1>1 DEF Candidates, Inv, Typed, Best
  <2>2. IsDefined(symtab[n]) => symtab[n] \in Bodies
    BY <1>1, NotBodies DEF Inv, Typed, BodyOrNone
  <2> QED BY <2>1, <2>2, BeatsCompare DEF Settled
<1> QED BY <1>1, InvHolds, PTL

(* addLazy adds what an archive of the queue offers.                       *)
LEMMA LazyFacts ==
  ASSUME Inv, AddLazy
  PROVE  \E new \in Bodies :
           /\ \E a \in Archives : \E i \in DOMAIN world.index[a] : new = world.index[a][i] /\ new.file = a
           /\ Known(new) /\ IsLazy(new) /\ new.kind = "lazy" /\ ~IsDefined(new) /\ new.name \in Names
           /\ phase = "archives" /\ phase' = phase /\ added' = added \cup {new}
           /\ LET old == symtab[new.name]
              IN  IF IsDefined(old) \/ (IsLazy(old) /\ Index(old.file) < Index(new.file))
                  THEN UNCHANGED <<symtab, accum>>
                  ELSE /\ symtab' = [symtab EXCEPT ![new.name] = new]
                       /\ accum' = IF IsUndefined(old) THEN Append(accum, new.name) ELSE accum
<1>1. PICK a, i, new : a = arcQ[cur[1]] /\ i = cur[2] /\ new = world.index[a][i]
  OBVIOUS
<1>2. /\ phase = "archives" /\ phase' = phase /\ cur[1] <= Len(arcQ) /\ i <= Len(world.index[a])
      /\ added' = added \cup {new}
      /\ LET old == symtab[new.name]
         IN  IF IsDefined(old) \/ (IsLazy(old) /\ Index(old.file) < Index(new.file))
             THEN UNCHANGED <<symtab, accum>>
             ELSE /\ symtab' = [symtab EXCEPT ![new.name] = new]
                  /\ accum' = IF IsUndefined(old) THEN Append(accum, new.name) ELSE accum
  BY <1>1 DEF AddLazy
<1>3. arcQ \in Seq(Archives) /\ cur[1] \in Nat \ {0} /\ i \in Nat \ {0} /\ world \in Worlds
  BY <1>1 DEF Inv, Typed
<1>4. a \in Archives /\ a \in ToSet(arcQ)
  <2>1. DOMAIN arcQ = 1 .. Len(arcQ) /\ Len(arcQ) \in Nat
    BY <1>3, LenProperties
  <2>2. cur[1] \in DOMAIN arcQ /\ cur[1] \in Nat
    BY <1>2, <1>3, <2>1
  <2> QED BY <1>1, <1>3, <2>2 DEF ToSet
<1>5. world.index[a] \in Seq(Bodies)
  BY <1>3, <1>4, WorldAssumption
<1>6. i \in DOMAIN world.index[a] /\ new \in Bodies
  <2>1. /\ DOMAIN world.index[a] = 1 .. Len(world.index[a])
        /\ Len(world.index[a]) \in Nat
    BY <1>5, LenProperties
  <2>2. i \in DOMAIN world.index[a]
    BY <1>2, <1>3, <2>1
  <2> QED BY <1>1, <1>5, <2>2
<1>7. new.file = a /\ new.kind = "lazy" /\ new.to \in Objects
  BY <1>1, <1>3, <1>4, <1>6, FileAssumption
<1>8. a \in ToSet(files) /\ a \notin Objects /\ a # Driver /\ a # Compiled
  BY <1>4, SortAssumption DEF Inv, FilesOnce, Files
<1>9. new.to \in MemberFiles(world)
  BY <1>1, <1>4, <1>6 DEF MemberFiles
<1>10. /\ Known(new) /\ IsLazy(new) /\ ~IsDefined(new) /\ new.name \in Names
  BY <1>4, <1>6, <1>7, <1>8, <1>9, BodyFacts DEF Known, Others, BitcodeKinds
<1> QED BY <1>1, <1>2, <1>4, <1>6, <1>7, <1>10

-----------------------------------------------------------------------------
(* Files are read once and as a whole.                                     *)

Failed == Ends \ {"linked"}

\* readObjects has not come to the k-th symbol of file o, which is in the queue.
Unread(o, k) ==
  IF phase = "objects"
  THEN \E j \in DOMAIN objQ : /\ objQ[j] = o
                              /\ j > cur[1] \/ (j = cur[1] /\ k >= cur[2])
  ELSE o \in ToSet(objQ)

Cursor ==
  /\ phase \notin {"objects", "archives"} => cur = <<1, 1>>
  /\ phase \in {"check", "compile", "late", "report", "linked"} => objQ = <<>>

\* A symbol of a file was added or is unread, and not both.
Whole ==
  /\ \A i, j \in DOMAIN objQ : objQ[i] = objQ[j] => i = j
  /\ \A o \in ToSet(files) \cap Objects : \A k \in DOMAIN world.syms[o] :
       world.syms[o][k] \in added <=> ~Unread(o, k)

\* Aliases are set on bodies that were added; the driver's bodies are numbered.
Numbered ==
  /\ DOMAIN alias \subseteq added
  /\ entry \in added \cup {None} /\ esym \in added \cup {None}
  /\ \A b \in added : b.file = Driver => b.id < fresh

ReadInv == phase \notin Failed => Cursor /\ Whole /\ Numbered

\* What a step that adds symbol new, if any, does to what is unread.
Reads(new) ==
  \A o \in Objects : \A k \in DOMAIN world.syms[o] :
    Unread(o, k)' <=> \/ Unread(o, k) /\ world.syms[o][k] # new
                      \/ o \in ToSet(files)' \ ToSet(files)

LEMMA Queued ==
  ASSUME NEW o, NEW k \in Nat \ {0}
  PROVE  /\ objQ \in Seq(Objects) /\ (phase # "objects" \/ cur = <<1, 1>>) =>
              (Unread(o, k) <=> o \in ToSet(objQ))
         /\ objQ' \in Seq(Objects) /\ (phase' # "objects" \/ cur' = <<1, 1>>) =>
              (Unread(o, k)' <=> o \in ToSet(objQ)')
<1>1. ASSUME objQ \in Seq(Objects), cur = <<1, 1>>, phase = "objects"
      PROVE  Unread(o, k) <=> o \in ToSet(objQ)
  <2>1. DOMAIN objQ = 1 .. Len(objQ) /\ Len(objQ) \in Nat
    BY <1>1, LenProperties
  <2> QED BY <1>1, <2>1 DEF Unread, ToSet
<1>2. ASSUME objQ' \in Seq(Objects), cur' = <<1, 1>>, phase' = "objects"
      PROVE  Unread(o, k)' <=> o \in ToSet(objQ)'
  <2>1. DOMAIN objQ' = 1 .. Len(objQ') /\ Len(objQ') \in Nat
    BY <1>2, LenProperties
  <2> QED BY <1>2, <2>1 DEF Unread, ToSet
<1> QED BY <1>1, <1>2 DEF Unread

\* Symbols of the files of a world.
LEMMA SymbolsAre ==
  ASSUME world \in Worlds, NEW o \in Objects
  PROVE  /\ world.syms[o] \in Seq(Bodies)
         /\ \A k \in DOMAIN world.syms[o] :
              /\ k \in Nat \ {0} /\ world.syms[o][k] \in Bodies
              /\ world.syms[o][k].file = o /\ world.syms[o][k].id = k
              /\ world.syms[o][k].kind # "lazy"
<1>1. world.syms[o] \in Seq(Bodies)
  BY WorldAssumption
<1>2. /\ DOMAIN world.syms[o] = 1 .. Len(world.syms[o]) /\ Len(world.syms[o]) \in Nat
      /\ \A k \in DOMAIN world.syms[o] : world.syms[o][k] \in Bodies
  BY <1>1, LenProperties, ElementOfSeq
<1> QED BY <1>1, <1>2, FileAssumption

(* A step that reads what it adds keeps Whole.                             *)
LEMMA WholeKept ==
  ASSUME Inv, Whole, world' = world, NEW new,
         added' \in {added, added \cup {new}}, new # None => new \in added' /\ Known(new),
         ToSet(files) \subseteq ToSet(files)', Reads(new),
         \A i, j \in DOMAIN objQ' : objQ'[i] = objQ'[j] => i = j
  PROVE  Whole'
<1> SUFFICES ASSUME NEW o \in ToSet(files)' \cap Objects, NEW k \in DOMAIN world.syms[o]
             PROVE  world.syms[o][k] \in added' <=> ~Unread(o, k)'
  BY DEF Whole
<1>1. world.syms[o][k] \in Bodies /\ world.syms[o][k].file = o
  BY SymbolsAre DEF Inv, Typed
<1>2. world.syms[o][k] # None
  BY <1>1, SortAssumption
<1>3. CASE o \in ToSet(files)
  BY <1>2, <1>3 DEF Whole, Reads
<1>4. CASE o \notin ToSet(files)
  <2>1. \A b \in added \cup {new} : b # None => Known(b)
    BY DEF Inv, Origins
  <2>2. o # Driver
    BY SortAssumption DEF Files
  <2>3. world.syms[o][k] \notin added \cup {new}
    BY <1>1, <1>2, <1>4, <2>1, <2>2 DEF Known
  <2> QED BY <1>4, <2>3 DEF Reads
<1> QED BY <1>3, <1>4

(* Steps that read nothing and may put files into the queue.               *)
LEMMA ReadsNothing ==
  ASSUME Inv, Inv', world' = world, NEW new, new = None \/ new.file \notin Objects,
         phase # "objects" \/ cur = <<1, 1>>, phase' # "objects" \/ cur' = <<1, 1>>,
         ToSet(objQ)' = ToSet(objQ) \cup ((ToSet(files)' \ ToSet(files)) \cap Objects)
  PROVE  Reads(new)
<1> SUFFICES ASSUME NEW o \in Objects, NEW k \in DOMAIN world.syms[o]
             PROVE  Unread(o, k)' <=> \/ Unread(o, k) /\ world.syms[o][k] # new
                                      \/ o \in ToSet(files)' \ ToSet(files)
  BY DEF Reads
<1>1. k \in Nat \ {0} /\ world.syms[o][k] \in Bodies /\ world.syms[o][k].file = o
  BY SymbolsAre DEF Inv, Typed
<1>2. world.syms[o][k] # new
  BY <1>1, SortAssumption
<1>3. Unread(o, k) <=> o \in ToSet(objQ)
  BY <1>1, Queued DEF Inv, Typed
<1>4. Unread(o, k)' <=> o \in ToSet(objQ)'
  BY <1>1, Queued DEF Inv, Typed
<1> QED BY <1>2, <1>3, <1>4

\* addFile puts an object into the queue.
LEMMA AddFileQueues ==
  ASSUME Typed, FilesOnce, Whole, NEW f \in Files, f \notin ToSet(files), AddFile(f)
  PROVE  /\ ToSet(objQ)' = ToSet(objQ) \cup ((ToSet(files)' \ ToSet(files)) \cap Objects)
         /\ ToSet(files)' = ToSet(files) \cup {f}
         /\ \A i, j \in DOMAIN objQ' : objQ'[i] = objQ'[j] => i = j
         /\ \A i \in DOMAIN objQ : i \in DOMAIN objQ' /\ objQ'[i] = objQ[i]
         /\ \A i \in DOMAIN objQ' \ DOMAIN objQ : i = Len(objQ) + 1 /\ objQ'[i] = f
         /\ f \in Objects => Len(objQ) + 1 \in DOMAIN objQ'
<1>1. ToSet(files)' = ToSet(files) \cup {f}
  <2>1. files \in Seq(Files \cup {Compiled}) /\ f \in Files \cup {Compiled} /\ files' = Append(files, f)
    BY DEF Typed, AddFile
  <2> QED BY <2>1, AppendFacts
<1>2. CASE f \in Objects
  <2>1. objQ' = Append(objQ, f) /\ objQ \in Seq(Objects)
    BY <1>2 DEF AddFile, Typed
  <2>2. /\ DOMAIN objQ = 1 .. Len(objQ) /\ DOMAIN objQ' = 1 .. Len(objQ) + 1 /\ Len(objQ) \in Nat
        /\ \A i \in DOMAIN objQ : objQ'[i] = objQ[i]
        /\ objQ'[Len(objQ) + 1] = f
        /\ ToSet(objQ)' = ToSet(objQ) \cup {f}
    BY <1>2, <2>1, AppendFacts
  <2>3. \A i \in DOMAIN objQ : objQ[i] # f
    BY DEF FilesOnce, ToSet
  <2>4. \A i, j \in DOMAIN objQ' : objQ'[i] = objQ'[j] => i = j
    BY <2>2, <2>3 DEF Whole
  <2> QED BY <1>1, <1>2, <2>2, <2>4
<1>3. CASE f \notin Objects
  <2>1. objQ' = objQ
    BY <1>3 DEF AddFile
  <2> QED BY <1>1, <1>3, <2>1 DEF Whole
<1> QED BY <1>2, <1>3

\* addMemberFile queues a member that was not handed out before.
LEMMA AddMemberQueues ==
  ASSUME Typed, FilesOnce, Origins, Whole, NEW lazy \in added \cup {None}, lazy = None \/ IsLazy(lazy),
         AddMemberFile(lazy)
  PROVE  /\ ToSet(objQ)' = ToSet(objQ) \cup ((ToSet(files)' \ ToSet(files)) \cap Objects)
         /\ ToSet(files) \subseteq ToSet(files)'
         /\ \A i, j \in DOMAIN objQ' : objQ'[i] = objQ'[j] => i = j
         /\ \A i \in DOMAIN objQ : i \in DOMAIN objQ' /\ objQ'[i] = objQ[i]
         /\ \A i \in DOMAIN objQ' \ DOMAIN objQ :
              i = Len(objQ) + 1 /\ objQ'[i] \in ToSet(files)' \ ToSet(files)
         /\ seen \subseteq seen' /\ seen' \ seen \subseteq ToSet(files)' \ ToSet(files)
         /\ lazy # None => lazy.to \in seen'
<1>1. CASE lazy = None \/ lazy.to \in seen
  <2>1. UNCHANGED <<files, objQ, arcQ, seen>>
    BY <1>1 DEF AddMemberFile, queues
  <2> QED BY <1>1, <2>1 DEF Whole, ToSet
<1>2. CASE ~(lazy = None \/ lazy.to \in seen)
  <2>1. lazy.to \in Objects \cap MemberFiles(world) /\ AddFile(lazy.to) /\ seen' = seen \cup {lazy.to}
    BY <1>2 DEF AddMemberFile, Origins, Known, IsLazy
  <2>2. lazy.to \in Files /\ lazy.to # Compiled
    BY <2>1, SortAssumption DEF Files
  <2>3. lazy.to \notin ToSet(files)
    BY <1>2, <2>1, <2>2 DEF FilesOnce
  <2>4. /\ ToSet(objQ)' = ToSet(objQ) \cup ((ToSet(files)' \ ToSet(files)) \cap Objects)
        /\ ToSet(files)' = ToSet(files) \cup {lazy.to}
        /\ \A i, j \in DOMAIN objQ' : objQ'[i] = objQ'[j] => i = j
        /\ \A i \in DOMAIN objQ : i \in DOMAIN objQ' /\ objQ'[i] = objQ[i]
        /\ \A i \in DOMAIN objQ' \ DOMAIN objQ : i = Len(objQ) + 1 /\ objQ'[i] = lazy.to
    BY <2>1, <2>2, <2>3, AddFileQueues
  <2> QED BY <2>1, <2>3, <2>4
<1> QED BY <1>1, <1>2


(* The next input and the next library are files that were not added before. *)
LEMMA NextInput ==
  ASSUME Typed, Inputs, phase = "inputs", Len(files) < Len(world.cmd)
  PROVE  world.cmd[Len(files) + 1] \in Files \ ToSet(files)
<1>1. /\ world.cmd \in Seq(Files)
      /\ \A i, j \in DOMAIN world.cmd : world.cmd[i] = world.cmd[j] => i = j
  BY WorldAssumption, FileAssumption DEF Typed
<1>2. /\ DOMAIN world.cmd = 1 .. Len(world.cmd) /\ Len(world.cmd) \in Nat
      /\ DOMAIN files = 1 .. Len(files) /\ Len(files) \in Nat
  BY <1>1, LenProperties DEF Typed
<1>3. \A i \in DOMAIN files : files[i] = world.cmd[i]
  BY DEF Inputs
<1>4. world.cmd[Len(files) + 1] \in Files
  BY <1>1, <1>2, ElementOfSeq
<1> QED BY <1>1, <1>2, <1>3, <1>4 DEF ToSet

LEMMA NextLibrary ==
  ASSUME Inv, dirs # <<>>, Head(dirs).opt = "defaultlib", Head(dirs).file \notin visited
  PROVE  Head(dirs).file \in Files \ ToSet(files)
<1> DEFINE f == Head(dirs).file
<1>1. f \in Files \cap Libraries(world)
  BY NextDirectiveFacts
<1>2. MemberFiles(world) \cap (ToSet(world.cmd) \cup Libraries(world)) = {}
  BY FileAssumption DEF Inv, Typed
<1>3. f \notin MemberFiles(world) /\ f # Compiled
  BY <1>1, <1>2, SortAssumption DEF Files
<1> QED BY <1>1, <1>3 DEF Inv, FilesOnce

(* A step that reads no symbol of a file.                                  *)
LEMMA ReadStep ==
  ASSUME Inv, Inv', Whole, Cursor', world' = world,
         NEW new, new = None \/ new.file \notin Objects,
         added' \in {added, added \cup {new}}, new # None => new \in added' /\ Known(new),
         phase # "objects" \/ cur = <<1, 1>>, phase' # "objects" \/ cur' = <<1, 1>>,
         ToSet(objQ)' = ToSet(objQ) \cup ((ToSet(files)' \ ToSet(files)) \cap Objects),
         \A i, j \in DOMAIN objQ' : objQ'[i] = objQ'[j] => i = j,
         ToSet(files) \subseteq ToSet(files)', Numbered'
  PROVE  ReadInv'
<1>1. Reads(new)
  BY ReadsNothing
<1>2. Whole'
  BY <1>1, WholeKept
<1> QED BY <1>2 DEF ReadInv

\* A step that adds nothing and leaves the queue of object files alone.
LEMMA StillStep ==
  ASSUME Inv, Inv', Whole, Numbered, Cursor',
         UNCHANGED <<world, added, files, objQ, alias, entry>>, esym' \in {esym, None},
         fresh' \in {fresh, fresh + 1},
         phase # "objects" \/ cur = <<1, 1>>, phase' # "objects" \/ cur' = <<1, 1>>
  PROVE  ReadInv'
<1>1. ToSet(files)' = ToSet(files) /\ ToSet(objQ)' = ToSet(objQ)
  BY DEF ToSet
<1>2. \A i, j \in DOMAIN objQ' : objQ'[i] = objQ'[j] => i = j
  BY DEF Whole
<1>3. Numbered'
  <2>1. \A b \in added : b.id \in Nat
    BY DEF Inv, Typed, Bodies
  <2>2. fresh \in Nat
    BY DEF Inv, Typed
  <2> QED BY <2>1, <2>2 DEF Numbered
<1>4. world' = world /\ added' = added
  OBVIOUS
<1>5. PICK new : new = None
  OBVIOUS
<1> QED BY <1>1, <1>2, <1>3, <1>4, <1>5, ReadStep

LEMMA SimpleReads ==
  ASSUME Inv, Inv', ReadInv, phase \notin Failed,
         \/ IncludeDone \/ InputsDone \/ DirectivesDone \/ StepDone \/ RoundDone \/ ReplaceDone
         \/ ReportDone \/ AlternateName \/ ExportDirective \/ ExportsDone \/ CheckUndefines \/ LateDone
         \/ NextArchive \/ (\E n \in Names : Report(n)) \/ UNCHANGED vars
  PROVE  ReadInv'
<1>1. Cursor /\ Whole /\ Numbered
  BY DEF ReadInv
<1>2. SUFFICES ASSUME phase' \notin Failed PROVE ReadInv'
  BY DEF ReadInv
<1>3. /\ UNCHANGED <<world, added, files, objQ, alias, entry>> /\ esym' \in {esym, None}
      /\ fresh' \in {fresh, fresh + 1}
  <2>1. CASE IncludeDone \/ InputsDone \/ DirectivesDone \/ StepDone \/ RoundDone \/ ReplaceDone
    BY <2>1 DEF IncludeDone, InputsDone, DirectivesDone, StepDone, RoundDone, ReplaceDone, table, queues, config, loops
  <2>2. CASE ReportDone \/ AlternateName \/ ExportDirective \/ ExportsDone
    BY <2>2 DEF ReportDone, AlternateName, ExportDirective, ExportsDone, table, queues, config, loops
  <2>3. CASE CheckUndefines \/ LateDone \/ NextArchive \/ UNCHANGED vars
    BY <2>3 DEF CheckUndefines, LateDone, NextArchive, vars, table, queues, config, loops
  <2>4. CASE \E n \in Names : Report(n)
    BY <2>4 DEF Report, table, queues, config, loops
  <2> QED BY <2>1, <2>2, <2>3, <2>4
<1>4. /\ Cursor'
      /\ phase # "objects" \/ cur = <<1, 1>> \/ UNCHANGED <<phase, cur>>
      /\ phase' # "objects" \/ cur' = <<1, 1>> \/ UNCHANGED <<phase, cur>>
  <2>1. CASE IncludeDone \/ InputsDone \/ DirectivesDone
    BY <1>1, <2>1 DEF Cursor, IncludeDone, InputsDone, DirectivesDone, reading, queues
  <2>2. CASE StepDone \/ RoundDone \/ ReplaceDone
    BY <1>1, <2>2 DEF Cursor, StepDone, RoundDone, ReplaceDone, reading, queues, RunOrLeave, QueueEmpty
  <2>3. CASE ReportDone \/ AlternateName \/ ExportDirective \/ ExportsDone
    BY <1>1, <1>2, <2>3 DEF Cursor, ReportDone, AlternateName, ExportDirective, ExportsDone, NextDirective, reading, queues, Failed, Ends
  <2>4. CASE CheckUndefines \/ LateDone \/ NextArchive
    BY <1>1, <1>2, <2>4 DEF Cursor, CheckUndefines, LateDone, NextArchive, reading, queues, Failed, Ends
  <2>5. CASE \E n \in Names : Report(n)
    BY <1>1, <1>2, <2>5 DEF Cursor, Report, reading, queues, Failed, Ends
  <2>6. CASE UNCHANGED vars
    BY <1>1, <2>6 DEF Cursor, vars, reading, queues
  <2> QED BY <2>1, <2>2, <2>3, <2>4, <2>5, <2>6
<1>5. CASE phase = "objects" /\ UNCHANGED <<phase, cur>>
  <2>1. Whole'
    BY <1>1, <1>3, <1>5 DEF Whole, Unread, ToSet
  <2>2. Numbered'
    <3>1. fresh \in Nat /\ \A b \in added : b.id \in Nat
      BY DEF Inv, Typed, Bodies
    <3> QED BY <1>1, <1>3, <3>1 DEF Numbered
  <2> QED BY <1>4, <2>1, <2>2 DEF ReadInv
<1>6. CASE ~(phase = "objects" /\ UNCHANGED <<phase, cur>>)
  BY <1>1, <1>3, <1>4, <1>6, StillStep
<1> QED BY <1>5, <1>6

(* Steps that go through the queues or put files into them.                *)
LEMMA QueueReads ==
  ASSUME Inv, Inv', ReadInv, phase \notin Failed,
         AddInput \/ DefaultLib \/ LoadMember \/ NextObject \/ ObjectsDone \/ ArchivesDone
  PROVE  ReadInv'
<1>1. Cursor /\ Whole /\ Numbered
  BY DEF ReadInv
<1>2. PICK new : new = None
  OBVIOUS
<1>3. ASSUME NEW f \in Files, f \notin ToSet(files), AddFile(f), UNCHANGED <<world, phase, cur, added, alias, entry, esym, fresh>>,
             phase \in {"inputs", "directives"}
      PROVE  ReadInv'
  <2>1. /\ ToSet(objQ)' = ToSet(objQ) \cup ((ToSet(files)' \ ToSet(files)) \cap Objects)
        /\ ToSet(files)' = ToSet(files) \cup {f}
        /\ \A i, j \in DOMAIN objQ' : objQ'[i] = objQ'[j] => i = j
    BY <1>1, <1>3, AddFileQueues DEF Inv
  <2>2. Cursor' /\ Numbered'
    BY <1>1, <1>3 DEF Cursor, Numbered
  <2>3. phase # "objects" /\ phase' # "objects" /\ ToSet(files) \subseteq ToSet(files)'
    BY <1>3, <2>1
  <2>4. world' = world /\ added' = added
    BY <1>3
  <2> QED BY <1>1, <1>2, <2>1, <2>2, <2>3, <2>4, ReadStep
<1>4. CASE AddInput
  <2> DEFINE f == world.cmd[Len(files) + 1]
  <2>1. /\ AddFile(f) /\ UNCHANGED <<world, phase, cur, added, alias, entry, esym, fresh>> /\ phase = "inputs"
        /\ Len(files) < Len(world.cmd)
    BY <1>4 DEF AddInput, table, reading, config, loops
  <2>2. f \in Files /\ f \notin ToSet(files)
    BY <2>1, NextInput DEF Inv
  <2> QED BY <1>3, <2>1, <2>2
<1>5. CASE DefaultLib
  <2> DEFINE f == Head(dirs).file
  <2>1. /\ UNCHANGED <<world, phase, cur, added, alias, entry, esym, fresh>> /\ phase = "directives" /\ dirs # <<>>
        /\ Head(dirs).opt = "defaultlib"
        /\ UNCHANGED <<files, objQ>> \/ (AddFile(f) /\ f \notin visited)
    BY <1>5 DEF DefaultLib, NextDirective, table, loops
  <2>3. CASE UNCHANGED <<files, objQ>>
    BY <1>1, <2>1, <2>3, StillStep DEF Cursor
  <2>4. CASE AddFile(f) /\ f \notin visited
    <3>1. f \in Files /\ f \notin ToSet(files)
      BY <2>1, <2>4, NextLibrary
    <3> QED BY <1>3, <2>1, <2>4, <3>1
  <2> QED BY <2>1, <2>3, <2>4
<1>6. CASE LoadMember
  <2> DEFINE lazy == symtab[Head(accum)]
  <2>1. /\ UNCHANGED <<world, phase, cur, added, alias, entry, esym, fresh>> /\ phase = "members" /\ accum # <<>>
        /\ AddMemberFile(lazy)
    BY <1>6 DEF LoadMember, table, config, loops
  <2>2. Head(accum) \in Names /\ IsLazy(lazy) /\ lazy \in added
    <3>1. Head(accum) \in ToSet(accum) /\ Head(accum) \in Names
      BY <2>1, TailFacts DEF Inv, Typed
    <3>2. IsLazy(lazy)
      BY <3>1 DEF ToSet, Inv, Chosen
    <3>3. symtab[Head(accum)] # None => symtab[Head(accum)] \in Candidates(Head(accum))
      BY <2>1, <3>1 DEF Inv, Chosen, Backrefs, Ends
    <3> QED BY <3>1, <3>2, <3>3 DEF IsLazy, Candidates
  <2>3. /\ ToSet(objQ)' = ToSet(objQ) \cup ((ToSet(files)' \ ToSet(files)) \cap Objects)
        /\ ToSet(files) \subseteq ToSet(files)'
        /\ \A i, j \in DOMAIN objQ' : objQ'[i] = objQ'[j] => i = j
    BY <1>1, <2>1, <2>2, AddMemberQueues DEF Inv
  <2>4. Cursor' /\ Numbered'
    BY <1>1, <2>1 DEF Cursor, Numbered
  <2>5. phase # "objects" /\ phase' # "objects" /\ world' = world /\ added' = added
    BY <2>1
  <2> QED BY <1>1, <1>2, <2>3, <2>4, <2>5, ReadStep
<1>7. CASE ArchivesDone
  <2>1. /\ UNCHANGED <<world, added, files, objQ, alias, entry, esym, fresh>>
        /\ phase = "archives" /\ phase' = "members" /\ cur' = <<1, 1>>
    BY <1>7 DEF ArchivesDone, table, config, loops
  <2> QED BY <1>1, <2>1, StillStep DEF Cursor
<1>8. CASE NextObject \/ ObjectsDone
  <2>1. /\ UNCHANGED <<world, added, files, alias, entry, esym, fresh>> /\ phase = "objects"
        /\ \/ /\ UNCHANGED <<phase, objQ>> /\ cur' = <<cur[1] + 1, 1>> /\ cur[1] <= Len(objQ)
              /\ cur[2] > Len(world.syms[objQ[cur[1]]])
           \/ phase' = "directives" /\ objQ' = <<>> /\ cur' = <<1, 1>> /\ cur[1] > Len(objQ)
    BY <1>8 DEF NextObject, ObjectsDone, table, queues, config, loops
  <2>2. cur[1] \in Nat \ {0} /\ cur[2] \in Nat \ {0} /\ DOMAIN objQ = 1 .. Len(objQ) /\ Len(objQ) \in Nat
    BY LenProperties DEF Inv, Typed
  <2>3. ASSUME NEW o \in Objects, NEW k \in DOMAIN world.syms[o] PROVE Unread(o, k)' <=> Unread(o, k)
    <3>1. k \in Nat \ {0} /\ DOMAIN world.syms[o] = 1 .. Len(world.syms[o]) /\ Len(world.syms[o]) \in Nat
      BY SymbolsAre, LenProperties, WorldAssumption DEF Inv, Typed
    <3>2. CASE phase' = "directives"
      <4>1. ~Unread(o, k)'
        BY <2>1, <3>2 DEF Unread, ToSet
      <4>2. ~Unread(o, k)
        BY <2>1, <2>2, <3>2 DEF Unread
      <4> QED BY <4>1, <4>2
    <3>3. CASE phase' = phase
      <4>1. cur' = <<cur[1] + 1, 1>> /\ objQ' = objQ /\ cur[1] <= Len(objQ) /\ cur[2] > Len(world.syms[objQ[cur[1]]])
        BY <2>1, <3>3
      <4>2. Unread(o, k)' <=> \E j \in DOMAIN objQ : objQ[j] = o /\ j > cur[1]
        <5>1. cur'[1] = cur[1] + 1 /\ cur'[2] = 1
          BY <4>1
        <5>2. \A j \in DOMAIN objQ : (j > cur'[1] \/ (j = cur'[1] /\ k >= cur'[2])) <=> j > cur[1]
          BY <2>2, <3>1, <5>1
        <5> QED BY <2>1, <3>3, <4>1, <5>2 DEF Unread
      <4>3. Unread(o, k) <=> \E j \in DOMAIN objQ : objQ[j] = o /\ j > cur[1]
        <5>1. \A j \in DOMAIN objQ : objQ[j] = o /\ j = cur[1] => ~(k >= cur[2])
          BY <2>2, <3>1, <4>1
        <5> QED BY <2>1, <5>1 DEF Unread
      <4> QED BY <4>2, <4>3
    <3> QED BY <2>1, <3>2, <3>3
  <2>4. Whole'
    BY <1>1, <2>1, <2>3 DEF Whole, ToSet
  <2>5. Cursor' /\ Numbered'
    BY <1>1, <2>1 DEF Cursor, Numbered
  <2> QED BY <2>4, <2>5 DEF ReadInv
<1> QED BY <1>4, <1>5, <1>6, <1>7, <1>8

(* A step that makes the driver ask for name n.                            *)
LEMMA AskReads ==
  ASSUME Inv, Inv', Cursor, Whole, Numbered, NEW n \in Names, NEW r \in AddUndefined(n), Install(r),
         phase \notin {"report", "objects"} \cup Ends, phase' # "objects", Cursor',
         UNCHANGED <<world, visited, lto, compiled>>,
         DOMAIN alias' \subseteq added', entry' \in {entry, r.ret}, esym' \in {esym, r.ret, None}
  PROVE  ReadInv'
<1> DEFINE new == DriverBody(n, "undef")
<1>1. PICK s \in AddSymbol(new) : r.load = s.load /\ r.new = new
  BY DEF AddUndefined
<1>2. new \in Bodies /\ ~IsLazy(new) /\ new.file = Driver /\ new.id = fresh /\ fresh \in Nat /\ Known(new)
  BY SortAssumption DEF DriverBody, Bodies, Kinds, IsLazy, Inv, Typed, Known, Files
<1>3. r.load \in added \cup {None} /\ (r.load = None \/ IsLazy(r.load))
  <2>1. s.load # None => s.load = symtab[n] /\ IsLazy(symtab[n])
    <3>1. new.name = n
      BY DEF DriverBody
    <3> QED BY <1>2, <3>1, AddSymbolFacts DEF Inv
  <2>2. symtab[n] # None => symtab[n] \in added
    BY DEF Inv, Chosen, Backrefs, Candidates
  <2> QED BY <1>1, <2>1, <2>2
<1>4. added' = added \cup {new} /\ fresh' = fresh + 1 /\ AddMemberFile(r.load)
  BY <1>1 DEF Install
<1>5. /\ ToSet(objQ)' = ToSet(objQ) \cup ((ToSet(files)' \ ToSet(files)) \cap Objects)
      /\ ToSet(files) \subseteq ToSet(files)'
      /\ \A i, j \in DOMAIN objQ' : objQ'[i] = objQ'[j] => i = j
  BY <1>3, <1>4, AddMemberQueues DEF Inv
<1>6. r.ret \in added'
  BY Undefining
<1>7. Numbered'
  <2>1. \A b \in added : b.id \in Nat
    BY DEF Inv, Typed, Bodies
  <2>2. \A b \in added' : b.file = Driver => b.id < fresh'
    <3>1. \A b \in added : b.file = Driver => b.id < fresh
      BY DEF Numbered
    <3> HIDE DEF new
    <3> QED BY <1>2, <1>4, <2>1, <3>1
  <2>3. entry' \in added' \cup {None} /\ esym' \in added' \cup {None}
    BY <1>4, <1>6 DEF Numbered
  <2> QED BY <2>2, <2>3 DEF Numbered
<1>8. new.file \notin Objects
  BY <1>2, SortAssumption DEF Files
<1> QED BY <1>2, <1>4, <1>5, <1>7, <1>8, ReadStep

\* mangleMaybe
LEMMA MangleReads ==
  ASSUME Inv, Inv', Cursor, Whole, Numbered, NEW u \in added, MangleMaybe(u), UNCHANGED <<world, cur, visited, lto, compiled>>,
         phase \in {"entryLoop", "exports"}, phase' = "exports", entry' = entry, esym' \in {esym, None}
  PROVE  ReadInv'
<1>1. Cursor'
  BY DEF Cursor
<1>2. CASE UNCHANGED <<table, alias, queues>>
  <2>1. UNCHANGED <<world, added, files, objQ, alias, entry, fresh>>
    BY <1>2 DEF table, queues
  <2> QED BY <1>1, <2>1, StillStep
<1>3. CASE ~UNCHANGED <<table, alias, queues>>
  <2> PICK m \in Mangled[u.name] : \E r \in AddUndefined(m) : Install(r) /\ SetAlias(u, r.ret)
    BY <1>3 DEF MangleMaybe
  <2>1. PICK r \in AddUndefined(m) : Install(r) /\ SetAlias(u, r.ret)
    OBVIOUS
  <2>2. m \in Names
    <3>1. u.name \in Names
      BY BodyFacts DEF Inv, Typed
    <3> QED BY <2>1, <3>1, SortAssumption
  <2>3. DOMAIN alias' \subseteq added'
    BY <2>1 DEF SetAlias, Install, Numbered
  <2> QED BY <1>1, <2>1, <2>2, <2>3, AskReads DEF Ends
<1> QED BY <1>2, <1>3

LEMMA AskingReads ==
  ASSUME Inv, Inv', Alternates, ReadInv, phase \notin Failed,
         \/ Include \/ IncludeDirective \/ SetEntry \/ MangleEntry \/ ExportUndefined \/ MangleExport
         \/ \E n \in Names : TryAlternate(n)
  PROVE  ReadInv'
<1>1. Cursor /\ Whole /\ Numbered
  BY DEF ReadInv
<1>2. ASSUME NEW n \in Names, NEW r \in AddUndefined(n), Install(r),
             UNCHANGED <<world, cur, visited, lto, compiled, alias>>, entry' \in {entry, r.ret}, esym' \in {esym, r.ret, None},
             \/ phase \in {"include", "directives", "exports"} /\ phase' = phase
             \/ phase = "entry" /\ phase' = "imageBase"
      PROVE  ReadInv'
  <2>1. Cursor'
    BY <1>1, <1>2 DEF Cursor
  <2>2. DOMAIN alias' \subseteq added'
    BY <1>1, <1>2 DEF Numbered, Install
  <2>3. phase \notin {"report", "objects"} \cup Ends /\ phase' # "objects"
    BY <1>2 DEF Ends
  <2> QED BY <1>1, <1>2, <2>1, <2>2, <2>3, AskReads
<1>3. CASE Include
  <2>1. PICK r \in AddUndefined(Head(list)) : Install(r)
    BY <1>3 DEF Include, InstallRoot
  <2>2. /\ phase = "include" /\ list # <<>>
        /\ UNCHANGED <<world, cur, visited, lto, compiled, alias, entry, esym, phase>>
    BY <1>3 DEF Include, config, reading
  <2>3. Head(list) \in Names
    BY <2>2, TailFacts DEF Inv, Typed
  <2> QED BY <1>2, <2>1, <2>2, <2>3
<1>4. CASE IncludeDirective
  <2>1. PICK r \in AddUndefined(Head(dirs).from) : Install(r)
    BY <1>4 DEF IncludeDirective, InstallRoot
  <2>2. /\ phase = "directives" /\ dirs # <<>> /\ Head(dirs).opt = "include"
        /\ UNCHANGED <<world, cur, visited, lto, compiled, alias, entry, esym, phase>>
    BY <1>4 DEF IncludeDirective, NextDirective, config, loops
  <2>3. Head(dirs).from \in Names
    BY <2>2, NextDirectiveFacts
  <2> QED BY <1>2, <2>1, <2>2, <2>3
<1>5. CASE SetEntry
  <2>1. /\ phase = "entry" /\ phase' = "imageBase"
        /\ UNCHANGED <<world, cur, visited, lto, compiled, alias, esym>>
    BY <1>5 DEF SetEntry, loops, reading
  <2>2. CASE world.entry = None
    <3>1. UNCHANGED <<added, files, objQ, entry, fresh>>
      BY <1>5, <2>2 DEF SetEntry, table, queues
    <3> QED BY <1>1, <2>1, <3>1, StillStep DEF Cursor
  <2>3. CASE world.entry # None
    <3>1. world.entry \in Names
      BY <2>3, WorldAssumption DEF Inv, Typed
    <3>2. PICK r \in AddUndefined(world.entry) : Install(r) /\ entry' = r.ret
      BY <1>5, <2>3 DEF SetEntry, InstallRoot
    <3> QED BY <1>2, <2>1, <3>1, <3>2
  <2> QED BY <2>2, <2>3
<1>6. CASE ExportUndefined
  <2>1. phase = "exports" /\ list # <<>> /\ UNCHANGED <<world, cur, visited, lto, compiled, alias, entry, phase>>
    BY <1>6 DEF ExportUndefined, config, reading
  <2>2. Head(list) \in Names
    BY <2>1, TailFacts DEF Inv, Typed
  <2>3. PICK r \in AddUndefined(Head(list)) : Install(r) /\ esym' = r.ret
    BY <1>6 DEF ExportUndefined, InstallRoot
  <2> QED BY <1>2, <2>1, <2>2, <2>3
<1>7. CASE MangleEntry \/ MangleExport
  <2>1. /\ phase \in {"entryLoop", "exports"} /\ phase' = "exports" /\ UNCHANGED <<world, cur, visited, lto, compiled, entry>>
        /\ esym' \in {esym, None}
        /\ UNCHANGED <<table, alias, queues>> \/ \E u \in {entry, esym} : u # None /\ MangleMaybe(u)
    BY <1>7 DEF MangleEntry, MangleExport, config, reading, bitcode
  <2>2. CASE UNCHANGED <<table, alias, queues>>
    <3>1. UNCHANGED <<added, files, objQ, alias, fresh>>
      BY <2>2 DEF table, queues
    <3> QED BY <1>1, <2>1, <3>1, StillStep DEF Cursor
  <2>3. CASE \E u \in {entry, esym} : u # None /\ MangleMaybe(u)
    <3>1. PICK u \in added : MangleMaybe(u)
      BY <1>1, <2>3 DEF Numbered
    <3> QED BY <1>1, <2>1, <3>1, MangleReads
  <2> QED BY <2>1, <2>2, <2>3
<1>8. CASE \E n \in Names : TryAlternate(n)
  <2> PICK n \in Names : TryAlternate(n)
    BY <1>8
  <2>1. PICK to : to = (CHOOSE p \in alts : p[1] = n)[2]
    OBVIOUS
  <2>2. /\ phase = "alternates" /\ phase' = phase /\ n \in pool
        /\ UNCHANGED <<world, cur, visited, lto, compiled, entry, esym>>
        /\ \/ UNCHANGED <<table, alias, queues>>
           \/ \E r \in AddUndefined(to) : Install(r) /\ SetAlias(symtab[n], r.ret) /\ IsUndefined(symtab[n])
    BY <2>1 DEF TryAlternate, config, bitcode, reading
  <2>3. to \in Names
    <3>1. \E p \in alts : p[1] = n
      BY <2>2 DEF Alternates
    <3>2. PICK q \in alts : q = CHOOSE p \in alts : p[1] = n
      BY <3>1
    <3>3. q \in Names \X Names
      BY DEF Inv, Typed
    <3> QED BY <2>1, <3>2, <3>3
  <2>4. CASE UNCHANGED <<table, alias, queues>>
    <3>1. UNCHANGED <<added, files, objQ, alias, fresh>>
      BY <2>4 DEF table, queues
    <3> QED BY <1>1, <2>2, <3>1, StillStep DEF Cursor
  <2>5. CASE ~UNCHANGED <<table, alias, queues>>
    <3>1. PICK r \in AddUndefined(to) : Install(r) /\ SetAlias(symtab[n], r.ret) /\ IsUndefined(symtab[n])
      BY <2>2, <2>5
    <3>2. symtab[n] \in added
      BY <2>2, <3>1, NotBodies DEF Inv, Chosen, Backrefs, Candidates, Ends
    <3>3. DOMAIN alias' \subseteq added'
      BY <1>1, <3>1, <3>2 DEF SetAlias, Install, Numbered
    <3>4. Cursor' /\ phase \notin {"report", "objects"} \cup Ends /\ phase' # "objects"
      BY <1>1, <2>2 DEF Cursor, Ends
    <3> QED BY <1>1, <2>2, <2>3, <3>1, <3>3, <3>4, AskReads
  <2> QED BY <2>4, <2>5
<1> QED BY <1>3, <1>4, <1>5, <1>6, <1>7, <1>8

(* Steps that read symbols of files or of archives, or make them.          *)
LEMMA ArchiveReads ==
  ASSUME Inv, Inv', ReadInv, phase \notin Failed, SetImageBase \/ AddLazy
  PROVE  ReadInv'
<1>1. Cursor /\ Whole /\ Numbered
  BY DEF ReadInv
<1>2. CASE SetImageBase
  <2> DEFINE new == DriverBody(ImageBase, "absolute")
  <2>1. /\ phase = "imageBase" /\ phase' = RunOrLeave /\ added' = added \cup {new} /\ fresh' = fresh + 1
        /\ UNCHANGED <<world, cur, files, objQ, arcQ, alias, entry, esym, compiled>>
    BY <1>2 DEF SetImageBase, queues, reading, config, loops, bitcode
  <2>2. new.file = Driver /\ new.id = fresh /\ fresh \in Nat /\ Known(new)
    BY SortAssumption DEF DriverBody, Inv, Typed, Known, Files
  <2>3. Numbered'
    <3>1. \A b \in added : b.id \in Nat
      BY DEF Inv, Typed, Bodies
    <3>2. \A b \in added' : b.file = Driver => b.id < fresh'
      <4>1. \A b \in added : b.file = Driver => b.id < fresh
        BY <1>1 DEF Numbered
      <4> HIDE DEF new
      <4> QED BY <2>1, <2>2, <3>1, <4>1
    <3> QED BY <1>1, <2>1, <3>2 DEF Numbered
  <2>4. Cursor' /\ cur' = <<1, 1>>
    BY <1>1, <2>1 DEF Cursor, RunOrLeave, QueueEmpty
  <2>5. /\ ToSet(objQ)' = ToSet(objQ) \cup ((ToSet(files)' \ ToSet(files)) \cap Objects)
        /\ ToSet(files) \subseteq ToSet(files)'
        /\ \A i, j \in DOMAIN objQ' : objQ'[i] = objQ'[j] => i = j
    BY <1>1, <2>1 DEF ToSet, Whole
  <2>6. new.file \notin Objects
    BY <2>2, SortAssumption DEF Files
  <2> QED BY <1>1, <2>1, <2>2, <2>3, <2>4, <2>5, <2>6, ReadStep
<1>3. CASE AddLazy
  <2> PICK new \in Bodies : /\ Known(new) /\ new.file \in Archives
                            /\ phase = "archives" /\ phase' = phase /\ added' = added \cup {new}
    BY <1>3, LazyFacts
  <2>1. phase = "archives" /\ phase' = phase /\ UNCHANGED <<world, files, objQ, alias, entry, esym, fresh>>
    BY <1>3 DEF AddLazy, queues, config, loops
  <2>3. new.file \notin Objects \cup {Driver}
    BY SortAssumption DEF Files
  <2>5. Cursor' /\ Numbered'
    BY <1>1, <2>1, <2>3 DEF Cursor, Numbered
  <2>6. /\ ToSet(objQ)' = ToSet(objQ) \cup ((ToSet(files)' \ ToSet(files)) \cap Objects)
        /\ ToSet(files) \subseteq ToSet(files)'
        /\ \A i, j \in DOMAIN objQ' : objQ'[i] = objQ'[j] => i = j
    BY <1>1, <2>1 DEF ToSet, Whole
  <2>7. phase # "objects" /\ phase' # "objects"
    BY <2>1
  <2> QED BY <1>1, <2>1, <2>3, <2>5, <2>6, <2>7, ReadStep
<1> QED BY <1>2, <1>3

LEMMA CompileReads ==
  ASSUME Inv, Inv', ReadInv, phase \notin Failed, CreateLTOObject \/ ReplaceBitcode
  PROVE  ReadInv'
<1>1. Cursor /\ Whole /\ Numbered
  BY DEF ReadInv
<1>2. SUFFICES ASSUME phase' \notin Failed PROVE ReadInv'
  BY DEF ReadInv
<1>3. CASE CreateLTOObject
  <2>1. /\ phase = "compile" /\ phase' = "replace" /\ files' = Append(files, Compiled)
        /\ UNCHANGED <<world, added, fresh, cur, objQ, alias, entry, esym>>
    BY <1>2, <1>3 DEF CreateLTOObject, Failed, Ends, table, reading, config, loops
  <2>2. ToSet(files)' = ToSet(files) \cup {Compiled}
    <3>1. files \in Seq(Files \cup {Compiled}) /\ Compiled \in Files \cup {Compiled}
      BY DEF Inv, Typed
    <3> QED BY <2>1, <3>1, AppendFacts
  <2>3. Compiled \notin Objects
    BY SortAssumption DEF Files
  <2>4. /\ ToSet(objQ)' = ToSet(objQ) \cup ((ToSet(files)' \ ToSet(files)) \cap Objects)
        /\ \A i, j \in DOMAIN objQ' : objQ'[i] = objQ'[j] => i = j
    BY <1>1, <2>1, <2>2, <2>3 DEF ToSet, Whole
  <2>5. Cursor' /\ Numbered'
    BY <1>1, <2>1 DEF Cursor, Numbered
  <2>6. PICK new : new = None
    OBVIOUS
  <2> QED BY <1>1, <2>1, <2>2, <2>4, <2>5, <2>6, ReadStep
<1>4. CASE ReplaceBitcode
  <2> DEFINE new == Head(lto)
             old == IF symtab[new.name] = None THEN new ELSE symtab[new.name]
  <2>1. /\ phase = "replace" /\ phase' = phase /\ lto # <<>> /\ added' = added \cup {new}
        /\ UNCHANGED <<world, fresh, cur, alias, entry, esym>>
        /\ UNCHANGED queues \/ (IsLazy(old) /\ AddMemberFile(old))
    BY <1>2, <1>4 DEF ReplaceBitcode, Failed, Ends, reading, config, loops
  <2>2. new \in ToSet(lto) /\ new \in Bodies
    BY <2>1, TailFacts DEF Inv, Typed
  <2>3. Known(new) /\ new.file = Compiled /\ ~IsLazy(new)
    BY <2>2 DEF Inv, Origins, IsLazy
  <2>4. new.file \notin Objects \cup {Driver}
    BY <2>3, SortAssumption DEF Files
  <2>5. /\ ToSet(objQ)' = ToSet(objQ) \cup ((ToSet(files)' \ ToSet(files)) \cap Objects)
        /\ ToSet(files) \subseteq ToSet(files)'
        /\ \A i, j \in DOMAIN objQ' : objQ'[i] = objQ'[j] => i = j
    <3>1. CASE UNCHANGED queues
      BY <1>1, <3>1 DEF queues, ToSet, Whole
    <3>2. CASE IsLazy(old) /\ AddMemberFile(old)
      <4>1. new.name \in Names
        BY <2>2, BodyFacts
      <4>2. old = symtab[new.name] /\ old # None
        BY <2>3, <3>2 DEF IsLazy
      <4>3. old \in added
        BY <2>1, <4>1, <4>2 DEF Inv, Chosen, Backrefs, Candidates, Ends
      <4> HIDE DEF old, new
      <4> QED BY <1>1, <3>2, <4>3, AddMemberQueues DEF Inv
    <3> QED BY <2>1, <3>1, <3>2
  <2>6. Cursor' /\ Numbered'
    BY <1>1, <2>1, <2>4 DEF Cursor, Numbered
  <2>7. phase # "objects" /\ phase' # "objects" /\ new \in added'
    BY <2>1
  <2> HIDE DEF old, new
  <2> QED BY <1>1, <2>1, <2>3, <2>4, <2>5, <2>6, <2>7, ReadStep
<1> QED BY <1>3, <1>4

(* readObjects comes to a symbol that was not added before.                *)
LEMMA ReadFacts ==
  ASSUME Inv, Whole, ReadSymbol
  PROVE  \E new \in Bodies :
           /\ objQ[cur[1]] \in Objects /\ cur[2] \in DOMAIN world.syms[objQ[cur[1]]]
           /\ new = world.syms[objQ[cur[1]]][cur[2]] /\ new.file = objQ[cur[1]] /\ new.id = cur[2]
           /\ ~IsLazy(new) /\ Known(new) /\ new \notin added /\ added' = added \cup {new}
           /\ phase = "objects" /\ phase' \in {"objects", "duplicate"} /\ Backrefs
           /\ \E r \in AddSymbol(new) :
                /\ symtab' = r.tab /\ AddMemberFile(r.load)
                /\ r.load \in added \cup {None} /\ (r.load = None \/ IsLazy(r.load))
<1>1. PICK f, i, new, r : /\ f = objQ[cur[1]] /\ i = cur[2] /\ new = world.syms[f][i]
                          /\ r \in AddSymbol(new) /\ symtab' = r.tab /\ AddMemberFile(r.load)
                          /\ phase' = IF r.err THEN "duplicate" ELSE phase
  BY DEF ReadSymbol
<1>2. /\ phase = "objects" /\ phase' \in {"objects", "duplicate"} /\ cur[1] <= Len(objQ) /\ i <= Len(world.syms[f])
      /\ added' = added \cup {new}
  BY <1>1 DEF ReadSymbol
<1>3. /\ cur[1] \in Nat \ {0} /\ i \in Nat \ {0}
      /\ objQ \in Seq(Objects) /\ DOMAIN objQ = 1 .. Len(objQ) /\ Len(objQ) \in Nat /\ world \in Worlds
  BY <1>1, LenProperties DEF Inv, Typed
<1>4. cur[1] \in DOMAIN objQ /\ f \in Objects /\ f \in ToSet(objQ)
  BY <1>1, <1>2, <1>3 DEF ToSet
<1>5. i \in DOMAIN world.syms[f] /\ new \in Bodies /\ new.file = f /\ new.id = i /\ ~IsLazy(new)
  <2>1. world.syms[f] \in Seq(Bodies)
    BY <1>3, <1>4, WorldAssumption
  <2>2. i \in DOMAIN world.syms[f]
    BY <1>2, <1>3, <2>1, LenProperties
  <2> QED BY <1>1, <1>3, <1>4, <2>2, SymbolsAre DEF IsLazy
<1>6. f \in ToSet(files) /\ f \notin Archives /\ f # Driver /\ f # Compiled
  BY <1>4, SortAssumption DEF Inv, FilesOnce, Files
<1>7. Known(new)
  <2>1. new.kind # "lazy"
    BY <1>5, BodyFacts
  <2> QED BY <1>1, <1>4, <1>5, <1>6, <2>1 DEF Known
<1>8. new \notin added
  <2>1. Unread(f, i)
    BY <1>1, <1>2, <1>3, <1>4 DEF Unread
  <2> QED BY <1>1, <1>4, <1>5, <1>6, <2>1 DEF Whole
<1>9. Backrefs
  BY <1>2 DEF Inv, Chosen, Ends
<1>10. r.load \in added \cup {None} /\ (r.load = None \/ IsLazy(r.load))
  <2>1. r.load # None => r.load = symtab[new.name] /\ IsLazy(symtab[new.name])
    BY <1>1, <1>5, AddSymbolFacts DEF Inv
  <2>2. new.name \in Names
    BY <1>5, BodyFacts
  <2> QED BY <1>9, <2>1, <2>2 DEF Backrefs, Candidates
<1> QED BY <1>1, <1>2, <1>4, <1>5, <1>7, <1>8, <1>9, <1>10

LEMMA SymbolReads ==
  ASSUME Inv, Inv', ReadInv, phase \notin Failed, ReadSymbol
  PROVE  ReadInv'
<1>1. Cursor /\ Whole /\ Numbered
  BY DEF ReadInv
<1>2. SUFFICES ASSUME phase' \notin Failed PROVE ReadInv'
  BY DEF ReadInv
<1> PICK f, i : f = objQ[cur[1]] /\ i = cur[2]
  OBVIOUS
<1>3. PICK new \in Bodies :
        /\ f \in Objects /\ i \in DOMAIN world.syms[f]
        /\ new = world.syms[f][i] /\ new.file = f /\ new.id = i /\ Known(new) /\ added' = added \cup {new}
        /\ phase = "objects" /\ phase' \in {"objects", "duplicate"}
        /\ \E load : /\ AddMemberFile(load)
                     /\ load \in added \cup {None} /\ (load = None \/ IsLazy(load))
  BY <1>1, ReadFacts
<1>4. /\ phase = "objects" /\ phase' = phase /\ cur[1] <= Len(objQ)
      /\ added' = added \cup {new} /\ cur' = [cur EXCEPT ![2] = @ + 1]
      /\ UNCHANGED <<world, fresh, alias, entry, esym>>
  BY <1>2, <1>3 DEF ReadSymbol, Failed, Ends, config, loops
<1>5. /\ cur \in (Nat \ {0}) \X (Nat \ {0}) /\ cur[1] \in Nat \ {0} /\ i \in Nat \ {0}
      /\ objQ \in Seq(Objects) /\ DOMAIN objQ = 1 .. Len(objQ) /\ Len(objQ) \in Nat /\ world \in Worlds
  BY LenProperties DEF Inv, Typed
<1>6. cur[1] \in DOMAIN objQ
  BY <1>4, <1>5
<1>9. PICK load \in added \cup {None} : AddMemberFile(load) /\ (load = None \/ IsLazy(load))
  BY <1>3
<1>10. /\ ToSet(objQ)' = ToSet(objQ) \cup ((ToSet(files)' \ ToSet(files)) \cap Objects)
       /\ ToSet(files) \subseteq ToSet(files)'
       /\ \A p, j \in DOMAIN objQ' : objQ'[p] = objQ'[j] => p = j
       /\ \A p \in DOMAIN objQ : p \in DOMAIN objQ' /\ objQ'[p] = objQ[p]
       /\ \A p \in DOMAIN objQ' \ DOMAIN objQ :
            p = Len(objQ) + 1 /\ objQ'[p] \in ToSet(files)' \ ToSet(files)
  BY <1>1, <1>9, AddMemberQueues DEF Inv
<1>11. Reads(new)
  <2> SUFFICES ASSUME NEW o \in Objects, NEW k \in DOMAIN world.syms[o]
               PROVE  Unread(o, k)' <=> \/ Unread(o, k) /\ world.syms[o][k] # new
                                        \/ o \in ToSet(files)' \ ToSet(files)
    BY DEF Reads
  <2>1. k \in Nat \ {0} /\ world.syms[o][k].file = o /\ world.syms[o][k].id = k
    BY <1>5, SymbolsAre
  <2>2. world.syms[o][k] = new <=> o = f /\ k = i
    BY <1>3, <2>1
  <2>3. cur'[1] = cur[1] /\ cur'[2] = i + 1
    BY <1>4, <1>5
  <2>4. ASSUME Unread(o, k)'
        PROVE  (Unread(o, k) /\ world.syms[o][k] # new) \/ o \in ToSet(files)' \ ToSet(files)
    <3>1. PICK j \in DOMAIN objQ' : objQ'[j] = o /\ (j > cur[1] \/ (j = cur[1] /\ k >= i + 1))
      BY <1>4, <2>3, <2>4 DEF Unread
    <3>2. CASE j \in DOMAIN objQ
      <4>1. objQ[j] = o /\ (j > cur[1] \/ (j = cur[1] /\ k >= cur[2]))
        BY <1>5, <1>10, <2>1, <3>1, <3>2
      <4>2. o = f => j = cur[1]
        BY <1>1, <1>6, <3>2, <4>1 DEF Whole
      <4>3. ~(o = f /\ k = i)
        BY <1>5, <2>1, <3>1, <4>2
      <4> QED BY <1>4, <2>2, <3>2, <4>1, <4>3 DEF Unread
    <3>3. CASE j \notin DOMAIN objQ
      BY <1>10, <3>1, <3>3
    <3> QED BY <3>2, <3>3
  <2>5. ASSUME Unread(o, k), world.syms[o][k] # new PROVE Unread(o, k)'
    <3>1. PICK j \in DOMAIN objQ : objQ[j] = o /\ (j > cur[1] \/ (j = cur[1] /\ k >= i))
      BY <1>4, <2>5 DEF Unread
    <3>2. j = cur[1] => k # i
      BY <2>2, <2>5, <3>1
    <3>3. j > cur[1] \/ (j = cur[1] /\ k >= i + 1)
      BY <1>5, <2>1, <3>1, <3>2
    <3> QED BY <1>4, <1>10, <2>3, <3>1, <3>3 DEF Unread
  <2>6. ASSUME o \in ToSet(files)' \ ToSet(files) PROVE Unread(o, k)'
    <3>1. PICK j \in DOMAIN objQ' : objQ'[j] = o
      BY <1>10, <2>6 DEF ToSet
    <3>2. j \notin DOMAIN objQ
      <4>1. ToSet(objQ) \subseteq ToSet(files)
        BY DEF Inv, FilesOnce
      <4> QED BY <1>10, <2>6, <3>1, <4>1 DEF ToSet
    <3>3. j = Len(objQ) + 1 /\ j > cur[1]
      BY <1>4, <1>5, <1>10, <3>2
    <3> QED BY <1>4, <2>3, <3>1, <3>3 DEF Unread
  <2> QED BY <2>4, <2>5, <2>6
<1>12. Whole'
  <2>1. Known(new) /\ world' = world /\ added' \in {added, added \cup {new}} /\ new \in added'
    BY <1>3, <1>4
  <2>2. /\ ToSet(files) \subseteq ToSet(files)'
        /\ \A p, j \in DOMAIN objQ' : objQ'[p] = objQ'[j] => p = j
    BY <1>10
  <2> QED BY <1>1, <1>11, <2>1, <2>2, WholeKept
<1>13. Cursor' /\ Numbered'
  <2>1. f # Driver
    BY <1>3, SortAssumption DEF Files
  <2> QED BY <1>1, <1>3, <1>4, <2>1 DEF Cursor, Numbered
<1> QED BY <1>12, <1>13 DEF ReadInv

\* A link that has ended stays as it is.
LEMMA FinalPhases ==
  ASSUME Next, phase \in Ends
  PROVE  UNCHANGED vars
<1>1. ~(\/ Include \/ IncludeDone \/ AddInput \/ InputsDone \/ ReadSymbol \/ NextObject \/ ObjectsDone
        \/ DefaultLib \/ AlternateName \/ ExportDirective \/ IncludeDirective \/ DirectivesDone)
  BY DEF Ends, Include, IncludeDone, AddInput, InputsDone, ReadSymbol, NextObject, ObjectsDone,
     DefaultLib, AlternateName, ExportDirective, IncludeDirective, DirectivesDone, NextDirective
<1>2. ~(\/ AddLazy \/ NextArchive \/ ArchivesDone \/ LoadMember \/ StepDone \/ SetEntry \/ SetImageBase
        \/ MangleEntry \/ ExportUndefined \/ MangleExport \/ ExportsDone)
  BY DEF Ends, AddLazy, NextArchive, ArchivesDone, LoadMember, StepDone, SetEntry, SetImageBase,
     MangleEntry, ExportUndefined, MangleExport, ExportsDone
<1>3. ~(\/ (\E n \in Names : TryAlternate(n) \/ Report(n)) \/ RoundDone
        \/ CheckUndefines \/ CreateLTOObject \/ ReplaceBitcode \/ ReplaceDone \/ LateDone \/ ReportDone)
  BY DEF Ends, TryAlternate, Report, RoundDone,
     CheckUndefines, CreateLTOObject, ReplaceBitcode, ReplaceDone, LateDone, ReportDone
<1> QED BY <1>1, <1>2, <1>3 DEF Next, Terminated

LEMMA NextReads ==
  ASSUME Inv, Inv', Alternates, ReadInv, [Next]_vars
  PROVE  ReadInv'
<1>1. CASE phase \in Failed
  <2>1. phase' = phase
    <3>1. CASE UNCHANGED vars
      BY <3>1 DEF vars
    <3>2. CASE Next
      BY <1>1, <3>2, FinalPhases DEF Failed, vars
    <3> QED BY <3>1, <3>2
  <2> QED BY <1>1, <2>1 DEF ReadInv
<1>2. CASE phase \notin Failed
  BY <1>2, SimpleReads, QueueReads, AskingReads, ArchiveReads, CompileReads, SymbolReads DEF Next, Terminated
<1> QED BY <1>1, <1>2

LEMMA InitReads == ASSUME Init PROVE ReadInv
<1>1. /\ phase = "include" /\ added = {} /\ files = <<>> /\ objQ = <<>> /\ cur = <<1, 1>> /\ alias = <<>>
      /\ entry = None /\ esym = None
  BY DEF Init
<1> QED BY <1>1 DEF ReadInv, Cursor, Whole, Numbered, ToSet
-----------------------------------------------------------------------------
(* What is reported undefined.                                             *)

\* The default of a name that was reported has no definition of its own.
Tried(n) ==
  LET a == WeakAlias(symtab[n])
  IN  a # None => ~(IsDefined(Repl(a)) /\ Repl(a).name = a.name /\ Repl(a).kind # "localimport")

\* Names are reported one by one, and those before stay as they are; a name may
\* get the body of another one that is defined.
Faults ==
  /\ undefs \subseteq Names
  /\ phase \notin {"report"} \cup Ends => undefs = {}
  /\ phase \in {"report", "linked"} =>
       \A n \in Names : IsDefined(symtab[n]) => IsDefined(symtab[symtab[n].name])
  /\ phase = "report" /\ ~world.force =>
       \A n \in undefs : n \notin pool /\ IsUndefined(symtab[n]) /\ symtab[n] \in added /\ Tried(n)
  /\ phase = "undefined" => \A n \in undefs : Tried(n)

(* When all files have been read, the alias of a body that was added has   *)
(* been added.                                                             *)
LEMMA AliasIsAdded ==
  ASSUME Inv, Aliases, Whole, objQ = <<>>, phase # "objects", NEW b \in added, ~IsLazy(b)
  PROVE  WeakAlias(b) = None \/ (WeakAlias(b) \in added /\ ~IsLazy(WeakAlias(b)))
<1>1. b \in Linked
  BY DEF Inv, Typed, Origins, Linked
<1>2. WeakAlias(b) \in Linked \cup {None}
  BY <1>1, AliasIsLinked
<1>3. CASE b \in DOMAIN alias
  BY <1>2, <1>3 DEF WeakAlias, Aliases, Linked
<1>4. CASE b \notin DOMAIN alias /\ WeakAlias(b) # None
  <2> PICK syms : syms = world.syms[b.file]
    OBVIOUS
  <2> PICK found : found = {i \in 1 .. b.id - 1 : syms[i].name = b.to}
    OBVIOUS
  <2>1. WeakAlias(b) = IF b.to = None \/ found = {} THEN None ELSE syms[CHOOSE i \in found : TRUE]
    BY <1>4 DEF WeakAlias, Default
  <2>2. b.to # None /\ found # {}
    BY <1>4, <2>1
  <2>3. PICK i \in found : WeakAlias(b) = syms[i]
    BY <2>1, <2>2
  <2>4. b.file \in Objects
    BY <1>1, <2>2, BodyFacts DEF Linked, Known, Bodies, Files
  <2>5. /\ syms \in Seq(Bodies) /\ b.id \in DOMAIN syms
        /\ DOMAIN syms = 1 .. Len(syms) /\ Len(syms) \in Nat
    BY <1>1, <2>4, WorldAssumption, LenProperties DEF Inv, Typed, Linked, Known
  <2>6. i \in DOMAIN syms /\ i \in Nat \ {0}
    BY <2>5
  <2>7. b.file \in ToSet(files)
    BY <1>1, <2>4, SortAssumption DEF Linked, Known, Files
  <2>8. ~Unread(b.file, i)
    BY DEF Unread, ToSet
  <2> QED BY <1>2, <1>4, <2>3, <2>4, <2>6, <2>7, <2>8 DEF Whole, Linked
<1> QED BY <1>3, <1>4

(* A name whose chain comes to no definition was given its default.        *)
LEMMA FaultTried ==
  ASSUME Inv, Aliases, NEW n \in Names, symtab[n] \in added, IsUndefined(symtab[n]),
         GetWeakAlias(symtab[n]) = None
  PROVE  Tried(n)
<1>1. symtab[n] \in Linked
  BY DEF Inv, Typed, Origins, Linked, IsUndefined, IsLazy
<1>2. IsFiniteSet(added) /\ None \notin Linked
  BY SortAssumption DEF Inv, Typed, Linked
<1>3. WeakAlias(symtab[n]) # None => ~IsDefined(Repl(WeakAlias(symtab[n])))
  BY <1>1, <1>2, AliasIsLinked, ChainFacts
<1> QED BY <1>3 DEF Tried

\* What reportRemainingUndefines gives to a name is defined under its own.
LEMMA ReportGives ==
  ASSUME Inv, Aliases, ReadInv, Faults, phase = "report", NEW n \in pool, GetWeakAlias(symtab[n]) # None
  PROVE  LET d == GetWeakAlias(symtab[n]) IN
         /\ IsDefined(d) /\ IsDefined(symtab[d.name]) /\ d.name \in Names /\ d.name # n
<1>1. symtab[n] \in added /\ IsUndefined(symtab[n]) /\ n \in Names
  BY DEF Inv, Typed, Chosen
<1>2. objQ = <<>> /\ Whole
  BY DEF ReadInv, Failed, Ends, Cursor
<1> DEFINE S == {b \in added : ~IsLazy(b)}
           d == GetWeakAlias(symtab[n])
<1>3. symtab[n] \in S /\ None \notin S /\ \A b \in S : WeakAlias(b) \in S \cup {None}
  <2>1. symtab[n] \in S
    BY <1>1 DEF IsUndefined, IsLazy
  <2>2. None \notin S
    BY SortAssumption DEF Inv, Typed
  <2> QED BY <1>2, <2>1, <2>2, AliasIsAdded
<1>4. IsDefined(d) /\ \E b \in S : d = Repl(b)
  <2>1. IsFiniteSet(added)
    BY DEF Inv, Typed
  <2> HIDE DEF S
  <2> QED BY <1>3, <2>1, ChainFacts
<1>5. PICK b \in added : d = symtab[b.name]
  BY <1>4 DEF Repl
<1>6. b.name \in Names
  BY BodyFacts DEF Inv, Typed
<1>7. IsDefined(symtab[d.name])
  BY <1>4, <1>5, <1>6 DEF Faults
<1>8. d \in Bodies
  BY <1>4, <1>5, <1>6, NotBodies DEF Inv, Typed, BodyOrNone
<1>9. d.name \in Names
  BY <1>8, BodyFacts
<1>10. d.name # n
  BY <1>1, <1>7, BodyFacts DEF Inv, Typed, IsUndefined, IsDefined, BitcodeKinds, DefinedKinds
<1> QED BY <1>4, <1>7, <1>9, <1>10

LEMMA ReportFaults ==
  ASSUME Inv, Aliases, ReadInv, Faults, NEW n \in Names, Report(n)
  PROVE  Faults'
<1> DEFINE d == GetWeakAlias(symtab[n])
<1>1. /\ phase = "report" /\ n \in pool /\ pool' = pool \ {n}
      /\ UNCHANGED <<world, alias, added>> /\ phase' \in {"report", "hang"}
      /\ undefs' \subseteq Names
  BY DEF Report, table, queues, reading, config, Faults
<1> SUFFICES ASSUME phase' = "report" PROVE Faults'
  BY <1>1 DEF Faults, Ends
<1>2. symtab[n] \in added /\ IsUndefined(symtab[n])
  BY <1>1 DEF Inv, Chosen
<1>3. /\ symtab \in [Names -> BodyOrNone]
      /\ \A m \in Names : IsDefined(symtab[m]) => symtab[m].name \in Names
      /\ \A b \in added : b.name \in Names
      /\ ~IsDefined(symtab[n])
  <2>1. symtab \in [Names -> BodyOrNone] /\ added \subseteq Bodies
    BY DEF Inv, Typed
  <2>2. \A m \in Names : IsDefined(symtab[m]) => symtab[m] \in Bodies
    BY <2>1, NotBodies DEF BodyOrNone
  <2> QED BY <1>2, <2>1, <2>2, BodyFacts DEF IsUndefined, IsDefined, DefinedKinds, BitcodeKinds
<1>4. \/ symtab' = [symtab EXCEPT ![n] = d] /\ d # None /\ undefs' = undefs
      \/ symtab' = [symtab EXCEPT ![n] = DriverBody(n, "localimport")] /\ undefs' = undefs
      \/ symtab' = [symtab EXCEPT ![n] = DriverBody(n, "absolute")] /\ world.force
      \/ symtab' = symtab /\ d = None /\ undefs' = undefs \cup {n}
  BY <1>1 DEF Report
<1>5. /\ DriverBody(n, "localimport").name = n /\ DriverBody(n, "localimport").kind = "localimport"
      /\ IsDefined(DriverBody(n, "localimport"))
      /\ DriverBody(n, "absolute").name = n /\ IsDefined(DriverBody(n, "absolute"))
  <2>1. DriverBody(n, "localimport") \in Bodies /\ DriverBody(n, "absolute") \in Bodies
    BY DEF DriverBody, Bodies, Kinds, DefinedKinds, Inv, Typed
  <2> QED BY <2>1, BodyFacts DEF DriverBody, Others
<1>6. d # None => IsDefined(d) /\ IsDefined(symtab[d.name]) /\ d.name \in Names /\ d.name # n
  BY <1>1, ReportGives
<1> HIDE DEF d
<1>7. \A m \in Names : m # n => symtab'[m] = symtab[m]
  BY <1>3, <1>4
<1>8. \/ symtab'[n] = d /\ d # None /\ undefs' = undefs
      \/ symtab'[n] = DriverBody(n, "localimport") /\ undefs' = undefs
      \/ symtab'[n] = DriverBody(n, "absolute") /\ world.force
      \/ symtab' = symtab /\ d = None /\ undefs' = undefs \cup {n}
  BY <1>3, <1>4
<1>9. ASSUME NEW m \in Names, IsDefined(symtab'[m]) PROVE IsDefined(symtab'[symtab'[m].name])
  <2>1. CASE m # n
    <3>1. IsDefined(symtab[symtab[m].name]) /\ symtab'[m] = symtab[m] /\ symtab[m].name \in Names
      BY <1>1, <1>3, <1>7, <1>9, <2>1 DEF Faults
    <3> QED BY <1>3, <1>7, <3>1
  <2>2. CASE m = n
    BY <1>3, <1>5, <1>6, <1>7, <1>8, <1>9, <2>2
  <2> QED BY <2>1, <2>2
<1>10. ASSUME ~world.force, NEW m \in undefs'
       PROVE  m \notin pool' /\ IsUndefined(symtab'[m]) /\ symtab'[m] \in added' /\ Tried(m)'
  <2>1. CASE m \in undefs
    <3>1. m \notin pool /\ IsUndefined(symtab[m]) /\ symtab[m] \in added /\ Tried(m)
      BY <1>1, <1>10, <2>1 DEF Faults
    <3>2. m # n /\ m \in Names
      BY <1>1, <1>10, <3>1
    <3>3. symtab'[m] = symtab[m]
      BY <1>7, <3>2
    <3> PICK a : a = WeakAlias(symtab[m])
      OBVIOUS
    <3>4. WeakAlias(symtab[m])' = a
      BY <1>1, <3>3 DEF WeakAlias, Default
    <3>5. Repl(a) = IF a \in added THEN symtab[a.name] ELSE a
      BY DEF Repl
    <3>6. Repl(a)' = IF a \in added THEN symtab'[a.name] ELSE a
      BY <1>1 DEF Repl
    <3>7. a # None => ~(IsDefined(Repl(a)') /\ Repl(a)'.name = a.name /\ Repl(a)'.kind # "localimport")
      <4>1. a # None => ~(IsDefined(Repl(a)) /\ Repl(a).name = a.name /\ Repl(a).kind # "localimport")
        BY <3>1 DEF Tried
      <4>2. CASE a \in added /\ a.name = n
        <5>1. Repl(a)' = symtab'[n]
          BY <3>6, <4>2
        <5>2. symtab' = symtab => Repl(a)' = Repl(a)
          BY <3>5, <4>2, <5>1
        <5> QED BY <1>5, <1>6, <1>8, <1>10, <4>1, <4>2, <5>1, <5>2
      <4>3. CASE ~(a \in added /\ a.name = n)
        <5>1. Repl(a)' = Repl(a)
          BY <1>3, <1>7, <3>5, <3>6, <4>3
        <5> QED BY <4>1, <5>1
      <4> QED BY <4>2, <4>3
    <3>8. Tried(m)'
      BY <3>4, <3>7 DEF Tried
    <3> QED BY <1>1, <3>1, <3>3, <3>8
  <2>2. CASE m \notin undefs
    <3>1. m = n /\ symtab' = symtab /\ d = None
      BY <1>8, <1>10, <2>2
    <3>2. Tried(n)
      BY <1>2, <3>1, FaultTried DEF d
    <3>3. WeakAlias(symtab[n])' = WeakAlias(symtab[n])
      BY <1>1, <3>1 DEF WeakAlias, Default
    <3>4. Repl(WeakAlias(symtab[n]))' = Repl(WeakAlias(symtab[n]))
      BY <1>1, <3>1, <3>3 DEF Repl
    <3>5. Tried(n)'
      BY <3>2, <3>3, <3>4 DEF Tried
    <3> QED BY <1>1, <1>2, <3>1, <3>5
  <2> QED BY <2>1, <2>2
<1> QED BY <1>1, <1>9, <1>10 DEF Faults

\* The other steps are not about what is undefined at the end.
LEMMA OtherSteps ==
  ASSUME Next, phase \notin Ends, ~(CheckUndefines \/ LateDone \/ ReportDone \/ \E n \in Names : Report(n))
  PROVE  phase # "report" /\ phase' \notin {"report", "linked"} /\ undefs' = undefs
<1>1. CASE Include \/ IncludeDone \/ AddInput \/ InputsDone \/ ReadSymbol \/ NextObject \/ ObjectsDone
  BY <1>1 DEF Include, IncludeDone, AddInput, InputsDone, ReadSymbol, NextObject, ObjectsDone, loops
<1>2. CASE DefaultLib \/ AlternateName \/ ExportDirective \/ IncludeDirective \/ DirectivesDone
  BY <1>2 DEF DefaultLib, AlternateName, ExportDirective, IncludeDirective, DirectivesDone, NextDirective, loops
<1>3. CASE AddLazy \/ NextArchive \/ ArchivesDone \/ LoadMember \/ StepDone
  BY <1>3, RunOrLeaveIs DEF AddLazy, NextArchive, ArchivesDone, LoadMember, StepDone, loops
<1>4. CASE SetEntry \/ SetImageBase \/ MangleEntry \/ ExportUndefined \/ MangleExport \/ ExportsDone
  BY <1>4, RunOrLeaveIs DEF SetEntry, SetImageBase, MangleEntry, ExportUndefined, MangleExport, ExportsDone, loops
<1>5. CASE \E n \in Names : TryAlternate(n)
  BY <1>5 DEF TryAlternate, loops
<1>6. CASE RoundDone \/ CreateLTOObject \/ ReplaceBitcode \/ ReplaceDone
  BY <1>6, RunOrLeaveIs DEF RoundDone, CreateLTOObject, ReplaceBitcode, ReplaceDone, loops
<1>7. ~Terminated
  BY DEF Terminated
<1> QED BY <1>1, <1>2, <1>3, <1>4, <1>5, <1>6, <1>7 DEF Next

LEMMA NextFaults ==
  ASSUME Inv, Aliases, ReadInv, Faults, [Next]_vars
  PROVE  Faults'
<1>1. CASE UNCHANGED vars
  <2>1. UNCHANGED <<world, phase, symtab, alias, added, pool, undefs>>
    BY <1>1 DEF vars, table, loops
  <2>2. \A n : Tried(n)' <=> Tried(n)
    BY <2>1 DEF Tried, Repl, WeakAlias, Default
  <2> QED BY <2>1, <2>2 DEF Faults
<1>2. CASE Next /\ phase \in Ends
  BY <1>1, <1>2, FinalPhases
<1>3. CASE \E n \in Names : Report(n)
  BY <1>3, ReportFaults
<1>4. CASE ReportDone
  <2>1. /\ phase = "report" /\ phase' = IF undefs = {} \/ world.force THEN "linked" ELSE "undefined"
        /\ UNCHANGED <<world, symtab, alias, added, undefs>>
    BY <1>4 DEF ReportDone, table, loops
  <2>2. \A n : Tried(n)' <=> Tried(n)
    BY <2>1 DEF Tried, Repl, WeakAlias, Default
  <2> QED BY <2>1, <2>2 DEF Faults, Ends
<1>5. CASE CheckUndefines \/ LateDone
  <2>1. /\ phase \in {"check", "late"} /\ UNCHANGED <<world, symtab, alias, added>>
        /\ \/ undefs' = undefs /\ phase' # "undefined"
           \/ phase = "check" /\ phase' = "undefined" /\ undefs' = Remaining
        /\ phase' \notin {"report", "linked"} => phase' \in Ends \cup {"compile"}
        /\ phase' = "compile" => undefs' = undefs
    BY <1>5 DEF CheckUndefines, LateDone, table, config, loops, Ends
  <2>2. Backrefs /\ undefs = {}
    BY <2>1 DEF Inv, Chosen, Faults, Ends
  <2>3. \A n \in Names : symtab[n] # None => symtab[n] \in added /\ symtab[n].name = n
    BY <2>2 DEF Backrefs, Candidates
  <2>4. \A n : Tried(n)' <=> Tried(n)
    BY <2>1 DEF Tried, Repl, WeakAlias, Default
  <2>5. \A n \in Remaining : Tried(n)
    BY <2>3, FaultTried, NotBodies DEF Remaining, UndefinedNames
  <2>6. \A n \in Names : IsDefined(symtab[n]) => IsDefined(symtab[symtab[n].name])
    BY <2>3, NotBodies
  <2>7. undefs' \subseteq Names
    BY <2>1, <2>2 DEF Remaining, UndefinedNames, Faults
  <2> QED BY <2>1, <2>2, <2>4, <2>5, <2>6, <2>7 DEF Faults
<1>6. CASE Next /\ phase \notin Ends /\ ~(CheckUndefines \/ LateDone \/ ReportDone \/ \E n \in Names : Report(n))
  <2>1. phase # "report" /\ phase' \notin {"report", "linked"} /\ undefs' = undefs
    BY <1>6, OtherSteps
  <2>2. undefs = {}
    BY <1>6, <2>1 DEF Faults
  <2> QED BY <2>1, <2>2 DEF Faults
<1> QED BY <1>1, <1>2, <1>3, <1>4, <1>5, <1>6

(* Files are read once and as a whole, and what is reported was tried.     *)
LEMMA FaultsHold == Spec => [](Inv /\ Alternates /\ Aliases /\ ReadInv /\ Faults)
<1>1. Init => ReadInv /\ Faults
  <2>1. ASSUME Init PROVE Faults
    BY <2>1 DEF Init, Faults, Ends
  <2> QED BY <2>1, InitReads
<1>2. /\ Inv /\ Alternates /\ Aliases /\ ReadInv /\ Faults
      /\ (Inv /\ Alternates /\ Aliases)' /\ [Next]_vars
      => (ReadInv /\ Faults)'
  BY NextReads, NextFaults
<1> QED BY <1>1, <1>2, InvHolds, PTL DEF Spec

(* A weak external's default is tried, in links of any number of files:    *)
(* no name is reported undefined whose default some file, member or the    *)
(* linker itself defines under its own name.                               *)
THEOREM FallbacksAreTried == Spec => []OwnFallbackTried
<1>1. Faults => OwnFallbackTried
  BY DEF Faults, OwnFallbackTried, Tried
<1> QED BY <1>1, FaultsHold, PTL

-----------------------------------------------------------------------------
(* Members are loaded.                                                     *)

\* What an archive offers, its member defines; and the code generator asks for
\* nothing that bitcode defines.
Truthful(w) ==
  /\ \A a \in Archives : \A i \in DOMAIN w.index[a] :
       \E k \in DOMAIN w.syms[w.index[a][i].to] :
         /\ w.syms[w.index[a][i].to][k].name = w.index[a][i].name
         /\ w.syms[w.index[a][i].to][k].kind \in DefinedKinds
  /\ \A i \in DOMAIN w.emits : w.emits[i][2] = "undef" =>
       \A o \in w.bitcode : \A k \in DOMAIN w.syms[o] :
         w.syms[o][k].kind \in DefinedKinds => w.syms[o][k].name # w.emits[i][1]

\* A file has a definition of n that was not added yet.
Coming(n) ==
  \E o \in ToSet(files) \cap Objects : \E k \in DOMAIN world.syms[o] :
    /\ world.syms[o][k] \notin added
    /\ world.syms[o][k].name = n /\ world.syms[o][k].kind \in DefinedKinds

\* A name keeps what it has: once it is in the table it stays there, and once
\* it has a definition, but for a constant whose name loads a member.
Stays ==
  /\ \A b \in added : symtab[b.name] # None
  /\ \A b \in added : IsDefined(b) /\ b.file # Compiled => IsDefined(symtab[b.name])

\* What the code generator leaves undefined no bitcode defines.
LTOClean ==
  \A b \in ToSet(lto) : b.kind = "undef" =>
    \A c \in added : IsBitcode(c) => c.name # b.name

\* Lazy symbols are those of archives, and members that were handed out are files.
Offers ==
  /\ seen \subseteq ToSet(files)
  /\ \A b \in added : IsLazy(b) => \E a \in Archives : \E i \in DOMAIN world.index[a] : b = world.index[a][i]

\* A lazy symbol that is wanted will be loaded, or a definition is on its way.
Wanted ==
  \A n \in Names :
    IsLazy(symtab[n]) /\ (\E b \in Candidates(n) : ~IsLazy(b)) =>
      n \in ToSet(accum) \/ Coming(n)

\* An offer is lost to weak references only.
Taken == \A n \in Names : Offered(n) /\ ~WeakRef(n) => ~IsUndefined(symtab[n])

Loaded == Stays /\ LTOClean /\ Offers /\ Wanted /\ Taken

(* The member of a lazy symbol that was handed out has a definition on its *)
(* way.                                                                    *)
LEMMA HandedComes ==
  ASSUME Inv', Truthful(world)', Stays', Offers', NEW n \in Names,
         IsLazy(symtab'[n]), symtab'[n] \in Candidates(n)', symtab'[n].to \in seen'
  PROVE  Coming(n)'
<1>1. PICK a \in Archives : \E i \in DOMAIN world'.index[a] : symtab'[n] = world'.index[a][i]
  BY DEF Offers, Candidates
<1>2. PICK i \in DOMAIN world'.index[a] : symtab'[n] = world'.index[a][i]
  BY <1>1
<1>3. symtab'[n].name = n /\ symtab'[n].to \in Objects
  BY DEF Candidates, Inv, Origins, Known, IsLazy
<1> PICK o \in Objects : o = symtab'[n].to
  BY <1>3
<1>4. PICK k \in DOMAIN world'.syms[o] :
        world'.syms[o][k].name = n /\ world'.syms[o][k].kind \in DefinedKinds
  BY <1>2, <1>3 DEF Truthful
<1>5. o \in ToSet(files)'
  BY DEF Offers
<1>6. world'.syms[o][k] \notin added'
  <2> SUFFICES ASSUME world'.syms[o][k] \in added' PROVE FALSE
    OBVIOUS
  <2> PICK b : b = world'.syms[o][k]
    OBVIOUS
  <2>1. b \in Bodies /\ b # None
    BY SortAssumption DEF Inv, Typed
  <2>2. b.file = o
    BY FileAssumption DEF Inv, Typed
  <2>3. IsDefined(b) /\ b.file # Compiled
    BY <1>4, <2>1, <2>2, SortAssumption DEF IsDefined, Files
  <2>4. IsDefined(symtab'[n])
    BY <1>4, <2>3 DEF Stays
  <2> QED BY <2>4 DEF IsDefined, IsLazy, DefinedKinds, BitcodeKinds
<1> QED BY <1>4, <1>5, <1>6 DEF Coming

\* What addSymbol and what createLTOObject do with a name that has body old.
Puts(new, load) ==
  LET old == symtab[new.name]
      put == [symtab EXCEPT ![new.name] = new]
  IN  /\ symtab' \in {symtab, put}
      /\ old = None => symtab' = put
      /\ IsDefined(old) => IsDefined(symtab'[new.name])
      /\ IsDefined(new) /\ new.file # Compiled => IsDefined(symtab'[new.name])
      /\ IsLazy(old) => \/ symtab' = symtab /\ load = old
                        \/ symtab' = put /\ (IsDefined(new) \/ Default(new) # None)

LEMMA AddSymbolPuts ==
  ASSUME Typed, NEW new \in Bodies, ~IsLazy(new), new \notin DOMAIN alias, NEW r \in AddSymbol(new), symtab' = r.tab
  PROVE  /\ Puts(new, r.load)
         /\ r.load # None => r.load = symtab[new.name] /\ IsLazy(r.load)
<1> PICK old, put : old = symtab[new.name] /\ put = [symtab EXCEPT ![new.name] = new]
  OBVIOUS
<1>1. /\ r.tab \in {symtab, put}
      /\ r.load # None => r.load = old /\ IsLazy(old)
      /\ old = None => r.tab = put
      /\ ~IsDefined(old) /\ IsDefined(new) => r.tab = put
      /\ IsDefined(new) => r.load = None
      /\ IsDefined(old) /\ IsUndefined(new) => r.tab = symtab
  BY AddSymbolFacts
<1>2. new.name \in Names /\ (IsDefined(new) \/ IsUndefined(new)) /\ put[new.name] = new
  BY BodyFacts DEF Typed
<1>3. IsLazy(old) => \/ r.tab = symtab /\ r.load = old
                     \/ r.tab = put /\ (IsDefined(new) \/ Default(new) # None)
  <2> SUFFICES ASSUME IsLazy(old)
               PROVE  \/ r.tab = symtab /\ r.load = old
                      \/ r.tab = put /\ (IsDefined(new) \/ Default(new) # None)
    OBVIOUS
  <2>1. WeakAlias(new) = Default(new)
    BY DEF WeakAlias
  <2>2. old # None
    BY DEF IsLazy
  <2>3. \/ IsUndefined(new) /\ WeakAlias(new) = None /\ r = Outcome(symtab, old, FALSE)
        \/ ~(IsUndefined(new) /\ WeakAlias(new) = None) /\ r = Outcome(put, None, FALSE)
    BY <2>2 DEF AddSymbol
  <2>4. Outcome(symtab, old, FALSE).tab = symtab /\ Outcome(symtab, old, FALSE).load = old /\ Outcome(put, None, FALSE).tab = put
    BY DEF Outcome
  <2> QED BY <1>2, <2>1, <2>3, <2>4
<1>4. IsDefined(old) => IsDefined(r.tab[new.name])
  BY <1>1, <1>2
<1>5. IsDefined(new) => IsDefined(r.tab[new.name])
  BY <1>1, <1>2
<1> QED BY <1>1, <1>3, <1>4, <1>5 DEF Puts

\* What becomes of the members as files are added.
Handing == /\ ToSet(files) \subseteq ToSet(files)'
           /\ seen' \ seen \subseteq ToSet(files)'

(* A step that adds a symbol that is not lazy.                             *)
LEMMA InsertLoads ==
  ASSUME Inv, Inv', Truthful(world), Loaded, Backrefs, Backrefs', UNCHANGED <<world, accum>>, Handing,
         NEW new \in Bodies, ~IsLazy(new), added' = added \cup {new},
         NEW load, Puts(new, load), load # None => load.to \in seen',
         ToSet(lto)' \subseteq ToSet(lto), IsBitcode(new) => ToSet(lto)' = {}
  PROVE  Loaded'
<1> PICK n, old, put : n = new.name /\ old = symtab[n] /\ put = [symtab EXCEPT ![n] = new]
  OBVIOUS
<1>1. n \in Names /\ (IsDefined(new) \/ IsUndefined(new)) /\ new # None /\ symtab \in [Names -> BodyOrNone]
      /\ old \in BodyOrNone
  BY BodyFacts DEF Inv, Typed
<1>2. /\ symtab' \in {symtab, put}
      /\ old = None => symtab' = put
      /\ IsDefined(old) => IsDefined(symtab'[n])
      /\ IsDefined(new) /\ new.file # Compiled => IsDefined(symtab'[n])
      /\ IsLazy(old) => \/ symtab' = symtab /\ load = old
                        \/ symtab' = put /\ (IsDefined(new) \/ Default(new) # None)
  BY DEF Puts
<1>3. /\ \A m \in Names : m # n => symtab'[m] = symtab[m]
      /\ symtab'[n] \in {old, new}
  BY <1>1, <1>2
<1>4. \A b \in added : b \in Bodies /\ b.name \in Names
  BY BodyFacts DEF Inv, Typed
<1>5. Stays'
  <2>1. ASSUME NEW b \in added' PROVE symtab'[b.name] # None
    <3>1. CASE b = new
      BY <1>1, <1>2, <1>3, <3>1
    <3>2. CASE b \in added
      BY <1>1, <1>3, <1>4, <3>2 DEF Loaded, Stays
    <3> QED BY <3>1, <3>2
  <2>2. ASSUME NEW b \in added', IsDefined(b), b.file # Compiled PROVE IsDefined(symtab'[b.name])
    <3>1. CASE b = new
      BY <1>2, <2>2, <3>1
    <3>2. CASE b \in added
      BY <1>2, <1>3, <1>4, <2>2, <3>2 DEF Loaded, Stays
    <3> QED BY <3>1, <3>2
  <2> QED BY <2>1, <2>2 DEF Stays
<1>6. LTOClean'
  BY DEF Loaded, LTOClean
<1>7. Offers'
  BY DEF Loaded, Offers, Handing
<1>8. Wanted'
  <2> SUFFICES ASSUME NEW m \in Names, IsLazy(symtab'[m]), NEW b \in Candidates(m)', ~IsLazy(b)
               PROVE  m \in ToSet(accum)' \/ Coming(m)'
    BY DEF Wanted
  <2>1. symtab'[m] = symtab[m] /\ IsLazy(symtab[m])
    BY <1>3
  <2>2. CASE m # n
    <3>1. b \in Candidates(m)
      BY <2>2 DEF Candidates
    <3>2. m \in ToSet(accum) \/ Coming(m)
      BY <2>1, <3>1 DEF Loaded, Wanted
    <3>3. ToSet(accum)' = ToSet(accum)
      BY DEF ToSet
    <3>4. Coming(m) => Coming(m)'
      BY <2>2 DEF Coming, Handing
    <3> QED BY <3>2, <3>3, <3>4
  <2>3. CASE m = n
    <3>1. symtab' = symtab /\ load = old
      <4>1. symtab' = put => symtab'[n] = new
        BY <1>1
      <4> QED BY <1>2, <2>1, <2>3, <4>1
    <3>2. symtab'[n].to \in seen'
      BY <2>1, <2>3, <3>1 DEF IsLazy
    <3>3. symtab'[n] \in Candidates(n)'
      BY <1>1, <1>5, <2>1, <2>3 DEF Backrefs, IsLazy
    <3>4. Truthful(world)'
      OBVIOUS
    <3> QED BY <1>1, <1>5, <1>7, <2>1, <2>3, <3>2, <3>3, <3>4, HandedComes
  <2> QED BY <2>2, <2>3
<1>9. Taken'
  <2> SUFFICES ASSUME NEW m \in Names, Offered(m)', ~WeakRef(m)', IsUndefined(symtab'[m])
               PROVE  FALSE
    BY DEF Taken
  <2>1. Offered(m)
    BY DEF Offered, Candidates
  <2>2. ~WeakRef(m)
    BY DEF WeakRef, Candidates, Default
  <2>3. ~IsUndefined(symtab[m])
    BY <2>1, <2>2 DEF Loaded, Taken
  <2>4. m = n /\ symtab'[n] = new /\ IsUndefined(new)
    BY <1>3, <2>3
  <2>5. old # None
    BY <2>1, <2>4 DEF Offered, Candidates, Loaded, Stays
  <2>6. IsDefined(old) \/ IsLazy(old)
    BY <1>1, <2>3, <2>4, <2>5, BodyFacts DEF BodyOrNone
  <2>7. ~IsDefined(new)
    BY <2>4 DEF IsUndefined, IsDefined, DefinedKinds, BitcodeKinds
  <2>8. ~IsDefined(old)
    BY <1>2, <2>4, <2>7
  <2>9. symtab'[n] # old
    BY <2>3, <2>4
  <2>10. Default(new) # None
    BY <1>2, <2>6, <2>7, <2>8, <2>9
  <2>11. new \in Candidates(m)' /\ Default(new)' # None
    BY <2>4, <2>10 DEF Candidates, Default
  <2> QED BY <2>4, <2>11 DEF WeakRef
<1> QED BY <1>5, <1>6, <1>7, <1>8, <1>9 DEF Loaded

(* A step that adds no symbol.                                             *)
LEMMA StillLoads ==
  ASSUME Loaded, UNCHANGED <<world, symtab, added>>, Handing, ToSet(lto)' \subseteq ToSet(lto),
         \A n \in ToSet(accum) : n \in ToSet(accum)' \/ Coming(n)'
  PROVE  Loaded'
<1>1. Stays' /\ Taken'
  <2>1. Stays'
    BY DEF Loaded, Stays
  <2>2. ASSUME NEW n \in Names PROVE Offered(n)' = Offered(n) /\ WeakRef(n)' = WeakRef(n)
    <3>1. \A b : Default(b)' = Default(b)
      BY DEF Default
    <3> QED BY <3>1 DEF Offered, WeakRef, Candidates
  <2>3. Taken'
    BY <2>2 DEF Loaded, Taken
  <2> QED BY <2>1, <2>3
<1>2. LTOClean' /\ Offers'
  BY DEF Loaded, LTOClean, Offers, Handing
<1>3. Wanted'
  <2> SUFFICES ASSUME NEW n \in Names, IsLazy(symtab[n]), NEW b \in Candidates(n), ~IsLazy(b)
               PROVE  n \in ToSet(accum)' \/ Coming(n)'
    BY DEF Wanted, Candidates
  <2>1. n \in ToSet(accum) \/ Coming(n)
    BY DEF Loaded, Wanted
  <2>2. Coming(n) => Coming(n)'
    BY DEF Coming, Handing
  <2> QED BY <2>1, <2>2
<1> QED BY <1>1, <1>2, <1>3 DEF Loaded

(* A step that makes the driver ask for name n.                            *)
LEMMA AskLoads ==
  ASSUME Inv, Inv', Truthful(world), Loaded, Whole, Numbered, NEW n \in Names, NEW r \in AddUndefined(n), Install(r),
         phase \notin {"report"} \cup Ends, phase' \notin {"report"} \cup Ends,
         UNCHANGED <<world, accum, visited, lto, compiled>>
  PROVE  Loaded'
<1> DEFINE new == DriverBody(n, "undef")
<1>1. PICK s \in AddSymbol(new) : r.load = s.load /\ r.new = new /\ r.tab = s.tab
  BY DEF AddUndefined
<1>2. new \in Bodies /\ ~IsLazy(new) /\ new.file = Driver /\ new.id = fresh /\ new.name = n /\ new.kind = "undef"
  BY SortAssumption DEF DriverBody, Bodies, Kinds, IsLazy, Inv, Typed, Files
<1>3. added' = added \cup {new} /\ AddMemberFile(r.load) /\ symtab' = s.tab
  BY <1>1 DEF Install
<1>4. new \notin DOMAIN alias
  <2>1. new \notin added
    <3>1. fresh \in Nat /\ \A b \in added : b.file = Driver => b.id < fresh
      BY DEF Inv, Typed, Numbered
    <3> HIDE DEF new
    <3> QED BY <1>2, <3>1
  <2> QED BY <2>1 DEF Numbered
<1>5. Backrefs /\ Backrefs'
  BY DEF Inv, Chosen
<1> HIDE DEF new
<1>6. Puts(new, r.load) /\ (r.load # None => r.load = symtab[n] /\ IsLazy(r.load))
  BY <1>1, <1>2, <1>3, <1>4, AddSymbolPuts DEF Inv
<1>7. Handing /\ (r.load # None => r.load.to \in seen')
  <2>1. r.load \in added \cup {None} /\ (r.load = None \/ IsLazy(r.load))
    BY <1>5, <1>6 DEF Backrefs, Candidates
  <2> QED BY <1>3, <2>1, AddMemberQueues DEF Inv, Handing
<1>8. ToSet(lto)' = ToSet(lto) /\ ~IsBitcode(new)
  BY <1>2 DEF ToSet, IsBitcode, BitcodeKinds
<1> QED BY <1>2, <1>3, <1>5, <1>6, <1>7, <1>8, InsertLoads

LEMMA AskingLoads ==
  ASSUME Inv, Inv', Truthful(world), Alternates, Loaded, ReadInv, phase \notin Failed,
         \/ Include \/ IncludeDirective \/ SetEntry \/ MangleEntry \/ ExportUndefined \/ MangleExport
         \/ \E n \in Names : TryAlternate(n)
  PROVE  Loaded'
<1>1. Whole /\ Numbered
  BY DEF ReadInv
<1>2. /\ UNCHANGED <<world, accum, visited, lto, compiled>>
      /\ phase \in {"include", "directives", "entry", "entryLoop", "exports", "alternates"}
      /\ phase' \in {"include", "directives", "imageBase", "exports", "alternates"}
  <2>1. CASE Include \/ IncludeDirective \/ SetEntry
    BY <2>1 DEF Include, IncludeDirective, NextDirective, SetEntry, config, reading
  <2>2. CASE MangleEntry \/ ExportUndefined \/ MangleExport
    BY <2>2 DEF MangleEntry, ExportUndefined, MangleExport, config, reading, bitcode
  <2>3. CASE \E n \in Names : TryAlternate(n)
    BY <2>3 DEF TryAlternate, config, reading, bitcode
  <2> QED BY <2>1, <2>2, <2>3
<1>3. ASSUME NEW n \in Names, NEW r \in AddUndefined(n), Install(r) PROVE Loaded'
  <2>1. phase \notin {"report"} \cup Ends /\ phase' \notin {"report"} \cup Ends
    BY <1>2 DEF Ends
  <2> QED BY <1>1, <1>2, <1>3, <2>1, AskLoads
<1>4. ASSUME UNCHANGED <<table, queues>> PROVE Loaded'
  <2>1. UNCHANGED <<symtab, added, files, seen>>
    BY <1>4 DEF table, queues
  <2>2. Handing /\ ToSet(lto)' = ToSet(lto) /\ ToSet(accum)' = ToSet(accum)
    BY <1>2, <2>1 DEF Handing, ToSet, Loaded, Offers
  <2> QED BY <1>2, <2>1, <2>2, StillLoads
<1>5. CASE Include
  <2>1. phase = "include" /\ list # <<>> /\ \E r \in AddUndefined(Head(list)) : Install(r)
    BY <1>5 DEF Include, InstallRoot
  <2>2. Head(list) \in Names
    BY <2>1, TailFacts DEF Inv, Typed
  <2> QED BY <1>3, <2>1, <2>2
<1>6. CASE IncludeDirective
  <2>1. dirs # <<>> /\ Head(dirs).opt = "include" /\ \E r \in AddUndefined(Head(dirs).from) : Install(r)
    BY <1>6 DEF IncludeDirective, NextDirective, InstallRoot
  <2>2. Head(dirs).from \in Names
    BY <2>1, NextDirectiveFacts
  <2> QED BY <1>3, <2>1, <2>2
<1>7. CASE SetEntry
  <2>1. \/ UNCHANGED <<table, queues>>
        \/ world.entry # None /\ \E r \in AddUndefined(world.entry) : Install(r)
    BY <1>7 DEF SetEntry, InstallRoot
  <2>2. world.entry # None => world.entry \in Names
    BY WorldAssumption DEF Inv, Typed
  <2> QED BY <1>3, <1>4, <2>1, <2>2
<1>8. CASE ExportUndefined
  <2>1. phase = "exports" /\ list # <<>> /\ \E r \in AddUndefined(Head(list)) : Install(r)
    BY <1>8 DEF ExportUndefined, InstallRoot
  <2>2. Head(list) \in Names
    BY <2>1, TailFacts DEF Inv, Typed
  <2> QED BY <1>3, <2>1, <2>2
<1>9. ASSUME NEW u \in added, MangleMaybe(u) PROVE Loaded'
  <2>1. UNCHANGED <<table, queues>> \/ \E m \in Mangled[u.name] : \E r \in AddUndefined(m) : Install(r)
    BY <1>9 DEF MangleMaybe
  <2>2. Mangled[u.name] \subseteq Names
    <3>1. u.name \in Names
      BY BodyFacts DEF Inv, Typed
    <3> QED BY <3>1, SortAssumption
  <2> QED BY <1>3, <1>4, <2>1, <2>2
<1>10. CASE MangleEntry \/ MangleExport
  <2>1. UNCHANGED <<table, queues>> \/ \E u \in {entry, esym} : u # None /\ MangleMaybe(u)
    BY <1>10 DEF MangleEntry, MangleExport
  <2> QED BY <1>1, <1>4, <1>9, <2>1 DEF Numbered
<1>11. CASE \E n \in Names : TryAlternate(n)
  <2> PICK n \in Names : TryAlternate(n)
    BY <1>11
  <2> PICK to : to = (CHOOSE p \in alts : p[1] = n)[2]
    OBVIOUS
  <2>1. /\ phase = "alternates" /\ n \in pool
        /\ UNCHANGED <<table, queues>> \/ \E r \in AddUndefined(to) : Install(r)
    BY DEF TryAlternate
  <2>2. to \in Names
    <3>1. \E p \in alts : p[1] = n
      BY <2>1 DEF Alternates
    <3>2. PICK q \in alts : q = CHOOSE p \in alts : p[1] = n
      BY <3>1
    <3>3. q \in Names \X Names
      BY DEF Inv, Typed
    <3> QED BY <3>2, <3>3
  <2> QED BY <1>3, <1>4, <2>1, <2>2
<1> QED BY <1>5, <1>6, <1>7, <1>8, <1>10, <1>11

(* Steps that read symbols of files and of archives.                       *)
LEMMA ReadingLoads ==
  ASSUME Inv, Inv', Truthful(world), Loaded, ReadInv, phase \notin Failed, phase' \notin Failed,
         ReadSymbol \/ SetImageBase \/ AddLazy
  PROVE  Loaded'
<1>1. Whole /\ Numbered
  BY DEF ReadInv
<1>2. phase \in {"objects", "imageBase", "archives"} /\ phase' \in {"objects", "archives", "late", "entryLoop"}
      /\ UNCHANGED <<world, alias, lto>>
  <2>1. CASE ReadSymbol
    BY <2>1 DEF ReadSymbol, bitcode, Failed, Ends
  <2>2. CASE SetImageBase
    BY <2>2, RunOrLeaveIs DEF SetImageBase, bitcode
  <2>3. CASE AddLazy
    BY <2>3 DEF AddLazy, bitcode
  <2> QED BY <2>1, <2>2, <2>3
<1>3. Backrefs /\ Backrefs' /\ lto = <<>>
  BY <1>2 DEF Inv, Chosen, Ends, Phases
<1>4. ToSet(lto) = {} /\ ToSet(lto)' = {}
  BY <1>2, <1>3 DEF ToSet
<1>5. CASE ReadSymbol
  <2>1. PICK new \in Bodies :
          /\ ~IsLazy(new) /\ new \notin added /\ added' = added \cup {new}
          /\ \E r \in AddSymbol(new) :
               /\ symtab' = r.tab /\ AddMemberFile(r.load)
               /\ r.load \in added \cup {None} /\ (r.load = None \/ IsLazy(r.load))
    BY <1>1, <1>5, ReadFacts
  <2>2. PICK r \in AddSymbol(new) :
          /\ symtab' = r.tab /\ AddMemberFile(r.load)
          /\ r.load \in added \cup {None} /\ (r.load = None \/ IsLazy(r.load))
    BY <2>1
  <2>3. new \notin DOMAIN alias
    BY <1>1, <2>1 DEF Numbered
  <2>4. Puts(new, r.load)
    BY <2>1, <2>2, <2>3, AddSymbolPuts DEF Inv
  <2>5. Handing /\ (r.load # None => r.load.to \in seen')
    BY <1>1, <2>2, AddMemberQueues DEF Inv, Handing
  <2>6. accum' = accum
    BY <1>5 DEF ReadSymbol
  <2> QED BY <1>2, <1>3, <1>4, <2>1, <2>4, <2>5, <2>6, InsertLoads
<1>6. CASE SetImageBase
  <2> DEFINE new == DriverBody(ImageBase, "absolute")
  <2>1. /\ added' = added \cup {new} /\ UNCHANGED <<files, seen, accum>>
        /\ \E r \in AddSymbol(new) : symtab' = r.tab
    BY <1>6 DEF SetImageBase, queues, reading
  <2>2. new \in Bodies /\ new.file = Driver /\ new.id = fresh /\ IsDefined(new) /\ ~IsLazy(new)
    <3>1. new \in Bodies /\ new.file = Driver /\ new.id = fresh /\ new.kind = "absolute"
      BY SortAssumption DEF DriverBody, Bodies, Kinds, DefinedKinds, Inv, Typed
    <3> QED BY <3>1, BodyFacts DEF Others
  <2> HIDE DEF new
  <2>3. new \notin DOMAIN alias
    <3>1. fresh \in Nat /\ \A b \in added : b.file = Driver => b.id < fresh
      BY <1>1 DEF Inv, Typed, Numbered
    <3>2. new \notin added
      BY <2>2, <3>1
    <3> QED BY <1>1, <3>2 DEF Numbered
  <2>4. PICK r \in AddSymbol(new) : symtab' = r.tab
    BY <2>1
  <2>5. Puts(new, r.load) /\ r.load = None
    BY <2>2, <2>3, <2>4, AddSymbolPuts, AddSymbolFacts DEF Inv
  <2>6. Handing
    BY <2>1 DEF Handing, ToSet, Loaded, Offers
  <2> QED BY <1>2, <1>3, <1>4, <2>1, <2>2, <2>5, <2>6, InsertLoads
<1>7. CASE AddLazy
  <2>1. PICK new \in Bodies :
           /\ \E a \in Archives : \E i \in DOMAIN world.index[a] : new = world.index[a][i]
           /\ IsLazy(new) /\ ~IsDefined(new) /\ new.name \in Names /\ added' = added \cup {new}
           /\ LET old == symtab[new.name]
              IN  IF IsDefined(old) \/ (IsLazy(old) /\ Index(old.file) < Index(new.file))
                  THEN UNCHANGED <<symtab, accum>>
                  ELSE /\ symtab' = [symtab EXCEPT ![new.name] = new]
                       /\ accum' = IF IsUndefined(old) THEN Append(accum, new.name) ELSE accum
    BY <1>7, LazyFacts
  <2> PICK n, old : n = new.name /\ old = symtab[n]
    OBVIOUS
  <2>2. /\ \/ symtab' = symtab /\ accum' = accum /\ (IsDefined(old) \/ IsLazy(old))
           \/ symtab' = [symtab EXCEPT ![n] = new] /\ accum' = accum /\ ~IsUndefined(old) /\ ~IsDefined(old)
           \/ symtab' = [symtab EXCEPT ![n] = new] /\ accum' = Append(accum, n) /\ ~IsDefined(old)
        /\ n \in Names /\ symtab \in [Names -> BodyOrNone] /\ accum \in Seq(Names)
    BY <2>1 DEF Inv, Typed
  <2>3. UNCHANGED <<files, seen>>
    BY <1>7 DEF AddLazy, queues
  <2>4. /\ \A m \in Names : m # n => symtab'[m] = symtab[m]
        /\ symtab'[n] = new \/ (symtab'[n] = old /\ (IsDefined(old) \/ IsLazy(old)))
        /\ IsDefined(old) => symtab'[n] = old
    BY <2>2
  <2>5. ToSet(accum) \subseteq ToSet(accum)' /\ (symtab'[n] = new /\ IsUndefined(old) => n \in ToSet(accum)')
    <3>1. ToSet(Append(accum, n)) = ToSet(accum) \cup {n}
      BY <2>2, AppendFacts
    <3>2. accum' = accum => ToSet(accum)' = ToSet(accum)
      BY DEF ToSet
    <3>3. accum' = Append(accum, n) => ToSet(accum)' = ToSet(accum) \cup {n}
      BY <3>1 DEF ToSet
    <3>4. symtab'[n] = new /\ IsUndefined(old) => accum' = Append(accum, n)
      <4>1. ~(IsUndefined(old) /\ IsLazy(old)) /\ ~(IsUndefined(old) /\ IsDefined(old))
        BY DEF IsUndefined, IsLazy, IsDefined, DefinedKinds, BitcodeKinds
      <4> QED BY <2>2, <4>1
    <3> QED BY <2>2, <3>2, <3>3, <3>4
  <2>6. \A b \in added : b.name \in Names
    BY BodyFacts DEF Inv, Typed
  <2>7. new # None
    BY <2>1 DEF IsLazy
  <2>8. Stays'
    <3>1. \A b \in added' : symtab'[b.name] # None
      BY <2>1, <2>4, <2>6, <2>7, NotBodies DEF Loaded, Stays
    <3>2. \A b \in added' : IsDefined(b) /\ b.file # Compiled => IsDefined(symtab'[b.name])
      BY <2>1, <2>4, <2>6 DEF Loaded, Stays
    <3> QED BY <3>1, <3>2 DEF Stays
  <2>9. LTOClean' /\ Offers'
    <3>1. LTOClean'
      BY <1>4 DEF LTOClean
    <3>2. ToSet(files)' = ToSet(files)
      BY <2>3 DEF ToSet
    <3> QED BY <1>2, <2>1, <2>3, <3>1, <3>2 DEF Loaded, Offers
  <2>10. \A m : Coming(m) => Coming(m)'
    <3> SUFFICES ASSUME NEW m, Coming(m) PROVE Coming(m)'
      OBVIOUS
    <3>1. PICK o \in ToSet(files) \cap Objects : \E k \in DOMAIN world.syms[o] :
             /\ world.syms[o][k] \notin added
             /\ world.syms[o][k].name = m /\ world.syms[o][k].kind \in DefinedKinds
      BY DEF Coming
    <3>2. PICK k \in DOMAIN world.syms[o] :
             /\ world.syms[o][k] \notin added
             /\ world.syms[o][k].name = m /\ world.syms[o][k].kind \in DefinedKinds
      BY <3>1
    <3>3. world.syms[o][k] # new
      BY <2>1, <3>2 DEF IsLazy, DefinedKinds, BitcodeKinds
    <3>4. o \in ToSet(files)'
      BY <2>3 DEF ToSet
    <3> QED BY <1>2, <2>1, <3>2, <3>3, <3>4 DEF Coming
  <2>11. Wanted'
    <3> SUFFICES ASSUME NEW m \in Names, IsLazy(symtab'[m]), NEW b \in Candidates(m)', ~IsLazy(b)
                 PROVE  m \in ToSet(accum)' \/ Coming(m)'
      BY DEF Wanted
    <3>1. b \in Candidates(m) /\ b \in added
      BY <2>1 DEF Candidates
    <3>2. symtab[m] # None
      BY <3>1 DEF Candidates, Loaded, Stays
    <3>3. CASE IsLazy(symtab[m])
      <4>1. m \in ToSet(accum) \/ Coming(m)
        BY <3>1, <3>3 DEF Loaded, Wanted
      <4> QED BY <2>5, <2>10, <4>1
    <3>4. CASE ~IsLazy(symtab[m])
      <4>1. m = n /\ symtab'[n] = new
        BY <2>4, <3>4
      <4>2. ~IsDefined(old)
        BY <2>1, <2>4, <4>1
      <4>3. IsUndefined(old)
        BY <2>2, <3>2, <3>4, <4>1, <4>2, BodyFacts DEF BodyOrNone
      <4> QED BY <2>5, <4>1, <4>3
    <3> QED BY <3>3, <3>4
  <2>12. Taken'
    <3> SUFFICES ASSUME NEW m \in Names, Offered(m)', ~WeakRef(m)' PROVE ~IsUndefined(symtab'[m])
      BY DEF Taken
    <3>1. CASE m = n
      <4>1. ~IsUndefined(new)
        BY <2>1 DEF IsLazy, IsUndefined
      <4>2. IsDefined(old) \/ IsLazy(old) => ~IsUndefined(old)
        BY DEF IsLazy, IsUndefined, IsDefined, DefinedKinds, BitcodeKinds
      <4> QED BY <2>4, <3>1, <4>1, <4>2
    <3>2. CASE m # n
      <4>1. Offered(m)
        BY <2>1, <3>2 DEF Offered, Candidates
      <4>2. ~WeakRef(m)
        <5>1. \A b : Default(b)' = Default(b)
          BY <1>2 DEF Default
        <5> QED BY <2>1, <5>1 DEF WeakRef, Candidates
      <4> QED BY <2>4, <3>2, <4>1, <4>2 DEF Loaded, Taken
    <3> QED BY <3>1, <3>2
  <2> QED BY <2>8, <2>9, <2>11, <2>12 DEF Loaded
<1> QED BY <1>5, <1>6, <1>7

(* Link-time optimisation loses no definition.                             *)
LEMMA CompileLoads ==
  ASSUME Inv, Inv', Aliases, Truthful(world), Loaded, ReadInv, phase \notin Failed, phase' \notin Failed,
         CreateLTOObject \/ ReplaceBitcode
  PROVE  Loaded'
<1>1. CASE CreateLTOObject
  <2>1. /\ phase = "compile" /\ lto' = CompiledSymbols(MustPreserve) /\ files' = Append(files, Compiled)
        /\ UNCHANGED <<world, symtab, added, seen, accum>>
    BY <1>1 DEF CreateLTOObject, Failed, Ends, table, reading
  <2>2. Backrefs /\ compiled = 0
    BY <2>1 DEF Inv, Chosen, Phases, Loop, Ends
  <2>3. Handing
    <3>1. files \in Seq(Files \cup {Compiled}) /\ Compiled \in Files \cup {Compiled}
      BY DEF Inv, Typed
    <3>2. ToSet(files)' = ToSet(files) \cup {Compiled}
      BY <2>1, <3>1, AppendFacts
    <3> QED BY <2>1, <3>2 DEF Handing
  <2>4. LTOClean'
    <3> SUFFICES ASSUME NEW b \in ToSet(CompiledSymbols(MustPreserve)), b.kind = "undef", NEW c \in added, IsBitcode(c)
                 PROVE  c.name # b.name
      BY <2>1 DEF LTOClean
    <3>1. c.file \in world.bitcode /\ c.file \in ToSet(files) /\ c.id \in DOMAIN world.syms[c.file]
          /\ c = world.syms[c.file][c.id] /\ c.kind \in DefinedKinds
      <4>1. c \in Bodies /\ Known(c) /\ c.kind \in BitcodeKinds
        BY DEF Inv, Typed, Origins, IsBitcode
      <4>2. c.file \in Objects
        <5>1. c.file # Compiled
          BY <2>2, <4>1, SortAssumption DEF Known, Inv, FilesOnce
        <5>2. c.file \notin Archives /\ c.file # Driver
          BY <4>1 DEF Known, BitcodeKinds
        <5> QED BY <4>1, <5>1, <5>2 DEF Bodies, Files
      <4>3. c.file # Driver
        BY <4>2, SortAssumption DEF Files
      <4>4. c.id \in DOMAIN world.syms[c.file] /\ c = world.syms[c.file][c.id] /\ c.file \in ToSet(files)
        BY <4>1, <4>2, <4>3 DEF Known
      <4>5. c.file \in world.bitcode
        <5> PICK o \in Objects : o = c.file
          BY <4>2
        <5> PICK k \in DOMAIN world.syms[o] : k = c.id
          BY <4>4
        <5>1. world \in Worlds
          BY DEF Inv, Typed
        <5>2. world.syms[o][k].kind \in BitcodeKinds => o \in world.bitcode
          BY <5>1, FileAssumption
        <5> QED BY <4>1, <4>4, <5>2
      <4> QED BY <4>1, <4>4, <4>5 DEF DefinedKinds
    <3>2. c \in SymbolsOf(BitcodeFiles)
      BY <3>1 DEF SymbolsOf, BitcodeFiles
    <3>3. \/ \A x \in SymbolsOf(BitcodeFiles) : IsBitcode(x) => x.name # b.name
          \/ \E i \in DOMAIN world.emits : world.emits[i][1] = b.name /\ world.emits[i][2] = "undef"
      BY <2>2, CompiledFacts
    <3> QED BY <3>1, <3>2, <3>3 DEF Truthful
  <2>5. Stays' /\ Offers' /\ Wanted' /\ Taken'
    <3>1. Stays' /\ Offers'
      BY <2>1, <2>3 DEF Loaded, Stays, Offers, Handing
    <3>2. \A b : Default(b)' = Default(b)
      BY <2>1 DEF Default
    <3>3. \A n \in Names : Offered(n)' = Offered(n) /\ WeakRef(n)' = WeakRef(n) /\ Candidates(n)' = Candidates(n)
      BY <2>1, <3>2 DEF Offered, WeakRef, Candidates
    <3>4. \A n : Coming(n) => Coming(n)'
      BY <2>1, <2>3 DEF Coming, Handing
    <3>5. ToSet(accum)' = ToSet(accum)
      BY <2>1 DEF ToSet
    <3> QED BY <2>1, <3>1, <3>3, <3>4, <3>5 DEF Loaded, Wanted, Taken
  <2> QED BY <2>4, <2>5 DEF Loaded
<1>2. CASE ReplaceBitcode
  <2> DEFINE new == Head(lto)
             n == new.name
             old == IF symtab[n] = None THEN new ELSE symtab[n]
             put == [symtab EXCEPT ![n] = new]
  <2>1. /\ phase = "replace" /\ phase' = "replace" /\ lto # <<>> /\ lto' = Tail(lto) /\ added' = added \cup {new}
        /\ UNCHANGED <<world, accum>>
        /\ IF IsLazy(old)
           THEN AddMemberFile(old) /\ symtab' = symtab
           ELSE /\ \E c \in IF IsBitcode(old) THEN {-1} ELSE Compare(old, new) :
                     c # 0 /\ symtab' = IF c < 0 THEN put ELSE symtab
                /\ UNCHANGED queues
    BY <1>2 DEF ReplaceBitcode, Failed, Ends, reading
  <2>2. Backrefs /\ Backrefs'
    BY <2>1 DEF Inv, Chosen, Ends
  <2>3. new \in ToSet(lto) /\ new \in Bodies /\ ToSet(lto)' \subseteq ToSet(lto)
    <3>1. lto \in Seq(Bodies)
      BY DEF Inv, Typed
    <3>2. ToSet(Tail(lto)) \subseteq ToSet(lto)
      BY <2>1, <3>1, TailFacts
    <3> QED BY <2>1, <3>1, <3>2, TailFacts DEF ToSet
  <2>4. Known(new) /\ new.file = Compiled /\ new.kind \in {"regular", "comdat", "undef"}
    BY <2>3 DEF Inv, Origins
  <2>5. ~IsLazy(new) /\ ~IsBitcode(new) /\ n \in Names /\ (IsDefined(new) \/ IsUndefined(new))
    BY <2>3, <2>4, BodyFacts DEF BitcodeKinds
  <2>6. symtab \in [Names -> BodyOrNone] /\ put[n] = new /\ symtab[n] \in BodyOrNone
    BY <2>5 DEF Inv, Typed
  <2>7. symtab[n] = None => symtab' = put
    <3> SUFFICES ASSUME symtab[n] = None PROVE symtab' = put
      OBVIOUS
    <3>1. old = new
      OBVIOUS
    <3>2. PICK c \in Compare(new, new) : c # 0 /\ symtab' = IF c < 0 THEN put ELSE symtab
      BY <2>1, <2>5, <3>1
    <3>3. Compare(new, new) = CompareOrdered(new, new)
      <4>1. Rank(new) \in Nat
        BY <2>3, Ranks
      <4> QED BY <4>1 DEF Compare
    <3>4. Index(new.file) \in Nat
      BY <2>4, IndexInt, SortAssumption DEF Known, Inv
    <3>5. WeakAlias(new) = None
      <4>1. new \notin added
        BY <2>5 DEF Loaded, Stays
      <4>2. new \notin DOMAIN alias
        BY <4>1 DEF ReadInv, Numbered
      <4>3. new.to = None
        BY <2>4 DEF Known
      <4> QED BY <4>2, <4>3 DEF WeakAlias, Default
    <3>6. CompareOrdered(new, new) \subseteq {0, -1}
      <4> HIDE DEF new
      <4>1. CASE new.kind = "regular"
        BY <2>5, <4>1 DEF CompareOrdered
      <4>2. CASE new.kind = "comdat"
        BY <2>5, <3>4, <4>2 DEF CompareOrdered, Earlier
      <4>3. CASE new.kind = "undef"
        BY <2>5, <3>5, <4>3 DEF CompareOrdered
      <4> QED BY <2>4, <4>1, <4>2, <4>3
    <3>7. c = -1
      BY <3>2, <3>3, <3>6
    <3> QED BY <3>2, <3>7
  <2>8. symtab' \in {symtab, put}
    BY <2>1
  <2>9. ASSUME IsDefined(symtab[n]) PROVE IsDefined(symtab'[n])
    <3>1. CASE IsDefined(new)
      BY <2>6, <2>8, <2>9, <3>1
    <3>2. CASE IsUndefined(new)
      <4>1. symtab[n] \in Bodies /\ symtab[n] # None /\ symtab[n] \in added /\ symtab[n].name = n
        BY <2>2, <2>5, <2>6, <2>9, NotBodies DEF BodyOrNone, Backrefs, Candidates
      <4>2. ~IsBitcode(symtab[n])
        BY <2>3, <3>2, <4>1 DEF Loaded, LTOClean, IsUndefined
      <4>3. ~IsLazy(symtab[n])
        BY <2>9 DEF IsDefined, IsLazy, DefinedKinds, BitcodeKinds
      <4> PICK o : o = symtab[n]
        OBVIOUS
      <4>4. Compare(o, new) = {1}
        <5>1. Rank(o) \in 1 .. 6 /\ Rank(new) = 8
          <6>1. o.kind \in {"regular", "comdat", "common"} \cup Others \cup BitcodeKinds
            BY <2>9, <4>1, BodyFacts
          <6>2. o.kind \notin BitcodeKinds
            BY <4>1, <4>2 DEF IsBitcode
          <6>3. new.kind = "undef"
            BY <3>2 DEF IsUndefined
          <6> QED BY <2>3, <4>1, <6>1, <6>2, <6>3, Ranks
        <5>2. Compare(o, new) = CompareOrdered(o, new)
          BY <5>1 DEF Compare
        <5> HIDE DEF new
        <5> QED BY <2>5, <3>2, <5>1, <5>2 DEF CompareOrdered
      <4>5. symtab' = symtab
        BY <2>1, <4>1, <4>2, <4>3, <4>4
      <4> QED BY <2>9, <4>5
    <3> QED BY <2>5, <3>1, <3>2
  <2> DEFINE load == IF IsLazy(old) THEN old ELSE None
  <2>10. Puts(new, load)
    <3>1. IsLazy(symtab[n]) => symtab' = symtab /\ load = symtab[n]
      BY <2>1 DEF IsLazy
    <3> HIDE DEF new, old, load
    <3> QED BY <2>4, <2>7, <2>8, <2>9, <3>1 DEF Puts
  <2>11. Handing /\ (load # None => load.to \in seen')
    <3>1. CASE IsLazy(old)
      <4>1. old = symtab[n] /\ old # None
        BY <2>5, <3>1 DEF IsLazy
      <4>2. old \in added
        BY <2>2, <2>5, <4>1 DEF Backrefs, Candidates
      <4>3. Whole /\ AddMemberFile(old)
        BY <2>1, <3>1 DEF ReadInv
      <4> HIDE DEF old
      <4> QED BY <3>1, <4>2, <4>3, AddMemberQueues DEF Inv, Handing
    <3>2. CASE ~IsLazy(old)
      <4>1. UNCHANGED <<files, seen>>
        BY <2>1, <3>2 DEF queues
      <4> QED BY <3>2, <4>1 DEF Handing, ToSet, Loaded, Offers
    <3> QED BY <3>1, <3>2
  <2>12. PICK l : l = load
    OBVIOUS
  <2> HIDE DEF new, load
  <2> QED BY <2>1, <2>2, <2>3, <2>5, <2>10, <2>11, <2>12, InsertLoads
<1> QED BY <1>1, <1>2

(* Steps that leave the symbol table alone.                                *)
LEMMA QuietLoads ==
  ASSUME Inv, Inv', Truthful(world), Loaded, ReadInv, phase \notin Failed, phase' \notin Failed,
         \/ IncludeDone \/ AddInput \/ InputsDone \/ NextObject \/ ObjectsDone
         \/ DefaultLib \/ AlternateName \/ ExportDirective \/ DirectivesDone
         \/ NextArchive \/ ArchivesDone \/ LoadMember \/ StepDone \/ ExportsDone \/ RoundDone
         \/ CheckUndefines \/ ReplaceDone \/ LateDone \/ ReportDone \/ UNCHANGED vars
  PROVE  Loaded'
<1>1. UNCHANGED <<world, symtab, added, lto>>
  <2>1. CASE IncludeDone \/ AddInput \/ InputsDone \/ NextObject \/ ObjectsDone
    BY <2>1 DEF IncludeDone, AddInput, InputsDone, NextObject, ObjectsDone, table, bitcode
  <2>2. CASE DefaultLib \/ AlternateName \/ ExportDirective \/ DirectivesDone
    BY <2>2 DEF DefaultLib, AlternateName, ExportDirective, DirectivesDone, NextDirective, table, bitcode
  <2>3. CASE NextArchive \/ ArchivesDone \/ LoadMember \/ StepDone \/ ExportsDone \/ RoundDone
    BY <2>3 DEF NextArchive, ArchivesDone, LoadMember, StepDone, ExportsDone, RoundDone, table, bitcode
  <2>4. CASE CheckUndefines \/ ReplaceDone \/ LateDone \/ ReportDone \/ UNCHANGED vars
    BY <2>4 DEF CheckUndefines, ReplaceDone, LateDone, ReportDone, vars, table, bitcode
  <2> QED BY <2>1, <2>2, <2>3, <2>4
<1>2. ToSet(lto)' = ToSet(lto)
  BY <1>1 DEF ToSet
<1>3. ASSUME UNCHANGED <<files, seen, accum>> PROVE Loaded'
  <2>1. Handing /\ ToSet(accum)' = ToSet(accum)
    BY <1>3 DEF Handing, ToSet, Loaded, Offers
  <2> QED BY <1>1, <1>2, <2>1, StillLoads
<1>4. ASSUME NEW f \in Files, f \notin ToSet(files), AddFile(f), UNCHANGED <<seen, accum>> PROVE Loaded'
  <2>1. ToSet(files)' = ToSet(files) \cup {f}
    BY <1>4, AddFileKeeps DEF Inv
  <2>2. Handing /\ ToSet(accum)' = ToSet(accum)
    BY <1>4, <2>1 DEF Handing, ToSet
  <2> QED BY <1>1, <1>2, <2>2, StillLoads
<1>5. CASE AddInput
  <2> DEFINE f == world.cmd[Len(files) + 1]
  <2>1. AddFile(f) /\ UNCHANGED <<seen, accum>> /\ phase = "inputs" /\ Len(files) < Len(world.cmd)
    BY <1>5 DEF AddInput, reading
  <2>2. f \in Files /\ f \notin ToSet(files)
    BY <2>1, NextInput DEF Inv
  <2> QED BY <1>4, <2>1, <2>2
<1>6. CASE DefaultLib
  <2> DEFINE f == Head(dirs).file
  <2>1. /\ UNCHANGED <<seen, accum>> /\ dirs # <<>> /\ Head(dirs).opt = "defaultlib"
        /\ UNCHANGED files \/ (AddFile(f) /\ f \notin visited)
    BY <1>6 DEF DefaultLib, NextDirective
  <2>2. CASE UNCHANGED files
    BY <1>3, <2>1, <2>2
  <2>3. CASE AddFile(f) /\ f \notin visited
    <3>1. f \in Files /\ f \notin ToSet(files)
      BY <2>1, <2>3, NextLibrary
    <3> QED BY <1>4, <2>1, <2>3, <3>1
  <2> QED BY <2>1, <2>2, <2>3
<1>7. CASE LoadMember
  <2> PICK n : n = Head(accum)
    OBVIOUS
  <2>1. phase = "members" /\ accum # <<>> /\ AddMemberFile(symtab[n]) /\ accum' = Tail(accum)
    BY <1>7 DEF LoadMember
  <2>2. n \in ToSet(accum) /\ n \in Names /\ ToSet(accum) \subseteq {n} \cup ToSet(Tail(accum))
    BY <2>1, TailFacts, HeadOrTail DEF Inv, Typed
  <2>3. IsLazy(symtab[n]) /\ symtab[n] \in Candidates(n)
    <3>1. IsLazy(symtab[n])
      BY <2>2 DEF ToSet, Inv, Chosen
    <3>2. Backrefs
      BY <2>1 DEF Inv, Chosen, Ends
    <3> QED BY <2>2, <3>1, <3>2 DEF IsLazy, Backrefs
  <2>4. Whole
    BY DEF ReadInv
  <2>5. Handing /\ symtab[n].to \in seen'
    <3>1. symtab[n] \in added /\ symtab[n] # None
      BY <2>3 DEF Candidates, IsLazy
    <3> QED BY <2>1, <2>3, <2>4, <3>1, AddMemberQueues DEF Inv, Handing
  <2>6. Stays' /\ Offers'
    BY <1>1, <2>5 DEF Loaded, Stays, Offers, Handing
  <2>7. Coming(n)'
    <3>1. Truthful(world)' /\ IsLazy(symtab'[n]) /\ symtab'[n] \in Candidates(n)' /\ symtab'[n].to \in seen'
      BY <1>1, <2>3, <2>5 DEF Candidates
    <3> QED BY <2>2, <2>6, <3>1, HandedComes
  <2>8. ToSet(accum)' = ToSet(Tail(accum))
    BY <2>1 DEF ToSet
  <2> QED BY <1>1, <1>2, <2>2, <2>5, <2>7, <2>8, StillLoads
<1>8. CASE IncludeDone \/ InputsDone \/ NextObject \/ ObjectsDone
  BY <1>3, <1>8 DEF IncludeDone, InputsDone, NextObject, ObjectsDone, queues, reading
<1>9. CASE AlternateName \/ ExportDirective \/ DirectivesDone \/ NextArchive \/ ArchivesDone
  BY <1>3, <1>9 DEF AlternateName, ExportDirective, DirectivesDone, NextDirective, NextArchive, ArchivesDone, queues, reading
<1>10. CASE StepDone \/ ExportsDone \/ RoundDone
  BY <1>3, <1>10 DEF StepDone, ExportsDone, RoundDone, queues, reading
<1>11. CASE CheckUndefines \/ ReplaceDone \/ LateDone \/ ReportDone \/ UNCHANGED vars
  BY <1>3, <1>11 DEF CheckUndefines, ReplaceDone, LateDone, ReportDone, vars, queues, reading
<1> QED BY <1>5, <1>6, <1>7, <1>8, <1>9, <1>10, <1>11

(* What is given to a name in the end is a definition.                     *)
LEMMA ReportGiven ==
  ASSUME Inv, Aliases, ReadInv, Faults, NEW n \in Names, Report(n), phase' \notin Failed
  PROVE  /\ \A m \in Names : symtab'[m] = symtab[m] \/ IsDefined(symtab'[m])
         /\ IsDefined(symtab'[n]) \/ (n \in undefs' /\ ~world.force)
<1> DEFINE d == GetWeakAlias(symtab[n])
<1>1. phase = "report" /\ n \in pool
  BY DEF Report
<1>2. \/ symtab' = [symtab EXCEPT ![n] = d] /\ d # None
      \/ symtab' = [symtab EXCEPT ![n] = DriverBody(n, "localimport")]
      \/ symtab' = [symtab EXCEPT ![n] = DriverBody(n, "absolute")] /\ world.force
      \/ symtab' = symtab /\ n \in undefs' /\ ~world.force
  <2>1. phase' # "hang"
    BY DEF Failed, Ends
  <2> QED BY <2>1 DEF Report
<1>3. IsDefined(DriverBody(n, "localimport")) /\ IsDefined(DriverBody(n, "absolute"))
  <2>1. DriverBody(n, "localimport") \in Bodies /\ DriverBody(n, "absolute") \in Bodies
    BY DEF DriverBody, Bodies, Kinds, DefinedKinds, Inv, Typed
  <2> QED BY <2>1, BodyFacts DEF DriverBody, Others
<1>4. d # None => IsDefined(d)
  BY <1>1, ReportGives
<1> HIDE DEF d
<1>5. symtab \in [Names -> BodyOrNone]
  BY DEF Inv, Typed
<1> QED BY <1>2, <1>3, <1>4, <1>5

LEMMA ReportLoads ==
  ASSUME Inv, Aliases, ReadInv, Faults, Loaded, NEW n \in Names, Report(n), phase' \notin Failed
  PROVE  Loaded'
<1>1. UNCHANGED <<world, added, files, seen, accum, lto>>
  BY DEF Report, table, queues, reading, bitcode
<1>2. \A b \in added : b.name \in Names
  BY BodyFacts DEF Inv, Typed
<1>3. \A m \in Names : symtab'[m] = symtab[m] \/ IsDefined(symtab'[m])
  BY ReportGiven
<1>4. \A b : IsDefined(b) => ~IsLazy(b) /\ ~IsUndefined(b) /\ b # None
  BY DEF IsDefined, IsLazy, IsUndefined, DefinedKinds, BitcodeKinds
<1>5. /\ ToSet(files)' = ToSet(files) /\ ToSet(accum)' = ToSet(accum) /\ ToSet(lto)' = ToSet(lto)
      /\ \A b : Default(b)' = Default(b)
  BY <1>1 DEF ToSet, Default
<1>6. /\ \A m : Candidates(m)' = Candidates(m) /\ Offered(m)' = Offered(m) /\ WeakRef(m)' = WeakRef(m)
      /\ \A m : Coming(m)' = Coming(m)
  BY <1>1, <1>5 DEF Candidates, Offered, WeakRef, Coming
<1>7. Stays'
  BY <1>1, <1>2, <1>3, <1>4 DEF Loaded, Stays
<1>8. LTOClean' /\ Offers'
  BY <1>1, <1>5 DEF Loaded, LTOClean, Offers
<1>9. Wanted'
  <2> SUFFICES ASSUME NEW m \in Names, IsLazy(symtab'[m]), NEW b \in Candidates(m)', ~IsLazy(b)
               PROVE  m \in ToSet(accum)' \/ Coming(m)'
    BY DEF Wanted
  <2>1. symtab'[m] = symtab[m]
    BY <1>3, <1>4
  <2> QED BY <1>5, <1>6, <2>1 DEF Loaded, Wanted
<1>10. Taken'
  <2> SUFFICES ASSUME NEW m \in Names, Offered(m)', ~WeakRef(m)', IsUndefined(symtab'[m]) PROVE FALSE
    BY DEF Taken
  <2>1. symtab'[m] = symtab[m]
    BY <1>3, <1>4
  <2> QED BY <1>6, <2>1 DEF Loaded, Taken
<1> QED BY <1>7, <1>8, <1>9, <1>10 DEF Loaded

\* Names that are undefined are reported or yet to be looked at.
Left ==
  /\ phase = "report" => \A n \in Names : IsUndefined(symtab[n]) => n \in pool \/ (n \in undefs /\ ~world.force)
  /\ phase = "linked" => \A n \in Names : ~IsUndefined(symtab[n])
  /\ world.bitcode = {} => compiled = 0

\* Nothing but createLTOObject compiles bitcode.
LEMMA CompiledOnce ==
  ASSUME Next, phase \notin Ends, ~CreateLTOObject
  PROVE  UNCHANGED <<world, compiled>>
<1>1. CASE Include \/ IncludeDone \/ AddInput \/ InputsDone \/ ReadSymbol \/ NextObject \/ ObjectsDone
  BY <1>1 DEF Include, IncludeDone, AddInput, InputsDone, ReadSymbol, NextObject, ObjectsDone, bitcode
<1>2. CASE DefaultLib \/ AlternateName \/ ExportDirective \/ IncludeDirective \/ DirectivesDone
  BY <1>2 DEF DefaultLib, AlternateName, ExportDirective, IncludeDirective, DirectivesDone, NextDirective, bitcode
<1>3. CASE AddLazy \/ NextArchive \/ ArchivesDone \/ LoadMember \/ StepDone
  BY <1>3 DEF AddLazy, NextArchive, ArchivesDone, LoadMember, StepDone, bitcode
<1>4. CASE SetEntry \/ SetImageBase \/ MangleEntry \/ ExportUndefined \/ MangleExport \/ ExportsDone
  BY <1>4 DEF SetEntry, SetImageBase, MangleEntry, ExportUndefined, MangleExport, ExportsDone, bitcode
<1>5. CASE \E n \in Names : TryAlternate(n) \/ Report(n)
  BY <1>5 DEF TryAlternate, Report, bitcode
<1>6. CASE RoundDone \/ CheckUndefines \/ ReplaceBitcode \/ ReplaceDone \/ LateDone \/ ReportDone
  BY <1>6 DEF RoundDone, CheckUndefines, ReplaceBitcode, ReplaceDone, LateDone, ReportDone, bitcode
<1>7. ~Terminated
  BY DEF Terminated
<1> QED BY <1>1, <1>2, <1>3, <1>4, <1>5, <1>6, <1>7 DEF Next

\* The invariant of this section.
Arrives == phase \notin Failed /\ Truthful(world) => Loaded

LEMMA NextArrives ==
  ASSUME Inv, Inv', Alternates, Aliases, ReadInv, Faults, Arrives, [Next]_vars
  PROVE  Arrives'
<1> SUFFICES ASSUME phase' \notin Failed, Truthful(world') PROVE Loaded'
  BY DEF Arrives
<1>1. CASE UNCHANGED vars
  <2>1. world' = world /\ phase' = phase
    BY <1>1 DEF vars
  <2> QED BY <1>1, <2>1, QuietLoads DEF Arrives
<1> SUFFICES ASSUME Next, phase \notin Ends PROVE Loaded'
  BY <1>1, FinalPhases
<1>2. world' = world /\ phase \notin Failed
  <2>1. CreateLTOObject => world' = world
    BY DEF CreateLTOObject
  <2> QED BY <2>1, CompiledOnce DEF Failed
<1>3. Truthful(world) /\ Loaded
  BY <1>2 DEF Arrives
<1>4. CASE \/ Include \/ IncludeDirective \/ SetEntry \/ MangleEntry \/ ExportUndefined \/ MangleExport
           \/ \E n \in Names : TryAlternate(n)
  BY <1>2, <1>3, <1>4, AskingLoads
<1>5. CASE ReadSymbol \/ SetImageBase \/ AddLazy
  BY <1>2, <1>3, <1>5, ReadingLoads
<1>6. CASE CreateLTOObject \/ ReplaceBitcode
  BY <1>2, <1>3, <1>6, CompileLoads
<1>7. CASE \E n \in Names : Report(n)
  BY <1>3, <1>7, ReportLoads
<1>8. ~Terminated
  BY DEF Terminated
<1>9. CASE \/ IncludeDone \/ AddInput \/ InputsDone \/ NextObject \/ ObjectsDone
           \/ DefaultLib \/ AlternateName \/ ExportDirective \/ DirectivesDone
           \/ NextArchive \/ ArchivesDone \/ LoadMember \/ StepDone \/ ExportsDone \/ RoundDone
           \/ CheckUndefines \/ ReplaceDone \/ LateDone \/ ReportDone
  BY <1>2, <1>3, <1>9, QuietLoads
<1> QED BY <1>4, <1>5, <1>6, <1>7, <1>8, <1>9 DEF Next

LEMMA NextLeft ==
  ASSUME Inv, Aliases, ReadInv, Faults, Left, [Next]_vars
  PROVE  Left'
<1>1. CASE UNCHANGED vars
  BY <1>1 DEF Left, vars, table, loops, bitcode
<1> SUFFICES ASSUME Next, phase \notin Ends PROVE Left'
  BY <1>1, FinalPhases
<1>2. world' = world /\ (world.bitcode = {} => compiled' = 0)
  <2>1. CASE CreateLTOObject
    <3>1. world' = world /\ phase = "compile"
      BY <2>1 DEF CreateLTOObject
    <3>2. BitcodeFiles # {}
      BY <3>1 DEF Inv, Phases
    <3> QED BY <3>1, <3>2 DEF BitcodeFiles
  <2> QED BY <2>1, CompiledOnce DEF Left
<1>3. CASE CheckUndefines \/ LateDone
  <2>1. symtab' = symtab /\ phase' # "linked" /\ (phase' = "report" => pool' = UndefinedNames)
    BY <1>3 DEF CheckUndefines, LateDone, table
  <2> QED BY <1>2, <2>1 DEF Left, UndefinedNames
<1>4. ASSUME NEW n \in Names, Report(n) PROVE Left'
  <2>1. /\ phase = "report" /\ pool' = pool \ {n} /\ undefs \subseteq undefs' /\ phase' \in {"report", "hang"}
        /\ \A m \in Names : m # n => symtab'[m] = symtab[m]
    <3>1. /\ phase = "report" /\ pool' = pool \ {n} /\ undefs \subseteq undefs' /\ phase' \in {"report", "hang"}
          /\ symtab' = symtab \/ \E b : symtab' = [symtab EXCEPT ![n] = b]
      BY <1>4 DEF Report, table
    <3> QED BY <3>1 DEF Inv, Typed
  <2>2. phase' = "report" => (IsUndefined(symtab'[n]) => n \in undefs' /\ ~world.force)
    <3> SUFFICES ASSUME phase' \notin Failed, IsUndefined(symtab'[n]) PROVE n \in undefs' /\ ~world.force
      BY DEF Failed, Ends
    <3>1. ~IsDefined(symtab'[n])
      BY DEF IsUndefined, IsDefined, DefinedKinds, BitcodeKinds
    <3> QED BY <1>4, <3>1, ReportGiven
  <2> QED BY <1>2, <2>1, <2>2 DEF Left
<1>5. CASE ReportDone
  <2>1. /\ phase = "report" /\ pool = {} /\ symtab' = symtab
        /\ phase' = IF undefs = {} \/ world.force THEN "linked" ELSE "undefined"
    BY <1>5 DEF ReportDone, table
  <2> QED BY <1>2, <2>1 DEF Left
<1>6. CASE ~(CheckUndefines \/ LateDone \/ ReportDone \/ \E n \in Names : Report(n))
  BY <1>2, <1>6, OtherSteps DEF Left
<1> QED BY <1>3, <1>4, <1>5, <1>6

(* Members that were asked for are loaded or on their way.                 *)
LEMMA LoadedHolds ==
  Spec => [](Inv /\ Alternates /\ Aliases /\ ReadInv /\ Faults /\ Arrives /\ Left)
<1>1. Init => Arrives /\ Left
  <2> SUFFICES ASSUME Init PROVE Loaded /\ Left
    BY DEF Arrives
  <2>1. added = {} /\ symtab = [n \in Names |-> None] /\ lto = <<>> /\ seen = {} /\ phase = "include" /\ compiled = 0
    BY DEF Init
  <2> QED BY <2>1, NotBodies DEF Loaded, Stays, LTOClean, Offers, Wanted, Taken, Candidates, Offered, Left, ToSet
<1>2. /\ Inv /\ Alternates /\ Aliases /\ ReadInv /\ Faults /\ Arrives /\ Left
      /\ (Inv /\ Alternates /\ Aliases /\ ReadInv /\ Faults)' /\ [Next]_vars
      => (Arrives /\ Left)'
  BY NextArrives, NextLeft
<1> QED BY <1>1, <1>2, FaultsHold, PTL DEF Spec

\* When all files have been read nothing is on its way.
LEMMA NothingComes ==
  ASSUME Inv, ReadInv, phase \in {"report", "linked"}, NEW n
  PROVE  ~Coming(n) /\ accum = <<>>
<1>1. objQ = <<>> /\ Whole
  BY DEF ReadInv, Failed, Ends, Cursor
<1>2. accum = <<>>
  BY DEF Inv, Chosen
<1> SUFFICES ASSUME NEW o \in ToSet(files) \cap Objects, NEW k \in DOMAIN world.syms[o], world.syms[o][k] \notin added
             PROVE  FALSE
  BY <1>2 DEF Coming
<1>3. Unread(o, k)
  BY <1>1 DEF Whole
<1>4. o \in ToSet(objQ)
  BY <1>3 DEF Unread
<1> QED BY <1>1, <1>4 DEF ToSet

(* SymbolTable.cpp:203: "let the lazy symbol to read a member file."  When *)
(* all files have been read, a name that is needed and that some archive   *)
(* offers is defined, in links of any number of archives and members, in   *)
(* whatever order the reference and the offer came; if members define what *)
(* their archive says, and the code generator asks for nothing that some   *)
(* bitcode file defines.                                                   *)
THEOREM MembersAreLoaded == Spec => [](Truthful(world) => StrongNeedsLoaded)
<1>1. Inv /\ ReadInv /\ Arrives /\ Truthful(world) => StrongNeedsLoaded
  <2> SUFFICES ASSUME Inv, ReadInv, Arrives, Truthful(world), phase = "report",
                      NEW n \in Names, StrongRef(n), Offered(n), ~WeakRef(n)
               PROVE  IsDefined(symtab[n])
    BY DEF StrongNeedsLoaded, Converged
  <2>1. Loaded
    BY DEF Arrives, Failed, Ends
  <2>2. PICK b \in Candidates(n) : IsUndefined(b)
    BY DEF StrongRef
  <2>3. symtab[n] # None /\ ~IsUndefined(symtab[n])
    BY <2>1, <2>2 DEF Loaded, Stays, Taken, Candidates
  <2>4. ~IsLazy(symtab[n])
    <3>1. ~IsLazy(b)
      BY <2>2 DEF IsUndefined, IsLazy
    <3> QED BY <2>1, <3>1, NothingComes DEF Loaded, Wanted, ToSet
  <2> QED BY <2>3, <2>4, BodyFacts DEF Inv, Typed, BodyOrNone
<1> QED BY <1>1, LoadedHolds, PTL

\* A link that succeeded has a definition for every name in it.
LinkedDefined ==
  phase = "linked" => \A b \in added : IsLazy(b) \/ IsDefined(symtab[b.name])

(* A link succeeds only when every name referred to has a definition: none *)
(* is left Undefined or Lazy for the writer, in links of any number of     *)
(* files, archives and rounds.                                             *)
THEOREM LinkedIsDefined == Spec => [](Truthful(world) => LinkedDefined)
<1>1. Inv /\ ReadInv /\ Arrives /\ Left /\ Truthful(world) => LinkedDefined
  <2> SUFFICES ASSUME Inv, ReadInv, Arrives, Left, Truthful(world), phase = "linked", NEW b \in added, ~IsLazy(b)
               PROVE  IsDefined(symtab[b.name])
    BY DEF LinkedDefined
  <2>1. Loaded
    BY DEF Arrives, Failed
  <2> PICK n \in Names : n = b.name
    BY BodyFacts DEF Inv, Typed
  <2>2. symtab[n] # None /\ ~IsUndefined(symtab[n])
    BY <2>1 DEF Loaded, Stays, Left
  <2>3. ~IsLazy(symtab[n])
    <3>1. b \in Candidates(n)
      BY DEF Candidates
    <3> QED BY <2>1, <3>1, NothingComes DEF Loaded, Wanted, ToSet
  <2> QED BY <2>2, <2>3, BodyFacts DEF Inv, Typed, BodyOrNone
<1> QED BY <1>1, LoadedHolds, PTL

(* The whole of LinkedMeansResolved, for links without bitcode files.      *)
THEOREM LinkedIsResolved == Spec => [](Truthful(world) /\ world.bitcode = {} => LinkedMeansResolved)
<1>1. Left /\ world.bitcode = {} /\ LinkedDefined => LinkedMeansResolved
  BY DEF Left, LinkedDefined, LinkedMeansResolved
<1> QED BY <1>1, LoadedHolds, LinkedIsDefined, PTL
=============================================================================
