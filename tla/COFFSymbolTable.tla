-------------------------- MODULE COFFSymbolTable --------------------------
(***************************************************************************)
(* The resolver of the new PE/COFF linker: COFF/SymbolTable.cpp and        *)
(* Symbols.cpp, driven by LinkerDriver::link (COFF/Driver.cpp) from the    *)
(* command line to reportRemainingUndefines, with link-time optimisation:  *)
(* bitcode files are resolved as they are and then compiled to one object. *)
(*                                                                         *)
(* A link is described by a record `world`: the files on the command line, *)
(* what is in each of them, and the options that name symbols.  The code   *)
(* runs one thread; a step of the model is one symbol, one directive, one  *)
(* archive member or one option.  What the code leaves to chance, the      *)
(* order of a DenseMap of StringRefs and of two pointers, is a choice.     *)
(*                                                                         *)
(* Resource files are not modelled.                                        *)
(***************************************************************************)
EXTENDS Integers, SequencesExt, FiniteSets

CONSTANTS
  Names,      \* symbol names
  Objects,    \* object and import files, whether given or archive members
  Archives,
  Worlds,     \* the links considered
  ImpBase,    \* "__imp_x" |-> x, for the names with that prefix
  Mangled,    \* [Names -> SUBSET Names]: those starting with "?" name "@@Y"
  ImageBase,  \* the name __ImageBase
  None,       \* no symbol, no file
  Driver,     \* stands for the file of a symbol the driver creates
  Compiled    \* the object file that bitcode is compiled to

Files == Objects \cup Archives

BitcodeKinds == {"bitcode", "bitcomdat"}   \* the latter with IsReplaceable
DefinedKinds == {"regular", "comdat", "common", "localimport", "thunk",
                 "import", "absolute"} \cup BitcodeKinds
Kinds == DefinedKinds \cup {"undef", "lazy"}

\* A SymbolBody: where it comes from, its name, its kind, the size of a common
\* symbol, the name of a weak external's default or of a lazy symbol's member.
Bodies == [file : Files \cup {Driver, Compiled}, id : Nat, name : Names, kind : Kinds,
           size : Nat, to : Names \cup Objects \cup {None}]

Directives == [opt : {"defaultlib", "alternatename", "export", "include"},
               file : Files \cup {None}, from : Names \cup {None},
               to : Names \cup {None}]

ASSUME SortAssumption ==
  /\ None \notin Names \cup Files
  /\ Driver \notin Names \cup Files
  /\ Compiled \notin Names \cup Files \cup {Driver}
  /\ Objects \cap Archives = {}
  /\ None \notin Bodies
  /\ DOMAIN ImpBase \subseteq Names /\ \A n \in DOMAIN ImpBase : ImpBase[n] \in Names
  /\ Mangled \in [Names -> SUBSET Names]
  /\ ImageBase \in Names

\* A world: cmd, the inputs in order; syms, the symbol table of each object;
\* dirs, its .drectve section; index, the symbol table of each archive; and
\* the options /include, /export, /alternatename, /entry and /force; bitcode,
\* which objects are bitcode files; and emits, the names the code generator
\* adds, of runtime library functions and of constants, with their kinds.
ASSUME WorldAssumption ==
  \A w \in Worlds :
    /\ w.cmd \in Seq(Files)
    /\ \A o \in Objects : /\ w.syms[o] \in Seq(Bodies)
                          /\ w.dirs[o] \in Seq(Directives)
    /\ \A a \in Archives : w.index[a] \in Seq(Bodies)
    /\ w.include \in Seq(Names) /\ w.exports \in Seq(Names)
    /\ w.alts \subseteq Names \X Names
    /\ w.entry \in Names \cup {None}
    /\ w.force \in BOOLEAN
    /\ w.bitcode \subseteq Objects
    /\ w.emits \in Seq(Names \X {"undef", "comdat"})

MemberFiles(w) == UNION {{w.index[a][i].to : i \in DOMAIN w.index[a]} : a \in Archives}
Libraries(w) == UNION {{w.dirs[o][i].file : i \in DOMAIN w.dirs[o]} : o \in Objects}

\* Files say where their symbols come from, and define a name once, so does
\* what the bitcode of a world is compiled to; findFile gives each file of the
\* command line once; a member of an archive is no file of its own; and each
\* directive comes with what it needs.
ASSUME FileAssumption ==
  \A w \in Worlds :
    /\ \A i, j \in DOMAIN w.cmd : w.cmd[i] = w.cmd[j] => i = j
    /\ MemberFiles(w) \cap (ToSet(w.cmd) \cup Libraries(w)) = {}
    /\ \A o \in Objects : \A i \in DOMAIN w.syms[o] :
         LET b == w.syms[o][i] IN
         /\ b.file = o /\ b.id = i /\ b.kind # "lazy"
         /\ b.kind \in BitcodeKinds => o \in w.bitcode
         /\ \A j \in DOMAIN w.syms[o] :
              /\ w.syms[o][j].name = b.name
              /\ b.kind \in DefinedKinds /\ w.syms[o][j].kind \in DefinedKinds
              => i = j
    /\ \A a \in Archives : \A i \in DOMAIN w.index[a] :
         LET b == w.index[a][i] IN b.file = a /\ b.kind = "lazy" /\ b.to \in Objects
    /\ \A o \in Objects : \A i \in DOMAIN w.dirs[o] :
         LET d == w.dirs[o][i] IN
         IF d.opt = "defaultlib" THEN d.file \in Files
         ELSE d.from \in Names /\ (d.opt = "alternatename" => d.to \in Names)
    /\ \A i \in DOMAIN w.emits : w.emits[i][2] = "comdat" =>
         /\ \A j \in DOMAIN w.emits : w.emits[j] = w.emits[i] => i = j
         /\ \A o \in w.bitcode : \A k \in DOMAIN w.syms[o] :
              w.syms[o][k].name # w.emits[i][1]

VARIABLES
  world,     \* the link at hand
  phase,     \* which loop of the linker is running
  running,   \* FALSE in the step() over the command line, TRUE in run()
  symtab,    \* Symtab: name |-> the Body of its Symbol
  alias,     \* Undefined::WeakAlias of the bodies on which it was set
  added,     \* bodies inserted: those with a Backref
  files,     \* Files; a file's Index is its position
  objQ,      \* ObjectQueue
  arcQ,      \* ArchiveQueue
  seen,      \* members their ArchiveFile has handed out
  cur,       \* <<file, symbol>>: where readObjects or readArchives is
  dirs,      \* directives readObjects has collected
  accum,     \* LazySyms of readArchives
  visited,   \* VisitedFiles: libraries already opened
  exports,   \* Config->Exports
  alts,      \* Config->AlternateNames
  entry,     \* Config->Entry
  esym,      \* E.Sym of the export the driver's loop is at
  list,      \* options the driver has yet to go through, in order
  pool,      \* names a loop over a map has yet to visit
  undefs,    \* Undefs of reportRemainingUndefines
  fresh,     \* how many bodies the driver has created
  roots,     \* Config->GCRoot
  lto,       \* external symbols of the compiled object, not yet looked at
  compiled   \* NumBitcodeFiles, 0 before anything has been compiled

queues == <<files, objQ, arcQ, seen>>
table == <<symtab, added, fresh>>
config == <<visited, exports, alts, entry>>
loops == <<esym, list, pool, undefs>>
reading == <<cur, dirs, accum>>

bitcode == <<roots, lto, compiled>>

vars == <<world, phase, running, table, alias, queues, reading, config, loops, bitcode>>
-----------------------------------------------------------------------------
IsDefined(b) == b # None /\ b.kind \in DefinedKinds
IsUndefined(b) == b # None /\ b.kind = "undef"
IsLazy(b) == b # None /\ b.kind = "lazy"
IsBitcode(b) == b # None /\ b.kind \in BitcodeKinds

\* InputFile::Index
Index(f) == CHOOSE i \in 1 .. Len(files) : files[i] = f

\* SymbolBody::repl: the body that has been chosen for b's name.
Repl(b) == IF b \in added THEN symtab[b.name] ELSE b

\* ObjectFile::createWeakExternal: a weak external's default is a symbol of
\* its file, found only if it comes before it.
Default(b) ==
  LET syms == world.syms[b.file]
      found == {i \in 1 .. b.id - 1 : syms[i].name = b.to}
  IN  IF b.to = None \/ found = {} THEN None ELSE syms[CHOOSE i \in found : TRUE]

\* Undefined::WeakAlias: given by the weak external's file, or set since.
WeakAlias(b) == IF b \in DOMAIN alias THEN alias[b] ELSE Default(b)

\* What Undefined::getWeakAlias walks through: u's alias, the alias of that...
Chain(u) ==
  LET step[i \in Nat] == IF i = 0 THEN u
                         ELSE IF step[i - 1] = None THEN None
                         ELSE WeakAlias(step[i - 1])
      len == Cardinality(added) + 1
  IN  [i \in 1 .. len |-> step[i]]

\* (broken) The alias itself must be a definition, whatever replaced it.
GetWeakAliasUnreplaced(u) ==
  LET c == Chain(u)
      hits == {i \in DOMAIN c : c[i] # None /\ IsDefined(c[i])}
  IN  IF hits = {} THEN None
      ELSE c[CHOOSE i \in hits : \A j \in hits : i <= j]

(* Undefined::getWeakAlias: the first of the chain that resolves to a      *)
(* definition, None if the chain ends before.                              *)
GetWeakAlias(u) ==
  LET c == Chain(u)
      hits == {i \in DOMAIN c : c[i] # None /\ IsDefined(Repl(c[i]))}
  IN  IF hits = {} THEN None
      ELSE Repl(c[CHOOSE i \in hits : \A j \in hits : i <= j])

\* Its loop never ends: the chain comes back to itself.
AliasLoop(u) == GetWeakAlias(u) = None /\ Chain(u)[Cardinality(added) + 1] # None

\* The order of enum Kind.
Rank(b) == CASE b.kind \in {"regular", "comdat"} -> 1
             [] b.kind = "common" -> 2
             [] b.kind = "localimport" -> 3
             [] b.kind = "thunk" -> 4
             [] b.kind = "import" -> 5
             [] b.kind = "absolute" -> 6
             [] b.kind \in BitcodeKinds -> 7
             [] b.kind = "undef" -> 8
             [] b.kind = "lazy" -> 9

Earlier(a, b) == IF Index(a.file) < Index(b.file) THEN {1} ELSE {-1}

\* A regular symbol and bitcode conflict for sure if neither is replaceable;
\* of two bitcode symbols one that is not wins, else the one with the lower
\* address.
CompareBitcode(a, b) ==
  IF IsBitcode(a)
  THEN IF a.kind # b.kind THEN IF a.kind = "bitcode" THEN {1} ELSE {-1}
       ELSE IF a.kind = "bitcode" THEN {0} ELSE {1, -1}
  ELSE IF a.kind \in {"common", "comdat"} \/ (a.kind = "regular" /\ b.kind = "bitcomdat")
  THEN {1} ELSE {0}

CompareOrdered(a, b) ==
  IF IsBitcode(b) THEN CompareBitcode(a, b)
  ELSE IF Rank(a) # Rank(b)
  THEN IF IsUndefined(b) \/ Rank(a) <= 2 THEN {1} ELSE {0}
  ELSE CASE a.kind = "comdat" /\ b.kind = "comdat" -> Earlier(a, b)
         [] a.kind = "common" -> IF a.size = b.size THEN Earlier(a, b)
                                 ELSE IF a.size > b.size THEN {1} ELSE {-1}
         [] a.kind = "undef" ->
              IF WeakAlias(a) # None /\ WeakAlias(b) # None
              THEN IF Repl(WeakAlias(a)) # Repl(WeakAlias(b)) THEN {0} ELSE {1, -1}
              ELSE IF WeakAlias(a) # None THEN {1} ELSE {-1}
         [] OTHER -> {0}

(* SymbolBody::compare: 1 if a wins over b, -1 if it loses, 0 if they      *)
(* conflict.  Two weak externals with the same default are ordered by      *)
(* their addresses.                                                        *)
Compare(a, b) == IF Rank(a) > Rank(b) THEN {-c : c \in CompareOrdered(b, a)}
                 ELSE CompareOrdered(a, b)

(* SymbolTable::addSymbol: the possible outcomes of inserting body new.    *)
Outcome(t, m, e) == [tab |-> t, load |-> m, err |-> e]

\* (broken) A later body takes the place of the better one.
AddSymbolWorst(new) ==
  LET old == symtab[new.name]
      put == [symtab EXCEPT ![new.name] = new]
  IN  IF old = None \/ IsLazy(old) THEN {Outcome(put, None, FALSE)}
      ELSE {Outcome(IF c > 0 /\ IsDefined(new) THEN put ELSE symtab, None, c = 0)
              : c \in Compare(old, new)}

\* (broken) An undefined symbol that meets a lazy one just takes its place.
AddSymbolNoLoad(new) ==
  LET old == symtab[new.name]
      put == [symtab EXCEPT ![new.name] = new]
  IN  IF old = None \/ IsLazy(old) THEN {Outcome(put, None, FALSE)}
      ELSE {Outcome(IF c < 0 THEN put ELSE symtab, None, c = 0)
              : c \in Compare(old, new)}

AddSymbol(new) ==
  LET old == symtab[new.name]
      put == [symtab EXCEPT ![new.name] = new]
  IN  IF old = None THEN {Outcome(put, None, FALSE)}
      ELSE IF IsLazy(old)
      THEN IF IsUndefined(new) /\ WeakAlias(new) = None
           THEN {Outcome(symtab, old, FALSE)}
           ELSE {Outcome(put, None, FALSE)}
      ELSE {Outcome(IF c < 0 THEN put ELSE symtab, None, c = 0)
              : c \in Compare(old, new)}

(* SymbolTable::addFile                                                    *)
AddFile(f) ==
  /\ files' = Append(files, f)
  /\ objQ' = IF f \in Objects THEN Append(objQ, f) ELSE objQ
  /\ arcQ' = IF f \in Archives THEN Append(arcQ, f) ELSE arcQ

(* SymbolTable::addMemberFile: a member is handed out once.                *)
AddMemberFile(lazy) ==
  IF lazy = None \/ lazy.to \in seen
  THEN UNCHANGED queues
  ELSE /\ seen' = seen \cup {lazy.to}
       /\ AddFile(lazy.to)

\* A body the driver makes for name n.
DriverBody(n, k) == [file |-> Driver, id |-> fresh, name |-> n, kind |-> k,
                     size |-> 0, to |-> None]

(* SymbolTable::addUndefined of name n: ret is what it returns, the body   *)
(* the symbol table has for n if that one is still undefined.              *)
AddUndefined(n) ==
  LET new == DriverBody(n, "undef")
  IN  {[tab |-> r.tab, load |-> r.load, new |-> new,
        ret |-> IF IsUndefined(r.tab[n]) THEN r.tab[n] ELSE new]
         : r \in AddSymbol(new)}

\* Carry out an outcome of AddUndefined.
Install(r) ==
  /\ symtab' = r.tab
  /\ added' = added \cup {r.new}
  /\ fresh' = fresh + 1
  /\ AddMemberFile(r.load)

QueueEmpty == objQ = <<>> /\ arcQ = <<>>

\* run(): on to the next step(), or out of it.
RunOrLeave == IF ~QueueEmpty THEN "objects"
              ELSE IF compiled > 0 THEN "late" ELSE "entryLoop"

\* BitcodeFiles
BitcodeFiles == ToSet(files) \cap world.bitcode
-----------------------------------------------------------------------------
Init ==
  /\ world \in Worlds
  /\ phase = "include" /\ running = FALSE
  /\ symtab = [n \in Names |-> None]
  /\ alias = <<>>
  /\ added = {}
  /\ files = <<>> /\ objQ = <<>> /\ arcQ = <<>> /\ seen = {}
  /\ cur = <<1, 1>> /\ dirs = <<>> /\ accum = <<>>
  /\ visited = {world.cmd[i] : i \in DOMAIN world.cmd}
  /\ exports = <<>> /\ alts = world.alts /\ entry = None
  /\ esym = None /\ list = world.include /\ pool = {} /\ undefs = {}
  /\ fresh = 0
  /\ roots = {} /\ lto = <<>> /\ compiled = 0

\* LinkerDriver::addUndefined: what it returns is a root.
InstallRoot(r) == Install(r) /\ roots' = roots \cup {r.ret}

(* Handle /include.                                                        *)
Include ==
  /\ phase = "include" /\ list # <<>>
  /\ \E r \in AddUndefined(Head(list)) : InstallRoot(r)
  /\ list' = Tail(list)
  /\ UNCHANGED <<world, phase, running, alias, reading, config, esym, pool, undefs, lto, compiled>>

IncludeDone ==
  /\ phase = "include" /\ list = <<>>
  /\ phase' = "inputs"
  /\ UNCHANGED <<world, running, table, alias, queues, reading, config, loops, bitcode>>

(* Read all input files given via the command line.                        *)
AddInput ==
  /\ phase = "inputs" /\ Len(files) < Len(world.cmd)
  /\ AddFile(world.cmd[Len(files) + 1])
  /\ UNCHANGED <<world, phase, running, table, alias, seen, reading, config, loops, bitcode>>

InputsDone ==
  /\ phase = "inputs" /\ Len(files) = Len(world.cmd)
  /\ phase' = "objects"
  /\ UNCHANGED <<world, running, table, alias, queues, reading, config, loops, bitcode>>

(* readObjects: the next symbol of the file at hand.  It may load a member *)
(* of an archive, which is put at the end of the queue being gone through. *)
ReadSymbol ==
  /\ phase = "objects" /\ cur[1] <= Len(objQ)
  /\ LET syms == world.syms[objQ[cur[1]]]
     IN  /\ cur[2] <= Len(syms)
         /\ \E r \in AddSymbol(syms[cur[2]]) :
              /\ symtab' = r.tab
              /\ AddMemberFile(r.load)
              /\ phase' = IF r.err THEN "duplicate" ELSE phase
         /\ added' = added \cup {syms[cur[2]]}
  /\ cur' = [cur EXCEPT ![2] = @ + 1]
  /\ UNCHANGED <<world, running, fresh, alias, dirs, accum, config, loops, bitcode>>

NextObject ==
  /\ phase = "objects" /\ cur[1] <= Len(objQ)
  /\ LET f == objQ[cur[1]]
     IN  /\ cur[2] > Len(world.syms[f])
         /\ dirs' = dirs \o world.dirs[f]
  /\ cur' = <<cur[1] + 1, 1>>
  /\ UNCHANGED <<world, phase, running, table, alias, queues, accum, config, loops, bitcode>>

ObjectsDone ==
  /\ phase = "objects" /\ cur[1] > Len(objQ)
  /\ objQ' = <<>>
  /\ cur' = <<1, 1>>
  /\ phase' = "directives"
  /\ UNCHANGED <<world, running, table, alias, files, arcQ, seen, dirs, accum,
                 config, loops, bitcode>>

(* LinkerDriver::parseDirectives, one option at a time.                    *)
NextDirective(opt) ==
  /\ phase = "directives" /\ dirs # <<>> /\ Head(dirs).opt = opt
  /\ dirs' = Tail(dirs)

DefaultLib ==
  /\ NextDirective("defaultlib")
  /\ LET f == Head(dirs).file
     IN  IF f \in visited
         THEN UNCHANGED <<files, objQ, arcQ, visited>>
         ELSE AddFile(f) /\ visited' = visited \cup {f}
  /\ UNCHANGED <<world, phase, running, table, alias, seen, cur, accum,
                 exports, alts, entry, loops, bitcode>>

AlternateName ==
  /\ NextDirective("alternatename")
  /\ LET d == Head(dirs)
     IN  IF \E p \in alts : p[1] = d.from /\ p[2] # d.to
         THEN phase' = "conflict" /\ UNCHANGED alts
         ELSE phase' = phase /\ alts' = alts \cup {<<d.from, d.to>>}
  /\ UNCHANGED <<world, running, table, alias, queues, cur, accum, visited,
                 exports, entry, loops, bitcode>>

ExportDirective ==
  /\ NextDirective("export")
  /\ exports' = Append(exports, Head(dirs).from)
  /\ UNCHANGED <<world, phase, running, table, alias, queues, cur, accum,
                 visited, alts, entry, loops, bitcode>>

IncludeDirective ==
  /\ NextDirective("include")
  /\ \E r \in AddUndefined(Head(dirs).from) : InstallRoot(r)
  /\ UNCHANGED <<world, phase, running, alias, cur, accum, config, loops, lto, compiled>>

DirectivesDone ==
  /\ phase = "directives" /\ dirs = <<>>
  /\ phase' = "archives"
  /\ UNCHANGED <<world, running, table, alias, queues, reading, config, loops, bitcode>>

(* addLazy, for each symbol of each archive in the queue.                  *)
AddLazy ==
  /\ phase = "archives" /\ cur[1] <= Len(arcQ)
  /\ LET index == world.index[arcQ[cur[1]]]
         new == index[cur[2]]
         old == symtab[new.name]
     IN  /\ cur[2] <= Len(index)
         /\ IF IsDefined(old) \/ (IsLazy(old) /\ Index(old.file) < Index(new.file))
            THEN UNCHANGED <<symtab, accum>>
            ELSE /\ symtab' = [symtab EXCEPT ![new.name] = new]
                 /\ accum' = IF IsUndefined(old) THEN Append(accum, new.name)
                             ELSE accum
         /\ added' = added \cup {new}
  /\ cur' = [cur EXCEPT ![2] = @ + 1]
  /\ UNCHANGED <<world, phase, running, fresh, alias, queues, dirs, config, loops, bitcode>>

NextArchive ==
  /\ phase = "archives" /\ cur[1] <= Len(arcQ)
  /\ cur[2] > Len(world.index[arcQ[cur[1]]])
  /\ cur' = <<cur[1] + 1, 1>>
  /\ UNCHANGED <<world, phase, running, table, alias, queues, dirs, accum,
                 config, loops, bitcode>>

ArchivesDone ==
  /\ phase = "archives" /\ cur[1] > Len(arcQ)
  /\ arcQ' = <<>>
  /\ cur' = <<1, 1>>
  /\ phase' = "members"
  /\ UNCHANGED <<world, running, table, alias, files, objQ, seen, dirs, accum,
                 config, loops, bitcode>>

(* The lazy symbols that met an undefined one load their members.          *)
LoadMember ==
  /\ phase = "members" /\ accum # <<>>
  /\ AddMemberFile(symtab[Head(accum)])
  /\ accum' = Tail(accum)
  /\ UNCHANGED <<world, phase, running, table, alias, cur, dirs, config, loops, bitcode>>

(* The end of step(); link() calls it once, then run().                    *)
StepDone ==
  /\ phase = "members" /\ accum = <<>>
  /\ phase' = IF running THEN RunOrLeave ELSE "entry"
  /\ UNCHANGED <<world, running, table, alias, queues, reading, config, loops, bitcode>>

(* Handle /entry and /export.                                              *)
SetEntry ==
  /\ phase = "entry"
  /\ IF world.entry = None
     THEN UNCHANGED <<table, queues, entry, roots>>
     ELSE \E r \in AddUndefined(world.entry) : InstallRoot(r) /\ entry' = r.ret
  /\ exports' = exports \o world.exports
  /\ phase' = "imageBase"
  /\ UNCHANGED <<world, running, alias, reading, visited, alts, loops, lto, compiled>>

(* addAbsolute of __ImageBase, which drops addSymbol's error; then run().  *)
SetImageBase ==
  /\ phase = "imageBase"
  /\ LET new == DriverBody(ImageBase, "absolute")
     IN  /\ \E r \in AddSymbol(new) : symtab' = r.tab
         /\ added' = added \cup {new}
  /\ fresh' = fresh + 1
  /\ running' = TRUE
  /\ phase' = RunOrLeave
  /\ UNCHANGED <<world, alias, queues, reading, config, loops, bitcode>>

\* Set u's WeakAlias to body a.
SetAlias(u, a) ==
  alias' = [b \in DOMAIN alias \cup {u} |-> IF b = u THEN a ELSE alias[b]]

(* mangleMaybe: alias u to a mangled name of its own that the symbol table *)
(* has, the first in the order of the DenseMap.                            *)
MangleMaybe(u) ==
  LET found == {m \in Mangled[u.name] : symtab[m] # None}
  IN  IF WeakAlias(u) # None \/ ~IsUndefined(Repl(u)) \/ found = {}
      THEN UNCHANGED <<table, alias, queues>>
      ELSE \E m \in found : \E r \in AddUndefined(m) :
             /\ Install(r)
             /\ SetAlias(u, r.ret)

(* One round of the driver's loop: the entry point ...                     *)
MangleEntry ==
  /\ phase = "entryLoop"
  /\ IF entry = None THEN UNCHANGED <<table, alias, queues>>
     ELSE MangleMaybe(entry)
  /\ phase' = "exports"
  /\ list' = exports
  /\ UNCHANGED <<world, running, reading, config, esym, pool, undefs, bitcode>>

(* ... each exported symbol ...                                            *)
ExportUndefined ==
  /\ phase = "exports" /\ list # <<>> /\ esym = None
  /\ \E r \in AddUndefined(Head(list)) : InstallRoot(r) /\ esym' = r.ret
  /\ UNCHANGED <<world, phase, running, alias, reading, config, list, pool, undefs, lto, compiled>>

MangleExport ==
  /\ phase = "exports" /\ list # <<>> /\ esym # None
  /\ MangleMaybe(esym)
  /\ esym' = None
  /\ list' = Tail(list)
  /\ UNCHANGED <<world, phase, running, reading, config, pool, undefs, bitcode>>

ExportsDone ==
  /\ phase = "exports" /\ list = <<>>
  /\ phase' = "alternates"
  /\ pool' = {p[1] : p \in alts}
  /\ UNCHANGED <<world, running, table, alias, queues, reading, config, esym,
                 list, undefs, bitcode>>

(* ... and each /alternatename:from=to of a symbol that is undefined and   *)
(* has no alias, in the order of the names, which may be any.              *)
TryAlternate(from) ==
  /\ phase = "alternates" /\ from \in pool
  /\ LET u == symtab[from]
         to == (CHOOSE p \in alts : p[1] = from)[2]
     IN  IF IsUndefined(u) /\ WeakAlias(u) = None
         THEN \E r \in AddUndefined(to) :
                /\ Install(r)
                /\ SetAlias(u, r.ret)
         ELSE UNCHANGED <<table, alias, queues>>
  /\ pool' = pool \ {from}
  /\ UNCHANGED <<world, phase, running, reading, config, esym, list, undefs, bitcode>>

UndefinedNames == {n \in Names : IsUndefined(symtab[n])}

\* (broken) Another round as long as anything is undefined.
RoundDoneAgain ==
  /\ phase = "alternates" /\ pool = {}
  /\ phase' = IF QueueEmpty /\ UndefinedNames = {} THEN "check" ELSE "objects"
  /\ UNCHANGED <<world, running, table, alias, queues, reading, config, loops, bitcode>>

(* Converged when no file is left to read: on to addCombinedLTOObject.      *)
RoundDone ==
  /\ phase = "alternates" /\ pool = {}
  /\ phase' = IF QueueEmpty THEN "check" ELSE "objects"
  /\ UNCHANGED <<world, running, table, alias, queues, reading, config, loops, bitcode>>

\* What the symbol table has for "x" if n is "__imp_x".
WithoutImp(n) == IF n \in DOMAIN ImpBase THEN symtab[ImpBase[n]] ELSE None

\* What reportRemainingUndefines(false) finds fault with.
Remaining == {n \in UndefinedNames : /\ GetWeakAlias(symtab[n]) = None
                                     /\ ~IsDefined(WithoutImp(n))}

(* addCombinedLTOObject: nothing to do without bitcode files.  Undefined   *)
(* symbols are diagnosed early, and weak externals left as they are.       *)
CheckUndefines ==
  /\ phase = "check"
  /\ IF BitcodeFiles = {}
     THEN phase' = "report" /\ pool' = UndefinedNames /\ UNCHANGED undefs
     ELSE /\ phase' = IF \E n \in UndefinedNames : AliasLoop(symtab[n]) THEN "hang"
                      ELSE IF Remaining # {} /\ ~world.force THEN "undefined"
                      ELSE "compile"
          /\ undefs' = IF phase' = "undefined" THEN Remaining ELSE undefs
          /\ UNCHANGED pool
  /\ UNCHANGED <<world, running, table, alias, queues, reading, config, esym, list, bitcode>>

\* The symbols of the object files and of the bitcode files read so far.
SymbolsOf(fs) == {b \in added : b.file \in fs}

\* (broken) Only what object files refer to is preserved.
MustPreserveReferred ==
  {b.name : b \in {Repl(s) : s \in SymbolsOf(Objects \ world.bitcode)} \cap
                 {c \in added : IsBitcode(c)}}

(* The names the code generator must preserve: what object files refer to, *)
(* what lost to a definition outside of bitcode, and what a root resolves  *)
(* to, itself or by its alias.                                             *)
MustPreserve ==
  LET Referred == {Repl(b) : b \in SymbolsOf(Objects \ world.bitcode)}
      Lost == {b \in SymbolsOf(BitcodeFiles) : IsBitcode(b) /\ ~IsBitcode(Repl(b))}
      Rooted == {IF IsBitcode(Repl(u)) THEN Repl(u) ELSE GetWeakAlias(u) : u \in roots}
  IN  {b.name : b \in {c \in Referred \cup Rooted : IsBitcode(c)} \cup Lost}

\* The external symbols of what LTOCodeGenerator makes of the merged modules:
\* the preserved definitions, what no module defines, and what it adds.
CompiledSymbols(preserved) ==
  LET syms == SymbolsOf(BitcodeFiles)
      Strong(n) == \E b \in syms : b.name = n /\ b.kind = "bitcode"
      defined == {b.name : b \in {c \in syms : IsBitcode(c)}}
      Symbol(n, i, k) == [file |-> Compiled, id |-> i, name |-> n, kind |-> k,
                          size |-> 0, to |-> None]
      defs == SetToSeq(preserved)
      refs == SetToSeq({b.name : b \in syms} \ defined)
  IN  [i \in DOMAIN defs |->
         Symbol(defs[i], i, IF Strong(defs[i]) THEN "regular" ELSE "comdat")]
      \o [i \in DOMAIN refs |-> Symbol(refs[i], Len(defs) + i, "undef")]
      \o [i \in DOMAIN world.emits |->
            Symbol(world.emits[i][1], Len(defs \o refs) + i, world.emits[i][2])]

(* createLTOObject                                                         *)
CreateLTOObject ==
  /\ phase = "compile"
  /\ IF \E u \in roots : ~IsBitcode(Repl(u)) /\ AliasLoop(u)
     THEN phase' = "hang" /\ UNCHANGED <<files, lto, compiled>>
     ELSE /\ lto' = CompiledSymbols(MustPreserve)
          /\ compiled' = Cardinality(BitcodeFiles)
          /\ files' = Append(files, Compiled)
          /\ phase' = "replace"
  /\ UNCHANGED <<world, running, table, alias, objQ, arcQ, seen, reading, config, loops, roots>>

(* The compiled object's symbols replace bitcode, load members and compete *)
(* with everything else.  A symbol new to the table is compared to itself. *)
ReplaceBitcode ==
  /\ phase = "replace" /\ lto # <<>>
  /\ LET new == Head(lto)
         old == IF symtab[new.name] = None THEN new ELSE symtab[new.name]
         put == [symtab EXCEPT ![new.name] = new]
     IN  /\ added' = added \cup {new}
         /\ IF IsLazy(old)
            THEN AddMemberFile(old) /\ UNCHANGED <<symtab, phase>>
            ELSE /\ \E c \in IF IsBitcode(old) THEN {-1} ELSE Compare(old, new) :
                      /\ symtab' = IF c < 0 THEN put ELSE symtab
                      /\ phase' = IF c = 0 THEN "duplicate" ELSE phase
                 /\ UNCHANGED queues
  /\ lto' = Tail(lto)
  /\ UNCHANGED <<world, running, fresh, alias, reading, config, loops, roots, compiled>>

(* Then the members this has loaded are read, which must not be bitcode.   *)
ReplaceDone ==
  /\ phase = "replace" /\ lto = <<>>
  /\ phase' = RunOrLeave
  /\ UNCHANGED <<world, running, table, alias, queues, reading, config, loops, bitcode>>

LateDone ==
  /\ phase = "late"
  /\ IF Cardinality(BitcodeFiles) # compiled
     THEN phase' = "lateBitcode" /\ UNCHANGED pool
     ELSE phase' = "report" /\ pool' = UndefinedNames
  /\ UNCHANGED <<world, running, table, alias, queues, reading, config, esym, list, undefs,
                 bitcode>>

(* reportRemainingUndefines(true), name by name in the order of the        *)
(* DenseMap: its weak alias, or what is left without "__imp_", or nothing. *)
Report(n) ==
  /\ phase = "report" /\ n \in pool
  /\ LET u == symtab[n]
         imp == WithoutImp(n)
         d == GetWeakAlias(u)
     IN  \/ /\ AliasLoop(u)
            /\ phase' = "hang"
            /\ UNCHANGED <<table, undefs>>
         \/ /\ d # None
            /\ symtab' = [symtab EXCEPT ![n] = d]
            /\ UNCHANGED <<phase, added, fresh, undefs>>
         \/ /\ d = None /\ ~AliasLoop(u) /\ IsDefined(imp)
            /\ symtab' = [symtab EXCEPT ![n] = DriverBody(n, "localimport")]
            /\ fresh' = fresh + 1
            /\ UNCHANGED <<phase, added, undefs>>
         \/ /\ d = None /\ ~AliasLoop(u) /\ ~IsDefined(imp)
            /\ symtab' = IF world.force
                         THEN [symtab EXCEPT ![n] = DriverBody(n, "absolute")]
                         ELSE symtab
            /\ fresh' = fresh + 1
            /\ undefs' = undefs \cup {n}
            /\ UNCHANGED <<phase, added>>
  /\ pool' = pool \ {n}
  /\ UNCHANGED <<world, running, alias, queues, reading, config, esym, list, bitcode>>

ReportDone ==
  /\ phase = "report" /\ pool = {}
  /\ phase' = IF undefs = {} \/ world.force THEN "linked" ELSE "undefined"
  /\ UNCHANGED <<world, running, table, alias, queues, reading, config, loops, bitcode>>

\* What link() returns with, or never does.
Ends == {"linked", "undefined", "duplicate", "conflict", "lateBitcode", "hang"}

Terminated == phase \in Ends /\ UNCHANGED vars

Next ==
  \/ Include \/ IncludeDone \/ AddInput \/ InputsDone
  \/ ReadSymbol \/ NextObject \/ ObjectsDone
  \/ DefaultLib \/ AlternateName \/ ExportDirective \/ IncludeDirective
  \/ DirectivesDone
  \/ AddLazy \/ NextArchive \/ ArchivesDone \/ LoadMember \/ StepDone
  \/ SetEntry \/ SetImageBase
  \/ MangleEntry \/ ExportUndefined \/ MangleExport \/ ExportsDone
  \/ \E n \in Names : TryAlternate(n) \/ Report(n)
  \/ RoundDone
  \/ CheckUndefines \/ CreateLTOObject \/ ReplaceBitcode \/ ReplaceDone \/ LateDone
  \/ ReportDone
  \/ Terminated

(* link() is one thread that never waits.                                  *)
Spec == Init /\ [][Next]_vars
FairSpec == Spec /\ WF_vars(Next)
-----------------------------------------------------------------------------
\* The bodies of name n that have reached the symbol table.
Candidates(n) == {b \in added : b.name = n}

\* What is not settled by comparing b with the winner: bitcode once it has been
\* compiled, for what it was compiled to competes; bitcode that a common symbol
\* beat before a regular one beat that, which meet when it has been compiled; a
\* constant of the code generator whose name loads a member instead; and
\* __ImageBase, whose conflict addAbsolute drops.
SetAside(b) ==
  \/ IsBitcode(b) /\ compiled > 0
  \/ /\ b.kind = "bitcode" /\ symtab[b.name] # None /\ symtab[b.name].kind = "regular"
     /\ \E c \in Candidates(b.name) : c.kind = "common"
  \/ b.file = Compiled /\ \E c \in Candidates(b.name) : IsLazy(c)
  \/ b.file = Driver

(* COFF/README.md: "The resolver keeps the Symbol's pointer to always      *)
(* point to the best SymbolBody": whatever order files, members and        *)
(* libraries arrive in, the chosen body strictly beats every other         *)
(* definition of its name that was added, so a conflict is never missed.   *)
WinnerIsBest ==
  phase # "duplicate" =>
    \A n \in Names : \A b \in Candidates(n) :
      IsDefined(b) => \/ symtab[n] = b
                      \/ IsDefined(symtab[n]) /\ 1 \in Compare(symtab[n], b)
                      \/ SetAside(b)

\* A reference that asks for a definition, and one that has a default.
StrongRef(n) == \E b \in Candidates(n) : IsUndefined(b) /\ Default(b) = None
WeakRef(n) == \E b \in Candidates(n) : IsUndefined(b) /\ Default(b) # None
Offered(n) == \E b \in Candidates(n) : IsLazy(b)

\* The driver's loop is over and nothing has been reported yet.
Converged ==
  phase = "report" /\ undefs = {} /\ pool = {n \in Names : IsUndefined(symtab[n])}

(* SymbolTable.cpp:203: "If we have an undefined symbol and a lazy symbol, *)
(* let the lazy symbol to read a member file."  When the files have all    *)
(* been read, a name that some file needs, none refers to weakly and some  *)
(* archive offers is defined, whichever of the two came first.             *)
StrongNeedsLoaded ==
  Converged =>
    \A n \in Names : StrongRef(n) /\ Offered(n) /\ ~WeakRef(n) => IsDefined(symtab[n])

(* A link succeeds only when every name referred to has a definition: none *)
(* is left Undefined or Lazy for the writer, and, without /alternatename,  *)
(* none that an object file read before the compilation or a root refers   *)
(* to is left as bitcode, which has no address (SymbolTable.cpp:385: "All  *)
(* symbols referenced by non-bitcode objects must be preserved").          *)
LinkedMeansResolved ==
  phase = "linked" =>
    \A b \in added :
      \/ IsLazy(b)
      \/ /\ IsDefined(symtab[b.name])
         /\ /\ compiled > 0 /\ alts = {}
            /\ \/ b \in roots
               \/ b.file \in Objects \ world.bitcode /\ Index(b.file) < Index(Compiled)
            => ~IsBitcode(symtab[b.name])

\* What object files, roots and local imports refer to.
Addressed ==
  {symtab[b.name] : b \in roots \cup SymbolsOf(Objects \ world.bitcode)}
    \cup {symtab[ImpBase[n]] :
            n \in {m \in DOMAIN ImpBase : symtab[m] # None /\ symtab[m].kind = "localimport"}}

(* Symbols.cpp:180: "There is no address for a bitcode symbol."  So no     *)
(* link succeeds with a reference from outside of bitcode to one.          *)
BitcodeUnaddressed == phase = "linked" => \A d \in Addressed : ~IsBitcode(d)

(* A weak external's default is tried: no name is reported undefined whose *)
(* default some file or member defines, wherever that definition came from *)
(* and whatever replaced the body the alias was set to.                    *)
OwnFallbackTried ==
  phase = "undefined" =>
    \A n \in undefs :
      LET a == WeakAlias(symtab[n])
      IN  a # None => ~(IsDefined(Repl(a)) /\ Repl(a).name = a.name
                        /\ Repl(a).kind # "localimport")

(* Reading files, directives and options comes to an end.                  *)
LinkEnds == <>(phase \in Ends \ {"hang"})
=============================================================================
