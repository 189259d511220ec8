----------------------------- MODULE COFFTables -----------------------------
(***************************************************************************)
(* The chunks the COFF linker makes itself: the import tables, delay-load  *)
(* tables and export table of COFF/DLL.cpp, the export list that           *)
(* fixupExports (COFF/DriverUtils.cpp) prepares for them, and the blocks   *)
(* of .reloc.  Everything here is a function of the lists the symbol table *)
(* leaves; COFFWriter puts the chunks into sections.                       *)
(*                                                                         *)
(* A chunk is what it is, what it is of (an import, a DLL, ...), and what  *)
(* the layout needs to know: size, alignment, whether it has data.  Names  *)
(* are numbers, ordered as the strings are; all have NameLength bytes.     *)
(***************************************************************************)
EXTENDS Integers, Sequences, SequencesExt, FiniteSetsExt

CONSTANT NameLength

ASSUME NameLengthAssumption == NameLength \in Nat

Chunk(is, of, size) ==
  [is |-> is, of |-> of, size |-> size, align |-> 1, data |-> TRUE]
NullChunk(is, of, size) == [Chunk(is, of, size) EXCEPT !.data = FALSE]

RoundUp(n, a) == ((n + a - 1) \div a) * a
PtrSize(is64) == IF is64 THEN 8 ELSE 4
Last16(n) == n % 65536      \* the value of a uint16_t
StringSize == NameLength + 1

\* The sequence of Op(e) for the elements e of s.
Each(s, Op(_)) == [i \in DOMAIN s |-> Op(s[i])]

\* The members of S in the order R, a set of pairs; and those of s at the
\* indices I.
SortedBy(S, R) ==
  [k \in 1 .. Cardinality(S) |->
     CHOOSE x \in S : Cardinality({y \in S : <<y, x>> \in R}) = k - 1]
Ascending(S) == SortedBy(S, {p \in S \X S : p[1] < p[2]})
Picked(s, I) == LET at == Ascending(I) IN [k \in DOMAIN at |-> s[at[k]]]
-----------------------------------------------------------------------------
(* Imports: a sequence of records [dll, name, ext], where ext says whether *)
(* the symbol is imported by name.  S is the set of the indices that are   *)
(* put into the table; the DLLs and the symbols of each are sorted.        *)
DLLs(imports, S) == Ascending({imports[i].dll : i \in S})
BinImports(imports, S, d) ==
  LET own == {i \in S : imports[i].dll = d}
  IN  SortedBy(own, {p \in own \X own : imports[p[1]].name < imports[p[2]].name})

\* One run of entries per DLL, with a null entry at its end.
Table(imports, S, Entry(_), Null(_)) ==
  FlattenSeq(Each(DLLs(imports, S),
    LAMBDA d : Append(Each(BinImports(imports, S, d), Entry), Null(d))))

\* Names of symbols that are imported by name, in the order of the table.
AllImports(imports, S) ==
  FlattenSeq(Each(DLLs(imports, S), LAMBDA d : BinImports(imports, S, d)))
ByName(imports, S) ==
  LET all == AllImports(imports, S)
  IN  Picked(all, {k \in DOMAIN all : imports[all[k]].ext})

HintName(is, i) == Chunk(is, i, RoundUp(NameLength + 3, 2))

(* .idata: "the loader assumes a specific order of data".                  *)
Lookups(imports, S, is64) ==
  Table(imports, S, LAMBDA i : Chunk("lookup", i, PtrSize(is64)),
                    LAMBDA d : NullChunk("lookup end", d, PtrSize(is64)))
\* Broken: one null entry, at the end of all.
AddressesOneRun(imports, S, is64) ==
  LET size == PtrSize(is64)
  IN  Append(FlattenSeq(Each(DLLs(imports, S), LAMBDA d :
               Each(BinImports(imports, S, d), LAMBDA i : Chunk("address", i, size)))),
             NullChunk("address end", Max({imports[i].dll : i \in S}), size))

Addresses(imports, S, is64) ==
  Table(imports, S, LAMBDA i : Chunk("address", i, PtrSize(is64)),
                    LAMBDA d : NullChunk("address end", d, PtrSize(is64)))
Dirs(imports, S) ==
  Append(Each(DLLs(imports, S), LAMBDA d : Chunk("dir", d, 20)),
         NullChunk("dir end", 0, 20))
IdataChunks(imports, S, is64) ==
  Dirs(imports, S)
    \o Lookups(imports, S, is64)
    \o Addresses(imports, S, is64)
    \o Each(ByName(imports, S), LAMBDA i : HintName("hint", i))
    \o Each(DLLs(imports, S), LAMBDA d : Chunk("dll", d, StringSize))

(* Delay-loading: .didat, what goes to .data, and the thunks of .text.     *)
DelayNames(imports, S, is64) ==
  Table(imports, S, LAMBDA i : Chunk("delay name", i, PtrSize(is64)),
                    LAMBDA d : NullChunk("delay name end", d, 8))
DelayChunks(imports, S, is64) ==
  Append(Each(DLLs(imports, S), LAMBDA d : Chunk("delay dir", d, 32)),
         NullChunk("delay dir end", 0, 32))
    \o DelayNames(imports, S, is64)
    \o Each(ByName(imports, S), LAMBDA i : HintName("delay hint", i))
    \o Each(DLLs(imports, S), LAMBDA d : Chunk("delay dll", d, StringSize))
DelayDataChunks(imports, S) ==
  Each(DLLs(imports, S),
       LAMBDA d : [NullChunk("delay module", d, 8) EXCEPT !.align = 8])
    \o Table(imports, S, LAMBDA i : Chunk("delay address", i, 8),
                         LAMBDA d : NullChunk("delay address end", d, 8))
DelayCodeChunks(imports, S) ==
  Each(AllImports(imports, S), LAMBDA i : Chunk("delay thunk", i, 87))

ImportThunk(i) == [Chunk("thunk", i, 6) EXCEPT !.align = 16]
LocalImport(i, is64) == Chunk("local", i, PtrSize(is64))
-----------------------------------------------------------------------------
(* Exports: a sequence of records [name, ext, ordinal, noname, sym].       *)
OrdinalsClash(exports) ==
  \E i, j \in DOMAIN exports :
    i # j /\ exports[i].ordinal # 0 /\ exports[i].ordinal = exports[j].ordinal

MaxOrdinal(exports) == Max({0} \cup {exports[i].ordinal : i \in DOMAIN exports})

\* The first export of each name, sorted by the name they have outside.
UniqueExports(exports) ==
  LET first == {i \in DOMAIN exports :
                  \A j \in 1 .. i - 1 : exports[j].name # exports[i].name}
      before == {p \in first \X first :
                   \/ exports[p[1]].ext < exports[p[2]].ext
                   \/ exports[p[1]].ext = exports[p[2]].ext /\ p[1] < p[2]}
  IN  Each(SortedBy(first, before), LAMBDA i : exports[i])

\* Broken: ordinals from 1 on, whatever ordinals are taken.
FixupFromOne(exports) ==
  LET v == UniqueExports(exports)
  IN  [i \in DOMAIN v |->
         IF v[i].ordinal # 0 THEN v[i]
         ELSE [v[i] EXCEPT !.ordinal =
                 Cardinality({j \in 1 .. i : v[j].ordinal = 0})]]

\* The others get the ordinals after the largest one: ++Max.
FixupExports(exports) ==
  LET v == UniqueExports(exports)
  IN  [i \in DOMAIN v |->
         IF v[i].ordinal # 0 THEN v[i]
         ELSE [v[i] EXCEPT !.ordinal =
                 Last16(MaxOrdinal(v)
                          + Cardinality({j \in 1 .. i : v[j].ordinal = 0}))]]

\* The exports that are in the table of names.
Named(exports) == Ascending({i \in DOMAIN exports : ~exports[i].noname})

EdataChunks(exports) ==
  <<Chunk("export dir", 0, 40),
    Chunk("export dll", 0, StringSize),
    Chunk("export addresses", 0, 4 * (MaxOrdinal(exports) + 1)),
    Chunk("export names", 0, 4 * Len(Named(exports))),
    Chunk("export ordinals", 0, 2 * Len(Named(exports)))>>
    \o Each(Named(exports), LAMBDA i : Chunk("export name", i, StringSize))

\* What is written into the tables: by ordinal, and by position of the name.
AddressTable(exports) ==
  [n \in 0 .. MaxOrdinal(exports) |->
     {exports[i].sym : i \in {j \in DOMAIN exports : exports[j].ordinal = n}}]
OrdinalTable(exports) == Each(Named(exports), LAMBDA i : exports[i].ordinal)
-----------------------------------------------------------------------------
(* .reloc: blocks of locations of one page; V is the list of locations of  *)
(* one section, in the order of its chunks and their relocations.          *)
Page(v, size) == (v \div size) * size

BaserelBlocks(V, size) ==
  LET starts == {i \in DOMAIN V : i = 1 \/ Page(V[i], size) # Page(V[i - 1], size)}
      end(i) == Min({j \in starts : j > i} \cup {Len(V) + 1}) - 1
  IN  Each(Ascending(starts),
           LAMBDA i : [page |-> Page(V[i], size), entries |-> SubSeq(V, i, end(i))])

BaserelChunk(i, block) ==
  Chunk("baserel", i, RoundUp(2 * Len(block.entries) + 8, 4))
=============================================================================
