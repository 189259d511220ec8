----------------------------- MODULE COFFWriter -----------------------------
(***************************************************************************)
(* COFF/Writer.cpp: how chunks get into output sections and sections into  *)
(* the image and the file.  A link starts after dedupCOMDATs: what markLive*)
(* and doICF leave is COFFLiveChunks' Written.                             *)
(*                                                                         *)
(* Names of sections are strings; chunks of input sections have sizes,     *)
(* alignments and relocations but no contents.                             *)
(***************************************************************************)
EXTENDS COFFTables

CONSTANTS
  None,
  PageSize,        \* 4096
  FileAlignment,   \* 512
  InputNames,      \* names of input sections, in the order of strings
  Split,           \* [InputNames -> what stands before a '$']
  LongNames,       \* names of more than 8 bytes
  Worlds           \* the links: records of
    \*   is64, debug, relocatable, merge ([names -> names]),
    \*   chunks    Seq of [sec, size, align, data, code, relocs]: the live
    \*             ones; relocs is a Seq of [at, abs, base]: an absolute
    \*             address or not, of __ImageBase or not
    \*   locals    the number of LocalImportChunks
    \*   imports   Seq of [dll, name, ext, thunk];  delayed: a set of DLLs
    \*   exports   Seq of [name, ext, ordinal, noname, sym]
    \*   symbols   Seq of [chunk, value, long]: live DefinedRegulars

ASSUME SizesAssumption ==
  /\ PageSize \in Nat \ {0}
  /\ FileAlignment \in Nat \ {0}
  /\ PageSize % FileAlignment = 0

\* A symbol is in the table once, so that the imports of a DLL have their names.
ASSUME WorldAssumption ==
  /\ InputNames \in Seq(STRING)
  /\ \A n \in ToSet(InputNames) : Split[n] \in STRING
  /\ \A w \in Worlds :
       /\ w.chunks \in Seq([sec : ToSet(InputNames), size : Nat, align : Nat \ {0},
                            data : BOOLEAN, code : BOOLEAN,
                            relocs : Seq([at : Nat, abs : BOOLEAN, base : BOOLEAN])])
       /\ \A n \in DOMAIN w.merge : w.merge[n] \in STRING
       /\ w.locals \in Nat
       /\ w.imports \in Seq([dll : Nat, name : Nat, ext : BOOLEAN, thunk : BOOLEAN])
       /\ \A i, j \in DOMAIN w.imports :
            w.imports[i].dll = w.imports[j].dll /\ w.imports[i].name = w.imports[j].name
              => i = j
       /\ w.exports \in Seq([name : Nat, ext : Nat, ordinal : Nat,
                             noname : BOOLEAN, sym : Nat])
       /\ w.symbols \in Seq([chunk : Nat, value : Nat, long : BOOLEAN])

VARIABLES
  world,
  phase,
  exports,    \* Config->Exports
  todo,       \* chunks that the current phase has yet to add
  order,      \* OutputSections: names
  out,        \* [names -> OutputSection]
  next,       \* index of the section assignAddresses is at
  rva, fileOff,  \* its counters
  headers,    \* SizeOfHeaders
  imageSize, fileSize,
  index,      \* SectionIndex of each section
  blocks,     \* blocks of .reloc
  symtab,     \* OutputSymtab
  symtabAt,   \* PointerToSymbolTable
  filled      \* sections whose raw data was set to 0xCC

vars == <<world, phase, exports, todo, order, out, next, rva, fileOff, headers,
          imageSize, fileSize, index, blocks, symtab, symtabAt, filled>>

Init ==
  /\ world \in Worlds
  /\ phase = "fixup"
  /\ exports = world.exports
  /\ todo = <<>>
  /\ order = <<>>
  /\ out = <<>>
  /\ next = 1 /\ rva = 0 /\ fileOff = 0
  /\ headers = 0 /\ imageSize = 0 /\ fileSize = 0
  /\ index = <<>>
  /\ blocks = <<>>
  /\ symtab = <<>> /\ symtabAt = 0
  /\ filled = {}

At(p) == phase = p /\ todo = <<>>
-----------------------------------------------------------------------------
(* OutputSection.                                                          *)
EmptySection == [chunks |-> <<>>, vsize |-> 0, raw |-> 0, rva |-> 0, off |-> 0,
                 code |-> FALSE]

\* Broken: a chunk with data only adds its own size to the raw data.
AddChunkRawSum(s, c) ==
  LET start == RoundUp(s.vsize, c.align)
  IN  [s EXCEPT !.chunks = Append(@, [chunk |-> c, rva |-> start, off |-> start]),
                !.vsize = start + c.size,
                !.raw = IF c.data THEN RoundUp(@ + c.size, FileAlignment) ELSE @]

\* OutputSection::addChunk
AddChunk(s, c) ==
  LET start == RoundUp(s.vsize, c.align)
  IN  [s EXCEPT !.chunks = Append(@, [chunk |-> c, rva |-> start, off |-> start]),
                !.vsize = start + c.size,
                !.raw = IF c.data THEN RoundUp(start + c.size, FileAlignment) ELSE @]

\* setRVA, and setFileOffset, which leaves a section without data alone.
SetRVA(s, a) ==
  [s EXCEPT !.rva = a, !.chunks = Each(@, LAMBDA p : [p EXCEPT !.rva = @ + a])]
SetFileOffset(s, a) ==
  IF s.raw = 0 THEN s
  ELSE [s EXCEPT !.off = a,
                 !.chunks = Each(@, LAMBDA p : [p EXCEPT !.off = @ + a])]

\* A chunk that is to be added to the section of a name.
Add(sec, c) == [sec |-> sec, chunk |-> c]
ForSection(sec, cs) == Each(cs, LAMBDA c : Add(sec, c))

(* The section is there or is created; chunks of input sections add their  *)
(* permissions, .text has them when createSection makes it.                *)
PlaceChunk ==
  /\ todo # <<>>
  /\ LET a == Head(todo)
         isNew == a.sec \notin DOMAIN out
         s == IF isNew THEN [EmptySection EXCEPT
                               !.code = phase # "sections" /\ a.sec = ".text"]
              ELSE out[a.sec]
         t == IF a.chunk = None THEN s
              ELSE IF a.chunk.is = "section"
              THEN [AddChunk(s, a.chunk) EXCEPT
                      !.code = @ \/ world.chunks[a.chunk.of].code]
              ELSE AddChunk(s, a.chunk)
     IN  /\ order' = IF isNew THEN Append(order, a.sec) ELSE order
         /\ out' = [n \in DOMAIN out \cup {a.sec} |-> IF n = a.sec THEN t ELSE out[n]]
  /\ todo' = Tail(todo)
  /\ UNCHANGED <<world, phase, exports, next, rva, fileOff, headers, imageSize,
                 fileSize, index, blocks, symtab, symtabAt, filled>>

\* A phase that lists the chunks which are then added one by one.
Fill(p, list) ==
  /\ phase' = p
  /\ todo' = list
  /\ UNCHANGED <<world, exports, order, out, next, rva, fileOff, headers,
                 imageSize, fileSize, index, blocks, symtab, symtabAt, filled>>
-----------------------------------------------------------------------------
(* fixupExports, called by the driver before the writer.                   *)
Fixup ==
  /\ At("fixup")
  /\ IF OrdinalsClash(exports)
     THEN phase' = "failed" /\ UNCHANGED exports
     ELSE phase' = "start" /\ exports' = FixupExports(exports)
  /\ UNCHANGED <<world, todo, order, out, next, rva, fileOff, headers, imageSize,
                 fileSize, index, blocks, symtab, symtabAt, filled>>

\* getOutputSection: /merge is not looked at with /debug.
OutputName(n) ==
  IF ~world.debug /\ Split[n] \in DOMAIN world.merge THEN world.merge[Split[n]]
  ELSE Split[n]

SectionChunk(i) ==
  LET c == world.chunks[i]
  IN  [is |-> "section", of |-> i, size |-> c.size, align |-> c.align, data |-> c.data]

\* createSections: the std::map goes through the names in their order.
CreateSections ==
  /\ At("start")
  /\ Fill("sections",
          FlattenSeq(Each(InputNames, LAMBDA n :
            ForSection(OutputName(n),
              Each(Ascending({i \in DOMAIN world.chunks : world.chunks[i].sec = n}),
                   SectionChunk)))))

CreateMiscChunks ==
  /\ At("sections")
  /\ Fill("misc", [i \in 1 .. world.locals |->
                     Add(".rdata", LocalImport(i, world.is64))])

\* Imports that are bound at load time, and those that are delay-loaded.
Imports == {i \in DOMAIN world.imports : world.imports[i].dll \notin world.delayed}
DelayImports == DOMAIN world.imports \ Imports

CreateImportTables ==
  LET imports == world.imports
      text == IF imports = <<>> THEN <<>> ELSE <<Add(".text", None)>>
      thunks == Ascending({i \in DOMAIN imports : imports[i].thunk})
      idata == IF Imports = {} THEN <<>>
               ELSE ForSection(".idata", IdataChunks(imports, Imports, world.is64))
      delay == IF DelayImports = {} THEN <<>>
               ELSE ForSection(".didat", DelayChunks(imports, DelayImports, world.is64))
                      \o ForSection(".data", DelayDataChunks(imports, DelayImports))
                      \o ForSection(".text", DelayCodeChunks(imports, DelayImports))
  IN  /\ At("misc")
      /\ Fill("imports", text \o ForSection(".text", Each(thunks, ImportThunk))
                              \o idata \o delay)

CreateExportTable ==
  /\ At("imports")
  /\ Fill("exports", IF exports = <<>> THEN <<>>
                     ELSE ForSection(".edata", EdataChunks(exports)))

CreateReloc ==
  /\ At("exports")
  /\ Fill("reloc", IF world.relocatable THEN <<Add(".reloc", None)>> ELSE <<>>)
-----------------------------------------------------------------------------
(* assignAddresses.                                                        *)
HeaderSize(n) ==
  RoundUp(64 + 4 + 20 + 8 * 16 + 40 * n + (IF world.is64 THEN 112 ELSE 96), PageSize)

StartAddresses ==
  /\ At("reloc")
  /\ headers' = HeaderSize(Len(order))
  /\ rva' = PageSize
  /\ fileOff' = headers'
  /\ next' = 1
  /\ phase' = "addresses"
  /\ UNCHANGED <<world, exports, todo, order, out, imageSize, fileSize, index,
                 blocks, symtab, symtabAt, filled>>

\* Broken: only input sections have addresses to relocate.
BaserelsOfSections(p) ==
  IF p.chunk.is # "section" THEN <<>>
  ELSE LET r == world.chunks[p.chunk.of].relocs
       IN  Each(Picked(r, {i \in DOMAIN r : r[i].abs /\ ~r[i].base}),
                LAMBDA x : p.rva + x.at)

\* Chunk::getBaserels: where a chunk says that it has absolute addresses.
Baserels(p) ==
  CASE p.chunk.is = "section" ->
         LET r == world.chunks[p.chunk.of].relocs
         IN  Each(Picked(r, {i \in DOMAIN r : r[i].abs /\ ~r[i].base}),
                  LAMBDA x : p.rva + x.at)
    [] p.chunk.is \in {"local", "delay address"} -> <<p.rva>>
    [] OTHER -> <<>>

\* addBaserels: blocks section by section, each with its chunks' addresses as
\* they are by now.
NewBlocks ==
  FlattenSeq(Each(Picked(order, {i \in DOMAIN order : order[i] # ".reloc"}),
    LAMBDA n : BaserelBlocks(FlattenSeq(Each(out[n].chunks, Baserels)), PageSize)))

\* The chunks of the blocks are added to .reloc before it gets its address.
AddBaserels ==
  /\ At("addresses")
  /\ next <= Len(order) /\ order[next] = ".reloc"
  /\ phase' = "baserels"
  /\ blocks' = NewBlocks
  /\ todo' = ForSection(".reloc",
               [i \in DOMAIN blocks' |-> BaserelChunk(i, blocks'[i])])
  /\ UNCHANGED <<world, exports, order, out, next, rva, fileOff, headers, imageSize,
                 fileSize, index, symtab, symtabAt, filled>>

\* Broken: addresses advance by what the sections have in the file.
AssignAddressRaw ==
  /\ At(IF next <= Len(order) /\ order[next] = ".reloc" THEN "baserels" ELSE "addresses")
  /\ next <= Len(order)
  /\ LET n == order[next]
         s == SetFileOffset(SetRVA(out[n], rva), fileOff)
     IN  /\ out' = [out EXCEPT ![n] = s]
         /\ rva' = rva + RoundUp(s.raw, PageSize)
         /\ fileOff' = fileOff + RoundUp(s.raw, FileAlignment)
  /\ next' = next + 1
  /\ phase' = "addresses"
  /\ UNCHANGED <<world, exports, todo, order, headers, imageSize, fileSize, index,
                 blocks, symtab, symtabAt, filled>>

AssignAddress ==
  /\ At(IF next <= Len(order) /\ order[next] = ".reloc" THEN "baserels" ELSE "addresses")
  /\ next <= Len(order)
  /\ LET n == order[next]
         s == SetFileOffset(SetRVA(out[n], rva), fileOff)
     IN  /\ out' = [out EXCEPT ![n] = s]
         /\ rva' = rva + RoundUp(s.vsize, PageSize)
         /\ fileOff' = fileOff + RoundUp(s.raw, FileAlignment)
  /\ next' = next + 1
  /\ phase' = "addresses"
  /\ UNCHANGED <<world, exports, todo, order, headers, imageSize, fileSize, index,
                 blocks, symtab, symtabAt, filled>>

AddressesDone ==
  /\ At("addresses")
  /\ next > Len(order)
  /\ imageSize' = headers + RoundUp(rva - PageSize, PageSize)
  /\ fileSize' = headers + RoundUp(fileOff - headers, FileAlignment)
  /\ phase' = "empty"
  /\ UNCHANGED <<world, exports, todo, order, out, next, rva, fileOff, headers,
                 index, blocks, symtab, symtabAt, filled>>

Position(s, n) == CHOOSE i \in DOMAIN s : s[i] = n

RemoveEmptySections ==
  /\ At("empty")
  /\ order' = Picked(order, {i \in DOMAIN order : out[order[i]].vsize # 0})
  /\ index' = [n \in ToSet(order') |-> Position(order', n)]
  /\ phase' = "symbols"
  /\ UNCHANGED <<world, exports, todo, out, next, rva, fileOff, headers, imageSize,
                 fileSize, blocks, symtab, symtabAt, filled>>
-----------------------------------------------------------------------------
\* Where a chunk is, once all are placed.
Placed == UNION {ToSet(out[n].chunks) : n \in DOMAIN out}
IsPlaced(is, of) == \E p \in Placed : p.chunk.is = is /\ p.chunk.of = of
Place(is, of) == CHOOSE p \in Placed : p.chunk.is = is /\ p.chunk.of = of
RVA(is, of) == Place(is, of).rva

SymbolRVA(s) == RVA("section", s.chunk) + s.value

\* The last section that does not start after the address.
SectionAt(a) ==
  order[Max({i \in DOMAIN order : \A j \in 1 .. i : out[order[j]].rva <= a})]

StringTableSize ==
  (NameLength + 9) *
    (Cardinality({n \in ToSet(order) : n \in LongNames})
       + Cardinality({i \in DOMAIN world.symbols : world.symbols[i].long}))

(* createSymbolAndStringTable: the table is put behind the last section.   *)
CreateSymbolTable ==
  /\ At("symbols")
  /\ phase' = "write"
  /\ IF ~world.debug \/ order = <<>>
     THEN UNCHANGED <<symtab, symtabAt, fileSize>>
     ELSE LET last == out[order[Len(order)]]
              end == last.off + RoundUp(last.raw, FileAlignment)
              strings == IF StringTableSize = 0 THEN 0 ELSE StringTableSize + 4
          IN  /\ symtab' = Each(world.symbols, LAMBDA s :
                             [section |-> index[SectionAt(SymbolRVA(s))],
                              value |-> SymbolRVA(s) - out[SectionAt(SymbolRVA(s))].rva])
              /\ symtabAt' = IF symtab' = <<>> THEN 0 ELSE end
              /\ fileSize' = headers + RoundUp(end + 18 * Len(symtab') + strings
                                                 - headers, FileAlignment)
  /\ UNCHANGED <<world, exports, todo, order, out, next, rva, fileOff, headers,
                 imageSize, index, blocks, filled>>

(* writeSections: 0xCC first, then what has data.                          *)
WriteSections ==
  /\ At("write")
  /\ filled' = {n \in ToSet(order) : out[n].code}
  /\ phase' = "done"
  /\ UNCHANGED <<world, exports, todo, order, out, next, rva, fileOff, headers,
                 imageSize, fileSize, index, blocks, symtab, symtabAt>>

Ended == phase \in {"done", "failed"} /\ UNCHANGED vars

Next ==
  \/ Fixup \/ PlaceChunk
  \/ CreateSections \/ CreateMiscChunks \/ CreateImportTables
  \/ CreateExportTable \/ CreateReloc
  \/ StartAddresses \/ AddBaserels \/ AssignAddress \/ AddressesDone
  \/ RemoveEmptySections \/ CreateSymbolTable \/ WriteSections
  \/ Ended

Spec == Init /\ [][Next]_vars
-----------------------------------------------------------------------------
(* In each section, at any time: chunks follow each other without overlap, *)
(* each aligned with respect to the section; all lie in its virtual size,  *)
(* those with data in its raw data; and file offsets go along with         *)
(* addresses wherever there are data.                                      *)
ChunksFit ==
  \A n \in DOMAIN out :
    LET s == out[n]
        start(i) == s.chunks[i].rva - s.rva
    IN  /\ \A i \in DOMAIN s.chunks :
             LET p == s.chunks[i]
             IN  /\ start(i) % p.chunk.align = 0
                 /\ start(i) + p.chunk.size
                      <= IF i = Len(s.chunks) THEN s.vsize ELSE start(i + 1)
                 /\ p.chunk.data =>
                      /\ start(i) + p.chunk.size <= s.raw
                      /\ p.off - s.off = start(i)

Written == phase \in {"write", "done"}

(* The sections that are written are apart from each other in memory and   *)
(* in the file, and in the file from the headers; they start at pages; all *)
(* is within the sizes the headers and the file are given.  With /debug,   *)
(* the file's size is made from the end of the last section, which only a  *)
(* section with data has.                                                  *)
EndsInData == world.debug /\ order # <<>> => out[order[Len(order)]].raw > 0

SectionsApart ==
  Written =>
    /\ \A i \in DOMAIN order :
         LET s == out[order[i]]
         IN  /\ s.rva % PageSize = 0 /\ s.rva >= PageSize
             /\ s.rva + s.vsize <= imageSize
             /\ s.raw > 0 => /\ s.off >= headers
                             /\ EndsInData => s.off + s.raw <= fileSize
             /\ \A j \in (i + 1) .. Len(order) :
                  LET t == out[order[j]]
                  IN  /\ s.rva + s.vsize <= t.rva
                      /\ s.raw > 0 /\ t.raw > 0 => s.off + s.raw <= t.off

(* The loader walks a table from the address of its first entry, by the    *)
(* size of a pointer, up to a null entry.                                  *)
Walks(is, end, d, size) ==
  LET group == BinImports(world.imports, Imports, d)
  IN  \A k \in DOMAIN group :
        LET here == RVA(is, group[k])
        IN  /\ here = RVA(is, group[1]) + (k - 1) * size
            /\ k = Len(group) => IsPlaced(end, d) /\ RVA(end, d) = here + size

(* The import directory is a list of entries one after the other, with a   *)
(* null one at the end; each DLL's lookup and address tables have the same *)
(* symbols in the same order, and the tables of all DLLs are within the    *)
(* range given as the IAT.                                                 *)
ImportTablesWalk ==
  Written /\ Imports # {} =>
    LET dlls == DLLs(world.imports, Imports)
        size == PtrSize(world.is64)
        first == RVA("address", BinImports(world.imports, Imports, dlls[1])[1])
        iat == size * Len(Addresses(world.imports, Imports, world.is64))
    IN  /\ \A k \in DOMAIN dlls : RVA("dir", dlls[k]) = RVA("dir", dlls[1]) + 20 * (k - 1)
        /\ RVA("dir end", 0) = RVA("dir", dlls[1]) + 20 * Len(dlls)
        /\ \A d \in ToSet(dlls) : /\ Walks("lookup", "lookup end", d, size)
                                  /\ Walks("address", "address end", d, size)
        /\ \A i \in Imports : /\ RVA("address", i) >= first
                              /\ RVA("address", i) + size <= first + iat

(* Each exported name leads to its own symbol: its position in the sorted  *)
(* list of names gives its ordinal, the ordinal one address; and the       *)
(* directory the headers point at is at the start of .edata.               *)
ExportsLead ==
  Written /\ exports # <<>> =>
    /\ \A k \in DOMAIN Named(exports) :
         LET e == exports[Named(exports)[k]]
         IN  /\ AddressTable(exports)[OrdinalTable(exports)[k]] = {e.sym}
             /\ k > 1 => exports[Named(exports)[k - 1]].ext < e.ext
    /\ \A i \in DOMAIN exports :
         AddressTable(exports)[exports[i].ordinal] = {exports[i].sym}
    /\ RVA("export dir", 0) = out[".edata"].rva

(* .reloc lists exactly the places of the image at which an absolute       *)
(* address was written that depends on where the image is loaded, each in  *)
(* a block of its page.                                                    *)
AbsolutePlaces ==
  UNION {CASE p.chunk.is = "section" ->
                {p.rva + x.at : x \in {y \in ToSet(world.chunks[p.chunk.of].relocs) :
                                         y.abs /\ ~y.base}}
           [] p.chunk.is \in {"local", "delay address"} -> {p.rva}
           [] p.chunk.is = "thunk" -> IF world.is64 THEN {} ELSE {p.rva + 2}
           [] OTHER -> {}
         : p \in Placed}
BaserelsComplete ==
  Written /\ world.relocatable =>
    /\ UNION {ToSet(blocks[i].entries) : i \in DOMAIN blocks} = AbsolutePlaces
    /\ \A i \in DOMAIN blocks : \A v \in ToSet(blocks[i].entries) :
         v \in blocks[i].page .. (blocks[i].page + PageSize - 1)
=============================================================================
