------------------------------ MODULE ELFLayout ------------------------------
(***************************************************************************)
(* ELF/TargetLayout.cpp and ELF/SegmentChunks.cpp: how the writer of the   *)
(* atom model groups atoms into sections, sections into segments, and      *)
(* gives them addresses and places in the file, until the program headers, *)
(* whose number depends on the result, stop changing (ELF64, no SECTIONS   *)
(* command of a linker script).                                            *)
(*                                                                         *)
(* A section name is [base, tag]: the prefix the linker knows it by and    *)
(* what follows it.  SHF_* flags are sets of letters.                      *)
(***************************************************************************)
EXTENDS Integers, FiniteSets, SequencesExt

CONSTANTS
  PageSize, BaseAddress,
  TableSize,     \* [tables -> Nat]: sizes of what the linker itself adds
  Worlds         \* the links: records of
    \*   atoms   Seq of [name, file, ct, perm, size, align, mod, relocs]; relocs
    \*           has the table, "reladyn" or "relaplt", of each relocation that
    \*           is left to the dynamic linker
    \*   kind    "static", "dynamic" or "shared"
    \*   magic   "default", "nmagic" or "omagic"
    \*   alignSegments, mergeROData, strip   BOOLEAN

ASSUME SizesAssumption == PageSize \in Nat \ {0} /\ BaseAddress % PageSize = 0

VARIABLES
  world, phase,
  next,       \* index of the atom or section the phase is at
  chunks,     \* all chunks; 1 is the ELF header and 2 the program headers
  sections,   \* _sections: indices of chunks
  outputs,    \* _outputSections
  segments,   \* _segments
  headers,    \* _ph
  used,       \* _phi
  cursor,     \* what the loops over the chunks of segments count
  assigned    \* virtualAddressAssigned and fileOffsetAssigned

vars == <<world, phase, next, chunks, sections, outputs, segments, headers, used,
          cursor, assigned>>

RoundUp(n, a) == ((n + a - 1) \div a) * a
Larger(m, n) == IF m < n THEN n ELSE m

---------------------------------------------------------------------------
(* Kinds of sections. *)

\* TargetLayout.h: DefaultSectionOrder.
Order == [none |-> 0, interp |-> 10, ronote |-> 15, hash |-> 30, dynsym |-> 40,
          dynstr |-> 50, reladyn |-> 52, relaplt |-> 54, init |-> 60, plt |-> 70, text |-> 80, fini |-> 90,
          rodata |-> 100, ehframe |-> 110, ehframehdr |-> 120, tdata |-> 124,
          tbss |-> 128, ctors |-> 130, dtors |-> 140, initarray |-> 150,
          finiarray |-> 160, dynamic |-> 170, got |-> 180, gotplt |-> 190,
          data |-> 200, rwnote |-> 205, bss |-> 210, noalloc |-> 215, other |-> 220,
          shstrtab |-> 230, symtab |-> 240, strtab |-> 250, shdr |-> 260]

ZeroFill == {"zerofill", "threadzerofill"}

SectionOrder(name, ct, perm) ==
  LET StartsWith(table, default) ==
        IF name.base \in DOMAIN table THEN table[name.base] ELSE default
  IN CASE ct = "code" -> StartsWith([eh_frame_hdr |-> "ehframehdr", eh_frame |-> "ehframe",
                                     init |-> "init", init_array |-> "init",
                                     fini |-> "fini", fini_array |-> "fini",
                                     hash |-> "hash"], "text")
       [] ct = "constant" -> "rodata"
       [] ct = "data" -> StartsWith([init_array |-> "initarray", fini_array |-> "finiarray",
                                     dynamic |-> "dynamic", ctors |-> "ctors",
                                     dtors |-> "dtors"], "data")
       [] ct = "zerofill" -> "bss"
       [] ct = "got" -> StartsWith([got_plt |-> "gotplt"], "got")
       [] ct = "stub" -> "plt"
       [] ct = "ronote" -> "ronote"
       [] ct = "rwnote" -> "rwnote"
       [] ct = "noalloc" -> "noalloc"
       [] ct = "threaddata" -> "tdata"
       [] ct = "threadzerofill" -> "tbss"

MergedNames == {"text", "ctors", "dtors", "rodata", "gcc_except_table", "data_rel_ro",
                "data_rel_local", "data", "tdata", "tbss", "init_array", "fini_array"}
OutputSectionName(name) ==
  IF name.base \in MergedNames THEN [name EXCEPT !.tag = ""] ELSE name

SegmentType(order) ==
  CASE order = "interp" -> "INTERP"
    [] order \in {"ronote", "rwnote"} -> "NOTE"
    [] order = "dynamic" -> "DYNAMIC"
    [] order = "ehframehdr" -> "GNU_EH_FRAME"
    [] order \in {"tdata", "tbss"} -> "TLS"
    [] order \in {"none", "noalloc", "other", "shstrtab", "symtab", "strtab", "shdr"} -> "NULL"
    [] OTHER -> "LOAD"

HasOutputSegment(order) ==
  order \notin {"none", "other", "shstrtab", "symtab", "strtab", "shdr"}

\* The value of flags: SHF_WRITE, SHF_ALLOC, SHF_EXECINSTR, SHF_TLS.
Bits == [w |-> 1, a |-> 2, x |-> 4, t |-> 1024]
Value(flags) == LET Bit(f) == IF f \in flags THEN Bits[f] ELSE 0
                IN Bit("w") + Bit("a") + Bit("x") + Bit("t")

PermFlags(perm, ct) ==
  CASE perm = "R" -> {"a"}
    [] perm = "RX" -> {"a", "x"}
    [] perm = "RW" -> {"a", "w"} \cup (IF ct \in {"threaddata", "threadzerofill"}
                                       THEN {"t"} ELSE {})
    [] perm = "RWX" -> {"a", "w", "x"}
    [] perm = "none" -> {}

\* The order of permissions as DefinedAtom numbers them, and as segments do.
AtomPerms(flags) ==
  LET f == flags \ {"t"}
  IN CASE f = {"a", "w", "x"} -> 14 [] f = {"a", "x"} -> 12
       [] f = {"a"} -> 8 [] f = {"a", "w"} -> 10 [] OTHER -> 16
SegmentOrder(perms) ==
  CASE perms = 16 -> 0 [] perms = 14 -> 1 [] perms = 12 -> 2 [] perms = 8 -> 3
    [] perms = 10 -> 5 [] OTHER -> 6

Content(c) == CASE c.kind \in {"header", "shdr"} -> "Header"
                [] "x" \in c.flags -> "Code" [] "w" \in c.flags -> "Data"
                [] "a" \in c.flags -> "Code" [] OTHER -> "Unknown"

---------------------------------------------------------------------------
(* Chunks.  va is where virtualAddr() points, base what the atoms' addresses
   start from: of a section in PT_TLS, its offset in the thread's block. *)

Chunk(kind, name, order, flags, align, size) ==
  [kind |-> kind, name |-> name, file |-> 0, ct |-> "unknown", perm |-> "none",
   out |-> name, output |-> 0, first |-> FALSE, order |-> order, flags |-> flags,
   segment |-> "NULL", align |-> align, fsize |-> size, msize |-> size,
   va |-> 0, base |-> 0, off |-> 0, atoms |-> <<>>]

IsSection(c) == c.kind \in {"table", "atoms"}
Named(base) == [base |-> base, tag |-> ""]

\* The first section of an output section has the alignment of all of it.
Alignment(c) == IF c.first THEN outputs[c.output].align ELSE c.align

Started(p) ==
  /\ world \in Worlds
  /\ phase = p
  /\ next = 1
  /\ chunks = <<Chunk("header", Named("elfhdr"), "none", {}, 8, 64),
                Chunk("header", Named("elfphdr"), "none", {}, 8, 0)>>
  /\ sections = <<>>
  /\ outputs = <<>>
  /\ segments = <<>>
  /\ headers = <<>>
  /\ used = 0
  /\ cursor = <<>>
  /\ assigned = FALSE
Init == Started("add")

\* getSection: sections are found by name, permissions and file, whatever the
\* content of their first atom.
SectionOf(atom) ==
  {i \in 3 .. Len(chunks) :
     chunks[i].name = atom.name /\ chunks[i].perm = atom.perm /\ chunks[i].file = atom.file}
NewSection(atom) ==
  [Chunk("atoms", atom.name, SectionOrder(atom.name, atom.ct, atom.perm),
         PermFlags(atom.perm, atom.ct), 1, 0)
     EXCEPT !.out = OutputSectionName(atom.name), !.file = atom.file,
            !.ct = atom.ct, !.perm = atom.perm]

AlignOffset(offset, atom) == offset + ((atom.mod - offset) % atom.align)

\* Atoms without contents take no room in the file, others none in memory.
AppendAtom(c, atom) ==
  LET f == AlignOffset(c.fsize, atom)
      m == AlignOffset(c.msize, atom)
  IN [c EXCEPT !.align = Larger(@, atom.align),
               !.atoms = Append(@, IF atom.ct \in ZeroFill THEN m ELSE f),
               !.fsize = IF atom.ct \in ZeroFill THEN @ ELSE f + atom.size,
               !.msize = IF atom.ct = "noalloc" THEN @ ELSE m + atom.size]

Table(name, order, flags, align) ==
  Chunk("table", Named(name), order, flags, align, TableSize[order])

\* addRelocation: the tables are made when they are first needed.
RelaTable(table) == Chunk("table", Named(table), table, {"a"}, 8, 24)
AddRelocation(cs, table) ==
  LET known == {i \in 3 .. Len(cs) : cs[i].order = table}
  IN IF known = {} THEN Append(cs, RelaTable(table))
     ELSE [cs EXCEPT ![CHOOSE i \in known : TRUE].fsize = @ + 24,
                     ![CHOOSE i \in known : TRUE].msize = @ + 24]

\* The section comes first, then the tables of the atom's relocations.
AddAtom ==
  /\ phase = "add" /\ next <= Len(world.atoms)
  /\ LET atom == world.atoms[next]
         known == SectionOf(atom)
         at == IF known = {} THEN Len(chunks) + 1 ELSE CHOOSE i \in known : TRUE
         made == IF known = {} THEN Append(chunks, NewSection(atom)) ELSE chunks
         with == FoldLeft(AddRelocation, made, atom.relocs)
     IN /\ chunks' = [with EXCEPT ![at] = AppendAtom(@, atom)]
        /\ sections' = sections \o [k \in 1 .. Len(with) - Len(chunks) |-> Len(chunks) + k]
  /\ next' = next + 1
  /\ UNCHANGED <<world, phase, outputs, segments, headers, used, cursor, assigned>>

Unloaded(c) == [c EXCEPT !.msize = 0]

DefaultSections ==
  (IF world.strip THEN <<>>
   ELSE <<Unloaded(Table("symtab", "symtab", {}, 8)),
          Unloaded(Table("strtab", "strtab", {}, 1))>>)
  \o <<Unloaded(Table("shstrtab", "shstrtab", {}, 1)),
       [Unloaded(Table("shdr", "shdr", {}, 8)) EXCEPT !.kind = "shdr"]>>
  \o (IF \E i \in ToSet(sections) : chunks[i].out = Named("eh_frame")
      THEN <<Table("eh_frame_hdr", "ehframehdr", {"a"}, 8)>> ELSE <<>>)
  \o (IF world.kind = "static" THEN <<>>
      ELSE <<Table("dynamic", "dynamic", {"a"}, 8), Table("dynstr", "dynstr", {"a"}, 1),
             Table("dynsym", "dynsym", {"a"}, 8), Table("hash", "hash", {"a"}, 8)>>)
  \o (IF world.kind = "dynamic" THEN <<Table("interp", "interp", {"a"}, 1)>> ELSE <<>>)

CreateDefaultSections ==
  /\ phase = "add" /\ next > Len(world.atoms)
  /\ chunks' = chunks \o DefaultSections
  /\ sections' = sections \o [i \in 1 .. Len(DefaultSections) |-> Len(chunks) + i]
  /\ phase' = "group"
  /\ UNCHANGED <<world, next, outputs, segments, headers, used, cursor, assigned>>

---------------------------------------------------------------------------
(* assignSectionsToSegments. *)

\* sortInputSections without a script: a stable sort by order.
SortedSections ==
  LET Rank(k) == <<Order[chunks[sections[k]].order], k>>
      Before(j, k) == \/ Rank(j)[1] < Rank(k)[1]
                      \/ Rank(j)[1] = Rank(k)[1] /\ Rank(j)[2] < Rank(k)[2]
      order == SortSeq([j \in 1 .. Len(sections) |-> j], Before)
  IN [k \in 1 .. Len(sections) |-> sections[order[k]]]

\* appendSection: in the order of their first sections; flags are those of the
\* section whose flags have the greatest value.
OutputSection(ids) ==
  LET parts == ToSet(ids)
  IN [name |-> chunks[ids[1]].out, sections |-> ids,
      align |-> Max({chunks[i].align : i \in parts}),
      flags |-> CHOOSE f \in {chunks[i].flags : i \in parts} :
                  \A i \in parts : Value(chunks[i].flags) <= Value(f),
      hasSegment |-> FALSE, loadable |-> FALSE, va |-> 0, off |-> 0, size |-> 0, msize |-> 0]

OutputSections(ids) ==
  LET Same(i) == SelectSeq(ids, LAMBDA j : IsSection(chunks[j]) /\ chunks[j].out = chunks[i].out)
      firsts == SelectSeq(ids, LAMBDA i : IsSection(chunks[i]) /\ Same(i)[1] = i)
  IN [k \in 1 .. Len(firsts) |-> OutputSection(Same(firsts[k]))]

OutputOf(outs, i) ==
  LET of == {k \in 1 .. Len(outs) : i \in ToSet(outs[k].sections)}
  IN IF of = {} THEN chunks[i]
     ELSE LET k == CHOOSE k \in of : TRUE
          IN [chunks[i] EXCEPT !.output = k, !.first = (outs[k].sections[1] = i)]

CreateOutputSections ==
  /\ phase = "group"
  /\ sections' = SortedSections
  /\ outputs' = OutputSections(sections')
  /\ chunks' = [i \in 1 .. Len(chunks) |-> OutputOf(outputs', i)]
  /\ next' = 1
  /\ phase' = "assign"
  /\ UNCHANGED <<world, segments, headers, used, cursor, assigned>>

NewSegment(type, key) ==
  [type |-> type, key |-> key, flags |-> {}, perms |-> 0, align |-> 1, sections |-> <<>>,
   slices |-> <<>>, va |-> 0, off |-> 0, fsize |-> 0, msize |-> 0]

\* Segment::append: flags are added only when they have a greater value.
AppendChunk(seg, i) ==
  LET c == chunks[i]
      flags == IF Value(seg.flags) < Value(c.flags) THEN seg.flags \cup c.flags ELSE seg.flags
  IN [seg EXCEPT !.sections = Append(@, i),
                 !.flags = flags,
                 !.perms = Larger(@, AtomPerms(flags)),
                 !.align = Larger(@, Alignment(c))]

\* Finds or makes the segment with this type and these flags.
InSegment(segs, type, key, i) ==
  LET known == {k \in 1 .. Len(segs) : segs[k].type = type /\ segs[k].key = key}
  IN IF known = {} THEN Append(segs, AppendChunk(NewSegment(type, key), i))
     ELSE [segs EXCEPT ![CHOOSE k \in known : TRUE] = AppendChunk(@, i)]

LookupSectionFlags(o) ==
  (IF "w" \notin o.flags /\ world.mergeROData THEN o.flags \ {"x"} ELSE o.flags) \ {"t"}

AssignOrder == FlattenSeq([k \in 1 .. Len(outputs) |-> outputs[k].sections])

\* One section: a segment of its own type if that is not PT_LOAD, and a
\* PT_LOAD segment unless it has no type.
AssignSection ==
  /\ phase = "assign" /\ next <= Len(AssignOrder)
  /\ LET i == AssignOrder[next]
         c == chunks[i]
         type == SegmentType(c.order)
         key == LookupSectionFlags(outputs[c.output])
         own == IF type = "LOAD" THEN segments ELSE InSegment(segments, type, key, i)
         loadKey == IF world.magic = "default" THEN key ELSE {"a", "w", "x"}
     IN IF ~HasOutputSegment(c.order) THEN UNCHANGED <<chunks, outputs, segments>>
        ELSE /\ chunks' = [chunks EXCEPT ![i].segment = type]
             /\ outputs' = [outputs EXCEPT
                              ![c.output].hasSegment = TRUE,
                              ![c.output].loadable = c.kind = "atoms" /\ c.ct # "noalloc"]
             /\ segments' = IF type = "NULL" THEN own ELSE InSegment(own, "LOAD", loadKey, i)
  /\ next' = next + 1
  /\ UNCHANGED <<world, phase, sections, headers, used, cursor, assigned>>

HeaderSegment ==
  [NewSegment("PHDR", {}) EXCEPT !.align = 8, !.flags = {"a", "x"}, !.sections = <<1, 2>>]

SegmentsAssigned ==
  /\ phase = "assign" /\ next > Len(AssignOrder)
  /\ segments' = IF world.kind = "dynamic" THEN Append(segments, HeaderSegment) ELSE segments
  /\ phase' = "sort"
  /\ UNCHANGED <<world, next, chunks, sections, outputs, headers, used, cursor, assigned>>

---------------------------------------------------------------------------
(* assignVirtualAddress of the layout. *)

TypeRank(type) ==
  CASE type = "PHDR" -> 0 [] type = "INTERP" -> 1 [] type = "LOAD" -> 2 [] type = "NULL" -> 3
    [] type = "DYNAMIC" -> 4 [] type = "NOTE" -> 5 [] type = "GNU_EH_FRAME" -> 6
    [] type = "TLS" -> 7

\* No two segments of a type have the same permissions: the keys of their maps
\* tell them apart, so that std::sort has one result.
CompareSegments(s, t) ==
  \/ TypeRank(s.type) < TypeRank(t.type)
  \/ s.type = t.type /\ SegmentOrder(s.perms) < SegmentOrder(t.perms)

FirstLoad(segs) == CHOOSE k \in 1 .. Len(segs) :
                     segs[k].type = "LOAD" /\ \A j \in 1 .. k - 1 : segs[j].type # "LOAD"

\* The headers become the first chunks of the first PT_LOAD segment.
SortSegments ==
  /\ phase = "sort"
  /\ LET sorted == SortSeq(segments, CompareSegments)
         first == FirstLoad(sorted)
     IN /\ segments' = [sorted EXCEPT ![first].sections = <<1, 2>> \o @]
        /\ chunks' = [chunks EXCEPT ![sorted[first].sections[1]].align = sorted[first].align]
  /\ phase' = "headers"
  /\ UNCHANGED <<world, next, sections, outputs, headers, used, cursor, assigned>>

\* Segment::finalize and ProgramHeaderSegment::finalize.
Finalize(seg) ==
  LET first == chunks[seg.sections[1]]
      last == chunks[Last(seg.sections)]
  IN CASE seg.type = "LOAD" -> seg
       [] seg.type = "PHDR" ->
            [seg EXCEPT !.off = last.off, !.va = last.va, !.fsize = last.fsize,
                        !.msize = last.msize]
       [] OTHER ->
            [seg EXCEPT !.off = first.off, !.va = first.va,
                        !.fsize = last.off + last.fsize - first.off,
                        !.msize = last.va + last.msize - first.va]

Header(seg, part, align) ==
  [type |-> seg.type, off |-> part.off, va |-> part.va, filesz |-> part.fsize,
   memsz |-> part.msize, flags |-> seg.flags \ {"t"}, align |-> align]

\* addSegment: one header for each slice of a PT_LOAD segment.
HeadersOf(seg) ==
  CASE seg.type = "NULL" -> <<>>
    [] seg.type = "LOAD" ->
         [k \in 1 .. Len(seg.slices) |->
            Header(seg, seg.slices[k],
                   IF world.magic = "default" THEN Larger(PageSize, seg.slices[k].align)
                   ELSE seg.slices[k].align)]
    [] OTHER -> <<Header(seg, seg, seg.align)>>

\* allocateProgramHeader reuses the headers of the last round.
AddHeaders(hs) ==
  LET room == Larger(Len(headers), used + Len(hs))
  IN [k \in 1 .. room |-> IF k \in used + 1 .. used + Len(hs) THEN hs[k - used] ELSE headers[k]]

\* Broken: the slices of the round that made them are not counted.
NoHeaderAdded(finals) == FALSE

\* Broken: a header that is reused counts as new.
AnyHeaderAdded(finals) == \E k \in 1 .. Len(finals) : HeadersOf(finals[k]) # <<>>

\* Only what the last segment added decides whether there is a new header.
NewHeaderAdded(finals) ==
  LET named == SelectSeq(finals, LAMBDA s : s.type # "NULL")
      before == FlattenSeq([k \in 1 .. Len(named) - 1 |-> HeadersOf(named[k])])
      end == used + Len(before)
  IN named # <<>> /\ HeadersOf(Last(named)) # <<>>
       /\ end + Len(HeadersOf(Last(named))) > Len(headers)

Placed(k) == segments[k].type \in {"LOAD", "NULL"}
PlacedSegments == SelectSeq([k \in 1 .. Len(segments) |-> k], Placed)
\* The counters of assignVirtualAddress: addr is where the next segment starts,
\* pos how many chunks of the current one have an address.
AddressCursor(todo, addr) ==
  [todo |-> todo, addr |-> addr, pos |-> 0, startAddr |-> 0, sliceAddr |-> 0,
   sliceSize |-> 0, sliceAlign |-> 0, start |-> 0, tbss |-> 0, tls |-> 0,
   aligned |-> FALSE, prev |-> Named("")]

AddSegments ==
  /\ phase = "headers"
  /\ LET finals == [k \in 1 .. Len(segments) |-> Finalize(segments[k])]
         hs == FlattenSeq([k \in 1 .. Len(finals) |-> HeadersOf(finals[k])])
         added == NewHeaderAdded(finals)
     IN /\ segments' = finals
        /\ headers' = AddHeaders(hs)
        /\ used' = used + Len(hs)
        /\ chunks' = [chunks EXCEPT ![2].fsize = 56 * Len(headers'),
                                    ![2].msize = 56 * Len(headers')]
        /\ phase' = IF added \/ ~assigned THEN "addresses" ELSE "fix"
        /\ cursor' = AddressCursor(PlacedSegments, BaseAddress)
  /\ UNCHANGED <<world, next, sections, outputs, assigned>>

NeedAlign(c) == Content(c) = "Data" /\ world.magic = "nmagic"
Paged == world.magic = "default"
Current == segments[Head(cursor.todo)]

\* Where a section in PT_TLS starts in the thread's block, others in memory.
Based(c, addr, tls) ==
  IF ~IsSection(c) THEN c
  ELSE [c EXCEPT !.base = IF c.segment = "TLS" THEN RoundUp(tls, Alignment(c)) ELSE addr]

\* Broken: what has no contents takes no room in the block.
NextTLSFileSize(c, tls) ==
  IF IsSection(c) /\ c.segment = "TLS" THEN RoundUp(tls, Alignment(c)) + c.fsize ELSE tls

NextTLS(c, tls) ==
  IF IsSection(c) /\ c.segment = "TLS" THEN RoundUp(tls, Alignment(c)) + c.msize ELSE tls

\* A segment that is where it was already ends the round.
AddressSettled ==
  LET seg == segments[Head(cursor.todo)]
  IN seg.type = "LOAD" /\ assigned /\ cursor.addr # BaseAddress /\ cursor.addr = seg.va

AddressFirst ==
  /\ phase = "addresses" /\ cursor.pos = 0 /\ cursor.todo # <<>> /\ ~AddressSettled
  /\ LET i == Current.sections[1]
         c == chunks[i]
         paged == world.alignSegments /\ Paged
         addr == IF Current.type = "NULL" THEN 0 ELSE cursor.addr
         start == IF paged \/ NeedAlign(c) THEN RoundUp(addr, PageSize) ELSE addr
         at == RoundUp(start, Alignment(c))
     IN /\ chunks' = [chunks EXCEPT ![i] = [Based(c, at, 0) EXCEPT !.va = at]]
        /\ cursor' = [cursor EXCEPT
             !.pos = 1, !.startAddr = start, !.sliceAddr = at, !.sliceAlign = Alignment(c),
             !.sliceSize = IF c.order = "tbss" THEN 0 ELSE c.msize,
             !.tbss = IF c.order = "tbss" THEN c.msize ELSE 0,
             !.tls = NextTLS(c, 0), !.aligned = ~paged /\ NeedAlign(c)]
  /\ UNCHANGED <<world, phase, next, sections, outputs, segments, headers, used, assigned>>

\* The slice that starts at this section is changed, or added.
SetSlice(seg, ids) ==
  LET old == SelectSeq(seg.slices, LAMBDA s : s.start = cursor.start)
      new == [start |-> cursor.start, sections |-> ids, va |-> cursor.sliceAddr,
              msize |-> cursor.sliceSize, align |-> cursor.sliceAlign,
              off |-> IF old = <<>> THEN 0 ELSE old[1].off,
              fsize |-> IF old = <<>> THEN 0 ELSE old[1].fsize]
  IN [seg EXCEPT !.slices =
        SortSeq(SelectSeq(@, LAMBDA s : s.start # cursor.start) \o <<new>>,
                LAMBDA s, t : s.start < t.start)]

\* A section of another output section more than a page away starts a slice.
\* tbss takes no memory: what follows it starts where it starts.
AddressNext ==
  /\ phase = "addresses" /\ cursor.pos > 0 /\ cursor.pos < Len(Current.sections)
  /\ LET i == Current.sections[cursor.pos + 1]
         c == chunks[i]
         page == ~cursor.aligned /\ NeedAlign(c)
         end == cursor.sliceAddr + cursor.sliceSize
         cur == IF page THEN RoundUp(end, PageSize) ELSE end
         addr == RoundUp(cur, Alignment(c))
         at == IF c.order = "tbss" THEN addr + cursor.tbss ELSE addr
         rest == [cursor EXCEPT !.pos = @ + 1, !.aligned = @ \/ page, !.prev = c.out]
     IN IF c.out # cursor.prev /\ addr - cur > PageSize /\ Paged
        THEN /\ segments' = [segments EXCEPT ![Head(cursor.todo)] =
                  SetSlice(@, SubSeq(@.sections, cursor.start + 1, cursor.pos))]
             /\ chunks' = [chunks EXCEPT ![i].va = at, ![i].base = addr]
             /\ cursor' = [rest EXCEPT !.sliceAddr = at, !.sliceSize = addr - at + c.msize,
                                       !.sliceAlign = Alignment(c), !.start = cursor.pos]
        ELSE /\ chunks' = [chunks EXCEPT ![i] = [Based(c, at, cursor.tls) EXCEPT !.va = at]]
             /\ cursor' = [rest EXCEPT
                  !.tls = NextTLS(c, @), !.sliceAlign = Larger(@, Alignment(c)),
                  !.sliceSize = IF c.order = "tbss" THEN @ ELSE at - cursor.sliceAddr + c.msize,
                  !.tbss = IF c.order = "tbss" THEN c.msize ELSE 0]
             /\ UNCHANGED segments
  /\ UNCHANGED <<world, phase, next, sections, outputs, headers, used, assigned>>

\* The segment ends up at its last slice.
AddressEnd ==
  /\ phase = "addresses" /\ cursor.pos > 0 /\ cursor.pos = Len(Current.sections)
  /\ LET size == cursor.sliceAddr - cursor.startAddr + cursor.sliceSize
     IN /\ segments' = [segments EXCEPT ![Head(cursor.todo)] =
             [SetSlice(@, SubSeq(@.sections, cursor.start + 1, cursor.pos))
                EXCEPT !.msize = size, !.va = cursor.sliceAddr]]
        /\ cursor' = AddressCursor(Tail(cursor.todo), cursor.sliceAddr + size)
  /\ UNCHANGED <<world, phase, next, chunks, sections, outputs, headers, used, assigned>>

\* The counters of assignFileOffsets.
OffsetCursor(todo, offset) ==
  [todo |-> todo, offset |-> offset, slice |-> 0, pos |-> 1, aligned |-> FALSE]

AddressesDone ==
  /\ phase = "addresses" /\ cursor.pos = 0
  /\ cursor.todo # <<>> => AddressSettled
  /\ cursor' = OffsetCursor(PlacedSegments, 0)
  /\ phase' = "offsets"
  /\ UNCHANGED <<world, next, chunks, sections, outputs, segments, headers, used, assigned>>

\* Broken: a later round changes addresses only.
OffsetSettledOnce == assigned /\ cursor.offset # 0

OffsetSettled == assigned /\ cursor.offset # 0 /\ cursor.offset = Current.off

PlaceSegment ==
  /\ phase = "offsets" /\ cursor.slice = 0 /\ cursor.todo # <<>> /\ ~OffsetSettled
  /\ segments' = [segments EXCEPT ![Head(cursor.todo)].off = cursor.offset]
  /\ cursor' = [cursor EXCEPT !.slice = 1]
  /\ UNCHANGED <<world, phase, next, chunks, sections, outputs, headers, used, assigned>>

\* Where the first section of a slice may start in the file.
SliceOffset(slice, c, offset) ==
  IF world.alignSegments THEN RoundUp(offset, PageSize)
  ELSE IF c.kind = "atoms" /\ c.ct # "noalloc" /\ (slice.va - offset) % PageSize # 0
       THEN RoundUp(offset, PageSize) + (slice.va % PageSize)
       ELSE offset

PlaceChunk ==
  /\ phase = "offsets" /\ cursor.slice > 0 /\ cursor.slice <= Len(Current.slices)
  /\ LET k == Head(cursor.todo)
         slice == Current.slices[cursor.slice]
         i == slice.sections[cursor.pos]
         c == chunks[i]
         first == cursor.pos = 1
         offset == RoundUp(cursor.offset, Alignment(c))
         page == ~(first /\ Paged) /\ ~cursor.aligned /\ NeedAlign(c)
         at == IF first /\ Paged THEN SliceOffset(slice, c, offset)
               ELSE IF page THEN RoundUp(offset, PageSize) ELSE offset
         start == IF first THEN at ELSE slice.off
         last == cursor.pos = Len(slice.sections)
     IN /\ chunks' = [chunks EXCEPT ![i].off = at]
        /\ segments' = [segments EXCEPT
             ![k].slices[cursor.slice].off = start,
             ![k].slices[cursor.slice].fsize = at + c.fsize - start,
             ![k].fsize = at + c.fsize - Current.off]
        /\ cursor' = [cursor EXCEPT !.offset = at + c.fsize, !.aligned = @ \/ page,
                                    !.slice = IF last THEN @ + 1 ELSE @,
                                    !.pos = IF last THEN 1 ELSE @ + 1]
  /\ UNCHANGED <<world, phase, next, sections, outputs, headers, used, assigned>>

SegmentPlaced ==
  /\ phase = "offsets" /\ cursor.slice > 0 /\ cursor.slice > Len(Current.slices)
  /\ cursor' = OffsetCursor(Tail(cursor.todo), cursor.offset)
  /\ UNCHANGED <<world, phase, next, chunks, sections, outputs, segments, headers, used,
                 assigned>>

OffsetsDone ==
  /\ phase = "offsets" /\ cursor.slice = 0
  /\ cursor.todo # <<>> => OffsetSettled
  /\ assigned' = TRUE
  /\ used' = 0
  /\ phase' = "headers"
  /\ UNCHANGED <<world, next, chunks, sections, outputs, segments, headers, cursor>>

\* The sizes of output sections, from the first of their sections to the last,
\* and of the table of their headers.
FixOutputs ==
  /\ phase = "fix"
  /\ outputs' = [k \in 1 .. Len(outputs) |->
       LET first == chunks[outputs[k].sections[1]]
           last == chunks[Last(outputs[k].sections)]
       IN [outputs[k] EXCEPT !.off = first.off, !.size = last.off - first.off + last.fsize,
                             !.va = first.va, !.msize = last.va - first.va + last.msize]]
  /\ chunks' = [i \in 1 .. Len(chunks) |->
                 IF chunks[i].kind = "shdr"
                 THEN [chunks[i] EXCEPT !.fsize = 64 * (1 + Len(outputs))] ELSE chunks[i]]
  /\ cursor' = LET last == segments[Last(PlacedSegments)]
               IN OffsetCursor(<<>>, last.off + last.fsize)
  /\ next' = 1
  /\ phase' = "misc"
  /\ UNCHANGED <<world, sections, segments, headers, used, assigned>>

\* assignFileOffsetsForMiscSections: what is in no segment follows the last
\* segment in the file.
AssignMiscSection ==
  /\ phase = "misc" /\ next <= Len(sections)
  /\ LET i == sections[next]
         at == RoundUp(cursor.offset, Alignment(chunks[i]))
     IN IF IsSection(chunks[i]) /\ HasOutputSegment(chunks[i].order)
        THEN UNCHANGED <<chunks, cursor>>
        ELSE /\ chunks' = [chunks EXCEPT ![i].off = at, ![i].va = 0]
             /\ cursor' = [cursor EXCEPT !.offset = at + chunks[i].fsize]
  /\ next' = next + 1
  /\ UNCHANGED <<world, phase, sections, outputs, segments, headers, used, assigned>>

Finish ==
  /\ phase = "misc" /\ next > Len(sections)
  /\ phase' = "done"
  /\ UNCHANGED <<world, next, chunks, sections, outputs, segments, headers, used, cursor,
                 assigned>>

Done == phase = "done" /\ UNCHANGED vars

Next == \/ AddAtom \/ CreateDefaultSections \/ CreateOutputSections \/ AssignSection
        \/ SegmentsAssigned \/ SortSegments \/ AddSegments \/ AddressFirst \/ AddressNext
        \/ AddressEnd \/ AddressesDone \/ PlaceSegment \/ PlaceChunk \/ SegmentPlaced
        \/ OffsetsDone \/ FixOutputs \/ AssignMiscSection \/ Finish \/ Done

Spec == Init /\ [][Next]_vars /\ WF_vars(Next)

---------------------------------------------------------------------------
(* Properties.  They are about the layout that gets written. *)

Loads == {h \in ToSet(headers) : h.type = "LOAD"}
Written == {1, 2} \cup ToSet(sections)
Loaded == {i \in Written : \/ i \in {1, 2}
                           \/ chunks[i].segment # "NULL" /\ chunks[i].order # "tbss"}

\* The loader puts a chunk where it was linked: some PT_LOAD header spans its
\* addresses, and if it has contents, its bytes in the file at the same
\* distance from the start.
Maps(h, c) ==
  /\ h.va <= c.va /\ c.va + c.msize <= h.va + h.memsz
  /\ c.fsize > 0 => /\ c.off - h.off = c.va - h.va
                    /\ c.off + c.fsize <= h.off + h.filesz

\* Segment::assignVirtualAddress and assignFileOffsets walk the same chunks
\* with different sizes, alignments and slices, and addSegment publishes the
\* result of an earlier round: what the program headers say must put every
\* loaded chunk at its address, and no two of them may share memory.
MappedOnce ==
  phase = "done" =>
    /\ \A i \in Loaded : \E h \in Loads : Maps(h, chunks[i])
    /\ \A i, j \in 1 .. Len(headers) :
         i # j /\ headers[i].type = "LOAD" /\ headers[j].type = "LOAD" =>
           \/ headers[i].va + headers[i].memsz <= headers[j].va
           \/ headers[j].va + headers[j].memsz <= headers[i].va
    /\ Paged => \A h \in Loads : (h.va - h.off) % h.align = 0

\* No two chunks share bytes of the file: not even those placed before the
\* program headers had all their entries, or after the last segment.
FileBytesApart ==
  phase = "done" =>
    \A i, j \in Written :
      i # j /\ chunks[i].fsize > 0 /\ chunks[j].fsize > 0 =>
        \/ chunks[i].off + chunks[i].fsize <= chunks[j].off
        \/ chunks[j].off + chunks[j].fsize <= chunks[i].off

\* What the atoms of a thread-local section use as their address, their place
\* in the block of a thread, is their distance from PT_TLS, whose initial
\* image the loader copies: two counters of one loop.
TlsOffsetsAgree ==
  phase = "done" =>
    \A i \in Written, h \in ToSet(headers) :
      h.type = "TLS" /\ chunks[i].segment = "TLS" => chunks[i].base = chunks[i].va - h.va

\* The rounds of addresses, file offsets and headers come to an end.
LayoutEnds == <>(phase = "done")

\* test/elf/tls-tbss-size.test: uninitialized thread variables count for the
\* size of PT_TLS, which TPOFF relocations are relative to.
TlsBlockHolds ==
  phase = "done" =>
    \A i \in Written, h \in ToSet(headers) :
      h.type = "TLS" /\ chunks[i].segment = "TLS" =>
        chunks[i].base + chunks[i].msize <= h.memsz
=============================================================================
