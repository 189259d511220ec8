------------------------------ MODULE ELFOutput ------------------------------
(***************************************************************************)
(* An ELF link from the relocation pass to the layout of the file:         *)
(* ELFRelocationPass adds atoms to the link, OrderPass sorts them behind   *)
(* the others, the writer puts all of them into sections and those of      *)
(* their relocations that are left to the dynamic linker into tables,      *)
(* chooses what goes into .dynsym, and ELFLayout places the result.        *)
(***************************************************************************)
EXTENDS ELFLayout

CONSTANT NameSize    \* what a name takes in .dynstr

VARIABLES
  nextRef, refs, created, gotMap, pltMap, tlsMap, objectMap,   \* of the pass
  listed,     \* buildDynamicSymbolTable is done
  dynsym,     \* atoms in .dynsym, but for its first entry, which has none
  needed      \* libraries with a DT_NEEDED entry

Pass == INSTANCE ELFRelocationPass

passVars == <<nextRef, refs, created, gotMap, pltMap, tlsMap, objectMap>>
writerVars == <<listed, dynsym, needed>>
outputVars == <<vars, passVars, writerVars>>

Inputs == Len(world.targets)
IsMade(id) == id > Inputs
IsDefinedPlainly(t) == Pass!IsDefined(t) /\ Pass!Kind(t) # "resolver"
Made(id) == created[id - Inputs]
MadeRelocations == UNION {ToSet(e.rels) : e \in ToSet(created)}

OutputInit ==
  /\ Started("pass")
  /\ Pass!Init
  /\ listed = FALSE
  /\ dynsym = <<>>
  /\ needed = {}

HandleReference ==
  /\ phase = "pass"
  /\ Pass!HandleReference
  /\ UNCHANGED <<phase, next, chunks, sections, outputs, segments, headers, used, cursor,
                 assigned, writerVars>>

---------------------------------------------------------------------------
(* From the pass to the writer. *)

\* isDynamicRelocation is asked before isPLTRelocation; both are true of
\* R_AARCH64_IRELATIVE.
RelocationTable(kind) ==
  CASE kind \in {"COPY", "GLOB_DAT", "TPOFF64", "DTPMOD64", "DTPOFF64", "TLSDESC"} -> "reladyn"
    [] kind = "IRELATIVE" /\ ~Pass!X86 -> "reladyn"
    [] kind \in {"JUMP_SLOT", "IRELATIVE"} -> "relaplt"
    [] OTHER -> "none"

PassFile == 0
AtomOf(entry) ==
  [name |-> Named(entry.section), file |-> PassFile,
   ct |-> CASE entry.section = "plt" -> "stub" [] entry.section = "bss" -> "zerofill"
            [] OTHER -> "got",
   perm |-> IF entry.section = "plt" THEN "RX" ELSE "RW",
   size |-> entry.size, align |-> IF entry.section = "plt" THEN 16 ELSE 8, mod |-> 0,
   relocs |-> SelectSeq([k \in 1 .. Len(entry.rels) |-> RelocationTable(entry.rels[k].kind)],
                        LAMBDA table : table # "none")]

\* perform's last part, and OrderPass.
AddCreatedAtoms ==
  /\ phase = "pass" /\ nextRef > Len(refs)
  /\ world' = [world EXCEPT !.atoms =
                 @ \o [k \in 1 .. Len(created) |-> AtomOf(created[Pass!Added[k]])]]
  /\ phase' = "add"
  /\ UNCHANGED <<next, chunks, sections, outputs, segments, headers, used, cursor, assigned,
                 passVars, writerVars>>

\* What addAtom puts into _referencedDynAtoms; it leaves out undefined atoms
\* that no dynamic relocation refers to, and what COPY relocations refer to.
ReferencedDynAtoms ==
  {r.target : r \in {r \in ToSet(refs) : IsMade(r.target) \/ ~Pass!IsUndefined(r.target)}}
  \cup {r.atom : r \in {r \in MadeRelocations :
          r.kind # "COPY" /\ (\/ IsMade(r.atom) \/ ~Pass!IsUndefined(r.atom)
                              \/ RelocationTable(r.kind) # "none")}}

InputIds(Test(_)) == SelectSeq([i \in 1 .. Inputs |-> i], Test)
Objects == SelectSeq([i \in 1 .. Len(created) |-> Inputs + i],
                     LAMBDA id : Made(id).list = "object")

\* hasGlobalGOTEntry: X86_64GOTSection and AArch64GOTSection look at what is
\* added to .got.
HasGlobalGOTEntry(t) ==
  \E e \in ToSet(created) : e.section = "got"
    /\ \E r \in ToSet(e.rels) :
         r.atom = t /\ r.kind \in (IF Pass!X86 THEN {"TPOFF64"} ELSE {"TPOFF64", "TLSDESC"})

\* buildDynamicSymbolTable of the writers of executables and of libraries.
\* Undefined atoms that are left in an executable are weak.
OwnSymbols ==
  IF world.kind = "dynamic"
  THEN InputIds(LAMBDA t : Pass!IsDefined(t) /\ HasGlobalGOTEntry(t))
       \o InputIds(LAMBDA t : Pass!IsDefined(t) /\ world.targets[t].export) \o Objects
       \o InputIds(LAMBDA t : Pass!IsUndefined(t) /\ t \in ReferencedDynAtoms)
  ELSE InputIds(LAMBDA t : Pass!IsDefined(t) /\ world.targets[t].global) \o Objects
       \o InputIds(LAMBDA t : Pass!IsUndefined(t))
SharedSymbols == InputIds(LAMBDA t : Pass!IsShared(t) /\ t \in ReferencedDynAtoms)

\* ExecutableWriter: what is copied is not referenced any more, but needed.
IsNeededTagRequired(t) == world.kind = "dynamic" /\ objectMap[t] # 0

\* Libraries are given with --as-needed.
Needed == {world.targets[t].lib : t \in {t \in 1 .. Inputs :
             Pass!IsShared(t) /\ (t \in ReferencedDynAtoms \/ IsNeededTagRequired(t))}}

\* HashSection::doPreFlight
HashSize(entries) ==
  LET buckets == CASE entries < 3 -> 1 [] entries < 17 -> 3 [] OTHER -> 17
  IN 4 * (2 + entries + buckets)

HasTable(table) == \E i \in ToSet(sections) : chunks[i].order = table

\* createDefaultEntries, the entries buildDynamicSymbolTable and doPreFlight
\* add, and the null entry.
DynamicSize(libraries) ==
  LET Arrays == {k \in 1 .. Len(outputs) :
                   outputs[k].name \in {Named("init_array"), Named("fini_array")}}
  IN 16 * (1 + 5 + (IF HasTable("reladyn") THEN 3 ELSE 0) + (IF HasTable("relaplt") THEN 4 ELSE 0)
             + libraries + 2 * Cardinality(Arrays))

BuildDynamicSymbolTable ==
  /\ phase = "sort" /\ world.kind # "static" /\ ~listed
  /\ listed' = TRUE
  /\ dynsym' = OwnSymbols \o SharedSymbols
  /\ needed' = Needed
  /\ chunks' = [i \in 1 .. Len(chunks) |->
       LET symbols == Len(dynsym')
           Sized(n) == [chunks[i] EXCEPT !.fsize = n, !.msize = n]
       IN IF chunks[i].kind # "table" THEN chunks[i]
          ELSE CASE chunks[i].order = "dynsym" -> Sized(24 * (1 + symbols))
                 [] chunks[i].order = "hash" -> Sized(HashSize(1 + symbols))
                 [] chunks[i].order = "dynamic" -> Sized(DynamicSize(Cardinality(needed')))
                 [] chunks[i].order = "dynstr" ->
                      Sized(chunks[i].fsize + NameSize * (symbols + Cardinality(needed')))
                 [] OTHER -> chunks[i]]
  /\ UNCHANGED <<world, phase, next, sections, outputs, segments, headers, used, cursor, assigned,
                 passVars>>

\* The rest of the writer has all sizes before it assigns addresses.
LayoutStep ==
  /\ phase # "pass"
  /\ phase = "sort" /\ world.kind # "static" => listed
  /\ Next
  /\ UNCHANGED <<passVars, writerVars>>

OutputNext == HandleReference \/ AddCreatedAtoms \/ BuildDynamicSymbolTable \/ LayoutStep
OutputSpec == OutputInit /\ [][OutputNext]_outputVars /\ WF_outputVars(OutputNext)

---------------------------------------------------------------------------
(* What the program finds when it follows its references. *)

Carries(x, kind, t) == IsMade(x) /\ Pass!Rel(kind, t) \in ToSet(Made(x).rels)

\* The word at x gets the address of t from the linker or the loader; a lazily
\* bound one leads to t if it starts at t's own entry.
HoldsAddress(x, t) ==
  \/ IsDefinedPlainly(t) /\ Carries(x, "ABS64", t)
  \/ ~Pass!IsDefined(t) /\ Carries(x, "GLOB_DAT", t)
  \/ Carries(x, "IRELATIVE", t)
  \/ Carries(x, "JUMP_SLOT", t) /\ Carries(x, "START", pltMap[t])
  \/ Pass!IsUndefined(t) /\ IsMade(x) /\ Made(x) = Pass!NullEntry

\* An entry of .plt jumps to what the word its first reference names holds.
JumpsTo(x, t) ==
  /\ IsMade(x) /\ Made(x).list = "plt"
  /\ \E kind \in {"JUMP_SLOT", "IRELATIVE"} : Carries(Made(x).rels[1].atom, kind, t)

Reaches(use, t, x) ==
  CASE use = "got" -> HoldsAddress(x, t)
    [] use = "tpoff" -> IsMade(x) /\ Made(x).rels = <<Pass!Rel("TPOFF64", t)>>
    [] use = "tlsgd" -> IsMade(x) /\ Made(x).rels = <<Pass!Rel("DTPMOD64", t),
                                                    Pass!Rel("DTPOFF64", t)>>
    [] use = "tlsdesc" -> IsMade(x) /\ Made(x).rels = <<Pass!Rel("TLSDESC", t)>>
    [] OTHER -> \/ x = t /\ (IsDefinedPlainly(t) \/ Pass!IsUndefined(t))
                \/ Carries(x, "COPY", x) /\ x = objectMap[t]
                \/ JumpsTo(x, t)

\* What the pass does not serve: the address of an IFUNC taken before it is
\* called, and what is listed for each machine.
Unserved(j) ==
  LET use == world.refs[j].use
      t == world.refs[j].target
      UsedBefore(uses) == \E i \in 1 .. j - 1 : world.refs[i] \in [use : uses, target : {t}]
      UsedAlso(other) == \E i \in 1 .. Len(refs) : world.refs[i] = [use |-> other, target |-> t]
  IN \/ use = "got" /\ Pass!Kind(t) = "resolver" /\ ~UsedBefore({"plain", "plt"})
     \/ use = "plain" /\ Pass!Kind(t) = "sharedOther"
     \/ Pass!X86 /\ use = "tpoff" /\ ~Pass!IsDefined(t)
     \/ ~Pass!X86 /\ \/ use = "got" /\ Pass!Kind(t) = "sharedCode" /\ UsedBefore({"plain"})
                     \/ use = "tlsdesc" /\ ~Pass!IsDefined(t)
                     \/ use = "tlsdesc" /\ UsedAlso("tpoff")
                     \/ use = "tpoff" /\ UsedAlso("tlsdesc")

\* The dynamic linker looks up in a library it has loaded what a relocation
\* names; writers of libraries forget those of what they copy.
SymbolsKnown ==
  /\ \A r \in MadeRelocations :
       RelocationTable(r.kind) # "none" /\ (IsMade(r.atom) \/ ~Pass!IsDefined(r.atom)) =>
         /\ r.atom \in ToSet(dynsym)
         /\ ~IsMade(r.atom) /\ Pass!IsShared(r.atom) => world.targets[r.atom].lib \in needed
  /\ \A t \in 1 .. Inputs :
       objectMap[t] # 0 /\ world.kind = "dynamic" => world.targets[t].lib \in needed

\* The address of the a-th atom; of a thread-local one, its place in the block.
AtomAddress(a) ==
  LET atom == world.atoms[a]
      before == {b \in 1 .. a : /\ world.atoms[b].name = atom.name
                                /\ world.atoms[b].perm = atom.perm
                                /\ world.atoms[b].file = atom.file}
      c == chunks[CHOOSE i \in SectionOf(atom) : TRUE]
  IN c.base + c.atoms[Cardinality(before)]
Position(i) == CHOOSE k \in 1 .. Len(created) : Pass!Added[k] = i
AddressOf(id) ==
  AtomAddress(IF IsMade(id) THEN Len(world.atoms) - Len(created) + Position(id - Inputs)
              ELSE world.targets[id].atom)

\* In the order of .rela.plt.
LazySlots == SelectSeq(Pass!Added, LAMBDA i : \E r \in ToSet(created[i].rels) :
                                                RelocationTable(r.kind) = "relaplt")

\* The loader puts its own words behind the one DT_PLTGOT points to; AArch64's
\* resolver takes a slot's place behind those for the index of its relocation
\* (IFUNCs of AArch64 have slots, but relocations in the other table).
LazyBinding ==
  LET start == (CHOOSE o \in ToSet(outputs) : o.name = Named("got_plt")).va
  IN /\ \A k \in 1 .. 3 : AddressOf(Pass!TheOne(<<"null", "got0", "got1">>[k])) = start + 8 * (k - 1)
     /\ Pass!X86 \/ (\A t \in 1 .. Inputs : Pass!Kind(t) = "resolver" => pltMap[t] = 0) =>
          \A k \in 1 .. Len(LazySlots) : AddressOf(Inputs + LazySlots[k]) = start + 24 + 8 * (k - 1)

\* X86_64RelocationPass.cpp and AArch64RelocationPass.cpp: whatever references
\* came before it and took entries from the same maps, a reference leads to
\* its target; the writer has told the dynamic linker the names and libraries
\* this takes, and the layout has put the words of lazy binding where the
\* dynamic linker reads and writes them.
ReferencesArrive ==
  phase = "done" =>
    /\ \A j \in 1 .. Len(refs) :
         Unserved(j) \/ Reaches(world.refs[j].use, world.refs[j].target, refs[j].target)
    /\ world.kind # "static" => SymbolsKnown
    /\ Pass!Has("plt0") => LazyBinding
=============================================================================
