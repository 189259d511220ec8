----------------------------- MODULE MCELFOutput -----------------------------
(***************************************************************************)
(* Small links for ELFOutput, with the sizes of 64-bit ELF.                *)
(***************************************************************************)
EXTENDS ELFOutput

Sizes == [symtab |-> 72, strtab |-> 13, shstrtab |-> 29, shdr |-> 0, ehframehdr |-> 8,
          dynamic |-> 16, dynstr |-> 1, dynsym |-> 24, hash |-> 0, interp |-> 28]

Atom(base, tag, file, ct, perm, size, align) ==
  [name |-> [base |-> base, tag |-> tag], file |-> file, ct |-> ct, perm |-> perm,
   size |-> size, align |-> align, mod |-> 0, relocs |-> <<>>]
Text(tag, file, size, align) == Atom("text", tag, file, "code", "RX", size, align)
Const(size, align) == Atom("rodata", "", 1, "constant", "R", size, align)
Data(file, size, align) == Atom("data", "", file, "data", "RW", size, align)
Bss(file, size, align) == Atom("bss", "", file, "zerofill", "RW", size, align)
TData(file, size, align) == Atom("tdata", "", file, "threaddata", "RW", size, align)
TBss(file, size, align) == Atom("tbss", "", file, "threadzerofill", "RW", size, align)
Note == Atom("note", "", 1, "ronote", "R", 20, 4)
Debug == Atom("debug_info", "", 1, "noalloc", "none", 33, 1)
EhFrame == Atom("eh_frame", "", 1, "code", "R", 24, 8)

Link(atoms, kind, magic) ==
  [atoms |-> atoms, kind |-> kind, magic |-> magic, alignSegments |-> TRUE,
   mergeROData |-> TRUE, strip |-> FALSE,
   machine |-> "x86_64", targets |-> <<>>, refs |-> <<>>]

Kinds == {"static", "dynamic", "shared"}
Magics == {"default", "nmagic", "omagic"}

\* Text and data of two files, whose sizes are around a page with headers.
Plain == {
  Link(<<Text("", 1, n, 16), Data(1, 8, 8), Text("_a", 2, 5, a), Bss(1, 40, 32), Const(3, 4),
         Data(2, m, 4), Bss(2, 5000, 1)>>, k, g) :
    n \in {1, 3800, 4096}, m \in {0, 4092}, a \in {1, 16, 4096}, k \in Kinds, g \in Magics}

Options == {
  [Link(<<Text("", 1, n, 16), EhFrame, Note, Const(100, 4), Debug, Data(1, 16, 16)>>, k, "default")
     EXCEPT !.alignSegments = b, !.mergeROData = m, !.strip = s] :
    n \in {10, 3600, 4000}, k \in Kinds, b, m, s \in BOOLEAN}

\* Alignments far above a page split the first segment into slices.
Slices == {
  Link(<<Text("", 1, n, 16), Const(m, a), Note, Data(1, 16, 16), Bss(1, 64, 64)>>, k, "default") :
    n \in {10, 4000, 5000}, m \in {100, 4096}, a \in {4096, 16384, 32768}, k \in Kinds}

\* Thread-local data of two files, and data after it.
Threads == {
  Link(<<Text("", 1, 10, 16), TBss(1, t, 8), TData(1, n, a), TData(2, 4, 4), TBss(2, 16, 4),
         Data(1, 8, 8), Bss(1, 8, 8)>>, k, g) :
    t \in {4, 24, 5000}, n \in {3, 4092}, a \in {1, 64}, k \in Kinds, g \in {"default"}}

---------------------------------------------------------------------------
(* References, to targets of all kinds. *)

GotFile == 9
GlobalOffsetTable == Atom("got_plt", "", GotFile, "got", "RW", 0, 8)
DynamicAtom == Atom("dynamic", "", GotFile, "data", "RW", 0, 1)

\* What the pass finds: a function, an IFUNC, two thread-local variables, what
\* two libraries have, and a weak undefined symbol.
Target(kind, lib, atom) ==
  [kind |-> kind, lib |-> lib, global |-> TRUE, export |-> FALSE, atom |-> atom]
Targets == <<
  Target("code", 0, 3), Target("resolver", 0, 4), Target("tls", 0, 5), Target("tls", 0, 6),
  Target("sharedCode", 1, 0), Target("sharedData", 2, 0), Target("sharedOther", 1, 0),
  Target("undefined", 0, 0), Target("sharedOther", 1, 0), Target("sharedCode", 1, 0)>>

\* How each of them is referred to; the seventh is thread-local.
Functional == {"plain", "plt", "got"}
UsesOf == <<Functional, Functional, {}, {"plain", "tpoff", "tlsgd", "tlsdesc"},
            Functional, {"plain", "got"}, {"tpoff", "tlsgd", "tlsdesc"}, Functional, Functional, {}>>
MachineUses(machine) ==
  IF machine = "x86_64" THEN {"plain", "plt", "got", "tpoff", "tlsgd"}
  ELSE {"plain", "got", "tpoff", "tlsdesc"}
References(machine, kind) ==
  {r \in [use : MachineUses(machine), target : 1 .. Len(Targets)] :
     /\ r.use \in UsesOf[r.target]
     /\ kind = "static" => Targets[r.target].lib = 0}

Refer(machine, kind, rs) ==
  [Link(<<GlobalOffsetTable, IF kind = "static" THEN Data(1, 4, 4) ELSE DynamicAtom,
          Text("", 1, 40, 16), Text("_ifunc", 1, 12, 4), TData(1, 4, 4), TBss(1, 8, 8),
          Data(1, 8, 8)>>, kind, "default")
     EXCEPT !.machine = machine, !.targets = Targets, !.refs = rs]

\* Two references to the same target, and one between two calls into a library.
Call(target) == [use |-> "plain", target |-> target]
Pairs == UNION {UNION {
  {Refer(m, k, <<r, [r EXCEPT !.use = u]>>) : u \in MachineUses(m) \cap UsesOf[r.target]} :
    r \in References(m, k)} : m \in {"x86_64", "aarch64"}, k \in Kinds}
Between == UNION {
  {Refer(m, k, <<Call(5), r, Call(10)>>) : r \in References(m, k)} :
    m \in {"x86_64", "aarch64"}, k \in {"dynamic", "shared"}}

SmallWorlds == Plain \cup Options \cup Slices \cup Threads \cup Pairs \cup Between

\* Three files with uninitialized thread-local data.
TbssWorlds == {
  Link(<<Text("", 1, m, 16), TData(1, 16, 4), TBss(1, 16, 4), TBss(2, 16, 4),
         TBss(3, n, 4)>>, "static", "default") : n \in {4, 16}, m \in {10, 3900}}
=============================================================================
