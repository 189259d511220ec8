---------------------------- MODULE MCCOFFWriter ----------------------------
(***************************************************************************)
(* Small links for COFFWriter, with the real sizes of pages and entries.   *)
(***************************************************************************)
EXTENDS COFFWriter

Names == <<".bss", ".data", ".longname", ".rdata", ".text", ".text$x">>
SplitNames == [n \in ToSet(Names) |-> IF n = ".text$x" THEN ".text" ELSE n]

Rel(at, abs, base) == [at |-> at, abs |-> abs, base |-> base]
Sec(sec, size, align, relocs) ==
  [sec |-> sec, size |-> size, align |-> align, data |-> sec # ".bss",
   code |-> sec \in {".text", ".text$x"}, relocs |-> relocs]
Imp(dll, name, ext, thunk) == [dll |-> dll, name |-> name, ext |-> ext, thunk |-> thunk]
Exp(name, ext, ordinal, noname) ==
  [name |-> name, ext |-> ext, ordinal |-> ordinal, noname |-> noname, sym |-> name]
Sym(chunk, value, long) == [chunk |-> chunk, value |-> value, long |-> long]

\* Sizes around alignments, pages and file alignment.
Layouts == {
  <<Sec(s, n1, 1, <<>>), Sec(t, n2, a, <<>>), Sec(".bss", n3, 4, <<>>)>> :
    s \in {".text", ".bss"}, t \in {".text$x", ".bss", ".longname"},
    n1 \in {0, 3, 512}, n2 \in {0, 1, 4096}, n3 \in {0, 4097}, a \in {1, 16, 4096}}

Plain == [is64 |-> TRUE, debug |-> FALSE, relocatable |-> FALSE, merge |-> <<>>,
          chunks |-> <<>>, locals |-> 0, imports |-> <<>>, delayed |-> {},
          exports |-> <<>>, symbols |-> <<>>]

\* /merge puts data behind or before other data, and .bss into .data.
Merges == {<<>>, [n \in {".bss"} |-> ".data"], [n \in {".rdata"} |-> ".data"]}

LayoutWorlds == {[Plain EXCEPT !.chunks = c] : c \in Layouts}
MergeWorlds == {
  [Plain EXCEPT !.chunks = <<Sec(".data", 5, 1, <<>>), Sec(".rdata", n, a, <<>>),
                             Sec(".bss", u, 32, <<>>), Sec(".data", n, a, <<>>)>>,
                !.merge = m, !.debug = d,
                !.symbols = <<Sym(1, 2, FALSE), Sym(3, 0, TRUE), Sym(4, 0, FALSE)>>] :
    n \in {1, 512, 4096}, a \in {1, 4}, u \in {0, 600}, m \in Merges, d \in BOOLEAN}

\* A last section without data, beside which /debug puts the symbol table.
UninitializedLast == {
  [Plain EXCEPT !.chunks = <<Sec(".data", n, 1, <<>>),
                             [Sec(".rdata", 600, 1, <<>>) EXCEPT !.data = FALSE]>>,
                !.debug = d, !.symbols = <<Sym(1, 0, FALSE)>>] :
    n \in {5, 4096}, d \in BOOLEAN}

\* Relocations over two pages, not in their order, and in two sections.
RelocWorlds == {
  [Plain EXCEPT !.is64 = b, !.relocatable = r, !.locals = l,
                !.chunks = <<Sec(".text", 4100, 16, <<Rel(4092, TRUE, FALSE),
                                                      Rel(8, FALSE, FALSE),
                                                      Rel(16, x, y)>>),
                             Sec(".data", 8, 8, <<Rel(0, y, x)>>),
                             Sec(".text$x", n, 1, <<Rel(0, TRUE, FALSE)>>)>>] :
    b, r, x, y \in BOOLEAN, l \in {0, 2}, n \in {8, 4096}}

ImportWorlds == {
  [Plain EXCEPT !.is64 = b, !.imports = i, !.delayed = d, !.relocatable = b,
                !.chunks = c, !.debug = TRUE] :
    b \in BOOLEAN, d \in {{}, {2}, {1, 2}},
    c \in {<<>>, <<Sec(".data", 3, 1, <<>>), Sec(".text", 5, 1, <<>>)>>},
    i \in {<<Imp(2, 1, TRUE, FALSE)>>,
           <<Imp(2, 3, TRUE, FALSE), Imp(1, 5, FALSE, FALSE), Imp(2, 2, FALSE, FALSE),
             Imp(1, 4, TRUE, FALSE)>>}}
  \cup {[Plain EXCEPT !.imports = <<Imp(1, 2, TRUE, TRUE), Imp(1, 1, TRUE, TRUE)>>,
                      !.chunks = <<Sec(".text", 5, 1, <<>>)>>,
                      !.relocatable = TRUE, !.delayed = d] : d \in {{}, {1}}}

ExportLists == {
  <<Exp(1, 3, o1, FALSE), Exp(2, 2, o2, n), Exp(1, 4, 0, FALSE), Exp(3, 1, 0, FALSE)>> :
    o1 \in {0, 1, 2}, o2 \in {0, 2, 7}, n \in BOOLEAN}
ExportWorlds == {[Plain EXCEPT !.exports = e, !.chunks = <<Sec(".text", 5, 1, <<>>)>>] :
                   e \in ExportLists}

SmallWorlds == LayoutWorlds \cup MergeWorlds \cup UninitializedLast \cup RelocWorlds
                 \cup ImportWorlds \cup ExportWorlds
=============================================================================
