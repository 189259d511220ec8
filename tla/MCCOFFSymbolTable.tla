------------------------- MODULE MCCOFFSymbolTable -------------------------
(***************************************************************************)
(* Small links for COFFSymbolTable: each set of worlds is every way to     *)
(* fill a few object files with a few names.                               *)
(***************************************************************************)
EXTENDS COFFSymbolTable, TLC

CONSTANTS x, y, impx, xx, yy, base, o1, o2, o3, o4, a1, a2

\* impx is __imp_x, and xx and yy are mangled forms of x and of y.
MCNames == {x, y, impx, xx, yy, base}
MCImpBase == [n \in {impx} |-> x]
MCMangled == [n \in MCNames |-> CASE n = x -> {xx} [] n = y -> {yy} [] OTHER -> {}]

\* The i-th symbol of file f: name, kind, and size or default.
Sym(f, i, n, k, sz, to) ==
  [file |-> f, id |-> i, name |-> n, kind |-> k, size |-> sz, to |-> to]

\* A file's symbols from a list of <<name, kind, size, to>>.
Table(f, l) == [i \in DOMAIN l |-> Sym(f, i, l[i][1], l[i][2], l[i][3], l[i][4])]

Undef(n) == <<n, "undef", 0, None>>
Weak(n, d) == <<n, "undef", 0, d>>
Def(n, k) == <<n, k, 0, None>>
Common(n, sz) == <<n, "common", sz, None>>

\* Archive a's index: the definitions of its members, o3 or o4.
IndexOf(a, members, syms) ==
  LET Defined(o) == IF o \in members THEN SelectSeq(syms[o], IsDefined) ELSE <<>>
      l == Defined(o3) \o Defined(o4)
  IN  [i \in DOMAIN l |-> Sym(a, i, l[i].name, "lazy", 0, l[i].file)]

World(cmd, lists, dirs1, m1, m2, opt) ==
  LET syms == [o \in Objects |-> Table(o, lists[o])]
  IN  [cmd |-> cmd,
       syms |-> syms,
       dirs |-> [o \in Objects |-> IF o \in DOMAIN dirs1 THEN dirs1[o] ELSE <<>>],
       index |-> [a \in Archives |-> IndexOf(a, IF a = a1 THEN m1 ELSE m2, syms)],
       include |-> opt.include, exports |-> opt.exports, alts |-> opt.alts,
       entry |-> opt.entry, force |-> opt.force, bitcode |-> {}, emits |-> <<>>]

NoOptions == [include |-> <<>>, exports |-> <<>>, alts |-> {}, entry |-> None,
              force |-> FALSE]

Lib(f) == [opt |-> "defaultlib", file |-> f, from |-> None, to |-> None]
Alt(n, m) == [opt |-> "alternatename", file |-> None, from |-> n, to |-> m]
ExportOf(n) == [opt |-> "export", file |-> None, from |-> n, to |-> None]
Incl(n) == [opt |-> "include", file |-> None, from |-> n, to |-> None]

-----------------------------------------------------------------------------
(* Definitions of one name from everywhere: two objects on the command     *)
(* line, a member of an archive and an object named by a directive.        *)
Entries(n) == {<<>>, <<Undef(n)>>, <<Def(n, "regular")>>, <<Def(n, "comdat")>>,
               <<Common(n, 1)>>, <<Common(n, 2)>>, <<Def(n, "absolute")>>,
               <<Def(n, "import")>>}

ConflictWorlds ==
  {World(<<o1, a1, o2>>, (o1 :> e1) @@ (o2 :> e2) @@ (o3 :> e3) @@ (o4 :> e4),
         (o1 :> <<Lib(o4)>>), {o3}, {}, NoOptions)
     : e1 \in Entries(x), e2 \in Entries(x), e3 \in Entries(x),
       e4 \in Entries(x) \ {<<Common(x, 1)>>, <<Def(x, "absolute")>>, <<Def(x, "import")>>}}

-----------------------------------------------------------------------------
(* Two archives whose members need each other's names, met before or after *)
(* the references; a library named twice; weak externals in the objects    *)
(* that come before the libraries.                                         *)
Needs == {<<Undef(x)>>, <<Weak(x, y), Undef(y)>>, <<Undef(y), Weak(x, y)>>, <<Undef(y), Undef(x)>>,
          <<Def(x, "comdat"), Undef(y)>>}
Provides == {<<Def(x, "comdat")>>, <<Def(x, "comdat"), Undef(y)>>, <<Undef(x), Def(y, "comdat")>>,
             <<Def(x, "comdat"), Def(y, "comdat")>>}
Orders == {<<a1, o1, o2>>, <<o1, a1, o2>>, <<o1, o2>>}

ArchiveWorlds ==
  {World(c, (o1 :> e1) @@ (o2 :> e2) @@ (o3 :> e3) @@ (o4 :> e4),
         (o1 :> <<Lib(a2)>>) @@ (o2 :> <<Lib(a1), Lib(a2)>>), {o3}, {o4}, NoOptions)
     : c \in Orders, e1 \in Needs, e2 \in {<<>>} \cup Needs, e3 \in Provides, e4 \in Provides}

-----------------------------------------------------------------------------
(* Options: an entry point and an export that exist under mangled names    *)
(* only, /include, /alternatename, a library a directive names.            *)
OptionSets ==
  {[include |-> i, exports |-> e, alts |-> a, entry |-> n, force |-> f]
     : i \in {<<>>, <<y>>}, e \in {<<>>, <<x, y>>},
       a \in {{}, {<<x, y>>}, {<<impx, yy>>}}, n \in {None, x}, f \in BOOLEAN}

OptionWorlds ==
  {World(<<o1, a1>>, (o1 :> e1) @@ (o2 :> <<>>) @@ (o3 :> e3) @@ (o4 :> e4),
         (o1 :> d), {o3}, {o4}, o)
     : e1 \in {<<Undef(impx)>>, <<Def(x, "regular"), Undef(impx)>>, <<Undef(y)>>},
       e3 \in {<<Def(xx, "regular")>>, <<Def(xx, "regular"), Undef(impx)>>},
       e4 \in {<<Def(yy, "regular")>>, <<Def(y, "import"), Undef(x)>>},
       d \in {<<>>, <<Lib(a2)>>, <<Lib(a2), ExportOf(y), Alt(y, xx)>>, <<Incl(xx)>>, <<Alt(x, xx), Alt(y, xx)>>},
       o \in OptionSets}

(* Two bitcode files, one a member, between an object and a member loaded  *)
(* for what the code generator adds (as __chkstk, here yy); a definition   *)
(* in bitcode may be wanted from outside directly, by a weak external, by  *)
(* an entry point under its mangled name, or not at all.                   *)
AsBitcode(b) == [b EXCEPT !.kind = CASE @ = "regular" -> "bitcode" [] @ = "comdat" -> "bitcomdat"
                                     [] OTHER -> @]
WithBitcode(w, fs, emitted) ==
  [w EXCEPT !.bitcode = fs, !.emits = emitted,
            !.syms = [o \in Objects |-> IF o \notin fs THEN @[o]
                                        ELSE [i \in DOMAIN @[o] |-> AsBitcode(@[o][i])]]]

BitcodeEntries == {<<Def(x, "regular")>>, <<Def(x, "comdat"), Undef(y)>>, <<Def(xx, "regular"), Undef(x)>>}

BitcodeWorlds ==
  {WithBitcode(World(c, (o1 :> e1) @@ (o2 :> e2) @@ (o3 :> e3) @@ (o4 :> <<Def(yy, "regular")>>),
                     <<>>, {o3, o4}, {}, [NoOptions EXCEPT !.entry = n]), b, m)
     : c \in {<<o1, o2, a1>>, <<o2, a1, o1>>},
       e1 \in Entries(x) \cup {<<Weak(x, y), Undef(y)>>, <<Undef(y), Weak(x, y)>>},
       e2 \in BitcodeEntries,
       e3 \in {<<Def(y, "regular")>>, <<Def(y, "regular"), Def(x, "comdat")>>, <<Def(y, "regular"), Undef(x)>>},
       n \in {None, x}, b \in {{o2}, {o2, o3}, {o2, o4}},
       m \in {<<>>, <<<<yy, "undef">>>>, <<<<impx, "comdat">>>>}}

(* Bitcode among common and regular symbols of its name; a file that       *)
(* defines __ImageBase; a constant that an archive offers too.             *)
MixedWorlds ==
  {WithBitcode(World(c, (o1 :> e1) @@ (o2 :> <<Def(x, "regular")>>) @@ (o3 :> <<Def(yy, "comdat")>>) @@ (o4 :> e4),
                     <<>>, {o3}, {}, NoOptions), {o2}, m)
     : c \in {<<o1, o2, o4, a1>>, <<o2, o1, o4, a1>>},
       e1 \in {<<Common(x, 1)>>, <<Def(base, "import")>>, <<Def(base, "regular"), Def(x, "comdat")>>},
       e4 \in {<<Def(x, "regular")>>, <<Common(x, 2)>>, <<Undef(x)>>},
       m \in {<<>>, <<<<yy, "comdat">>>>}}

LinkWorlds == ConflictWorlds \cup ArchiveWorlds \cup OptionWorlds \cup BitcodeWorlds \cup MixedWorlds

-----------------------------------------------------------------------------
(* The links of the run that shows a disagreement: bitcode that is wanted  *)
(* as __imp_x, by an /alternatename, by a member loaded late.              *)
Members(l1, l2, l3, opt, m) ==
  WithBitcode(World(<<o1, o2, a1>>, (o1 :> l1) @@ (o2 :> l2) @@ (o3 :> l3) @@ (o4 :> <<>>),
                    <<>>, {o3}, {}, opt), {o2}, m)

LeftWorlds ==
  {Members(<<Undef(impx)>>, <<Def(x, "regular")>>, <<>>, NoOptions, <<>>),
   Members(<<Undef(y)>>, <<Def(x, "regular")>>, <<>>, [NoOptions EXCEPT !.alts = {<<y, x>>}], <<>>),
   Members(<<>>, <<Def(x, "regular")>>, <<Def(yy, "regular"), Undef(x)>>, NoOptions, <<<<yy, "undef">>>>)}
=============================================================================
