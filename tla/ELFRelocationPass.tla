-------------------------- MODULE ELFRelocationPass --------------------------
(***************************************************************************)
(* X86_64RelocationPass.cpp and AArch64RelocationPass.cpp: what references *)
(* cannot reach directly gets an entry in .plt, .got or .got.plt or a copy *)
(* of an object in .bss, and the references are redirected to it.          *)
(*                                                                         *)
(* An atom is a number: first world.targets, then the atoms of `created'   *)
(* in the order in which the pass makes them.  A reference has a use:      *)
(*   plain    data, calls of AArch64, local-exec TLS                       *)
(*   plt      R_X86_64_PLT32                                               *)
(*   got      GOTPCREL and its like                                        *)
(*   tpoff    GOTTPOFF, TLSIE: an offset in the thread's block, from .got  *)
(*   tlsgd    R_X86_64_TLSGD: a module and an offset                       *)
(*   tlsdesc  R_AARCH64_TLSDESC: a descriptor                              *)
(***************************************************************************)
EXTENDS Integers, SequencesExt

VARIABLES
  world,      \* the link: machine, kind, and Seqs targets and refs
  nextRef,    \* index of the next reference
  refs,       \* Seq of [use, target]: the references as they are now
  created,    \* Seq of [list, section, size, rels]
  gotMap, pltMap, tlsMap, objectMap   \* [targets -> atoms], 0 if there is none

Targets == 1 .. Len(world.targets)
Kind(t) == world.targets[t].kind
IsDefined(t) == Kind(t) \in {"code", "data", "resolver", "tls"}
IsShared(t) == Kind(t) \in {"sharedCode", "sharedData", "sharedOther"}
IsUndefined(t) == Kind(t) = "undefined"

X86 == world.machine = "x86_64"
\* createX86_64RelocationPass: which of the two passes.
DynamicPass == world.kind # "static"

Init ==
  /\ nextRef = 1
  /\ refs = world.refs
  /\ created = <<>>
  /\ gotMap = [t \in Targets |-> 0]
  /\ pltMap = [t \in Targets |-> 0]
  /\ tlsMap = [t \in Targets |-> 0]
  /\ objectMap = [t \in Targets |-> 0]

---------------------------------------------------------------------------
(* The atoms it makes. *)

Rel(kind, atom) == [kind |-> kind, atom |-> atom]
Entry(list, section, size, rels) ==
  [list |-> list, section |-> section, size |-> size, rels |-> rels]

\* The k-th atom made from here.
New(k) == Len(world.targets) + Len(created) + k
Listed(list) == SelectSeq([i \in 1 .. Len(created) |-> i], LAMBDA i : created[i].list = list)
Has(list) == Listed(list) # <<>>
TheOne(list) == Len(world.targets) + Listed(list)[1]

NullEntry == Entry("null", "got_plt", 8, <<>>)

\* getPLT0, if the next atom is the k-th: the null entry must come first.
PLT0Entries(k) ==
  IF Has("plt0") THEN <<>>
  ELSE LET p == IF Has("null") THEN k ELSE k + 1
       IN (IF Has("null") THEN <<>> ELSE <<NullEntry>>)
          \o <<Entry("plt0", "plt", IF X86 THEN 16 ELSE 32,
                     <<Rel("PC", New(p + 1)), Rel("PC", New(p + 2))>>),
               Entry("got0", "got_plt", 8, <<>>), Entry("got1", "got_plt", 8, <<>>)>>
PLT0(k) == IF Has("plt0") THEN TheOne("plt0") ELSE IF Has("null") THEN New(k) ELSE New(k + 1)

Redirect(atom) == refs' = [refs EXCEPT ![nextRef].target = atom]
Keep == UNCHANGED <<refs, created, gotMap, pltMap, tlsMap, objectMap>>

\* One slot of its own in a map of targets.
InMap(map, t, entry) ==
  IF map[t] # 0 THEN UNCHANGED <<created, map>> /\ Redirect(map[t])
  ELSE /\ created' = Append(created, entry)
       /\ map' = [map EXCEPT ![t] = New(1)]
       /\ Redirect(New(1))

\* getIFUNCPLTEntry
GetIFUNCPLTEntry(t) ==
  IF pltMap[t] # 0 THEN Redirect(pltMap[t]) /\ UNCHANGED <<created, gotMap, pltMap>>
  ELSE /\ created' = created \o
            <<Entry("got", "got_plt", 8, <<Rel("IRELATIVE", t)>>),
              Entry("plt", "plt", 16, <<Rel("PC", New(1))>>)>>
       /\ gotMap' = [gotMap EXCEPT ![t] = New(1)]
       /\ pltMap' = [pltMap EXCEPT ![t] = New(2)]
       /\ Redirect(New(2))

\* getPLTEntry: the slot starts at the entry's second instruction (x86_64) or
\* at PLT0, and the entry asks with the index of its slot's relocation.
GetPLTEntry(t) ==
  IF pltMap[t] # 0 THEN Redirect(pltMap[t]) /\ UNCHANGED <<created, gotMap, pltMap>>
  ELSE /\ created' = created \o
            <<Entry("got", "got_plt", 8,
                    <<Rel("JUMP_SLOT", t), Rel("START", IF X86 THEN New(2) ELSE PLT0(3))>>),
              Entry("plt", "plt", 16,
                    <<Rel("PC", New(1)), Rel("GOTRELINDEX", New(1)), Rel("PC", PLT0(3))>>)>>
            \o PLT0Entries(3)
       /\ gotMap' = [gotMap EXCEPT ![t] = New(1)]
       /\ pltMap' = [pltMap EXCEPT ![t] = New(2)]
       /\ Redirect(New(2))

\* getGOT and getSharedGOT
GetGOT(t) ==
  InMap(gotMap, t, Entry("got", "got", 8,
                         <<Rel(IF IsDefined(t) THEN "ABS64" ELSE "GLOB_DAT", t)>>))
  /\ UNCHANGED pltMap

\* getGOTTPOFF, getGOTTPREL
GetGOTTPOFF(t) ==
  InMap(gotMap, t, Entry("got", "got", 8, <<Rel("TPOFF64", t)>>)) /\ UNCHANGED pltMap

GetNullGOT ==
  IF Has("null") THEN Redirect(TheOne("null")) /\ UNCHANGED created
  ELSE created' = Append(created, NullEntry) /\ Redirect(New(1))

\* getObjectEntry: the atom is its relocation's own target; it has t's name.
GetObjectEntry(t) ==
  InMap(objectMap, t, Entry("object", "bss", 8, <<Rel("COPY", New(1))>>))

\* Broken: as in GetGOTTPOFF, one map for all that is in .got.
GetTLSGdInGotMap(t) ==
  InMap(gotMap, t, Entry("tls", "got", 16, <<Rel("DTPMOD64", t), Rel("DTPOFF64", t)>>))
  /\ UNCHANGED tlsMap

\* getTLSGdGOTEntry
GetTLSGdGOTEntry(t) ==
  InMap(tlsMap, t, Entry("tls", "got", 16, <<Rel("DTPMOD64", t), Rel("DTPOFF64", t)>>))
  /\ UNCHANGED gotMap

\* getTLSDESCPLTEntry: a descriptor in .got.plt, and an entry nobody refers to.
GetTLSDESCPLTEntry(t) ==
  IF gotMap[t] # 0 THEN Redirect(gotMap[t]) /\ UNCHANGED <<created, gotMap, pltMap>>
  ELSE /\ created' = created \o
            <<Entry("tls", "got_plt", 16, <<Rel("TLSDESC", t)>>),
              Entry("plt", "plt", 32, [k \in 1 .. 4 |-> Rel("PC", New(1))])>>
       /\ gotMap' = [gotMap EXCEPT ![t] = New(1)]
       /\ pltMap' = [pltMap EXCEPT ![t] = New(2)]
       /\ Redirect(New(1))

---------------------------------------------------------------------------
(* handleReference, for the next reference. *)

Use(use) == nextRef <= Len(refs) /\ refs[nextRef].use = use
Target == refs[nextRef].target
Step == nextRef' = nextRef + 1 /\ UNCHANGED world

HandleIFUNC ==
  /\ IF Kind(Target) = "resolver" THEN GetIFUNCPLTEntry(Target)
     ELSE UNCHANGED <<refs, created, gotMap, pltMap>>
  /\ UNCHANGED <<tlsMap, objectMap>>

HandlePlain ==
  /\ Use("plain") /\ Step
  /\ CASE DynamicPass /\ Kind(Target) = "sharedData" ->
            GetObjectEntry(Target) /\ UNCHANGED <<gotMap, pltMap, tlsMap>>
       [] DynamicPass /\ Kind(Target) = "sharedCode" ->
            GetPLTEntry(Target) /\ UNCHANGED <<tlsMap, objectMap>>
       [] OTHER -> HandleIFUNC

\* Static code needs no PLT, but for IFUNCs: the reference becomes a PC32.
HandlePLT32 ==
  /\ Use("plt") /\ X86 /\ Step
  /\ IF DynamicPass /\ (IsShared(Target) \/ IsUndefined(Target))
     THEN GetPLTEntry(Target) /\ UNCHANGED <<tlsMap, objectMap>>
     ELSE HandleIFUNC

\* AArch64 and static code take an undefined atom for null.
HandleGOT ==
  /\ Use("got") /\ Step
  /\ CASE IsUndefined(Target) /\ ~(X86 /\ DynamicPass) ->
            GetNullGOT /\ UNCHANGED <<gotMap, pltMap, tlsMap, objectMap>>
       [] IsDefined(Target) -> GetGOT(Target) /\ UNCHANGED <<tlsMap, objectMap>>
       [] ~IsDefined(Target) /\ DynamicPass /\ (X86 \/ IsShared(Target)) ->
            GetGOT(Target) /\ UNCHANGED <<tlsMap, objectMap>>
       [] OTHER -> Keep

HandleGOTTPOFF ==
  /\ Use("tpoff") /\ Step
  /\ IF IsDefined(Target) \/ (~X86 /\ IsShared(Target))
     THEN GetGOTTPOFF(Target) /\ UNCHANGED <<tlsMap, objectMap>>
     ELSE Keep

HandleTLSGd ==
  /\ Use("tlsgd") /\ X86 /\ Step
  /\ GetTLSGdGOTEntry(Target)
  /\ UNCHANGED <<pltMap, objectMap>>

HandleTLSDESC ==
  /\ Use("tlsdesc") /\ ~X86 /\ Step
  /\ IF IsDefined(Target)
     THEN GetTLSDESCPLTEntry(Target) /\ UNCHANGED <<tlsMap, objectMap>>
     ELSE Keep

HandleReference == \/ HandlePlain \/ HandlePLT32 \/ HandleGOT \/ HandleGOTTPOFF
                   \/ HandleTLSGd \/ HandleTLSDESC

\* perform: the order in which what was made is added to the link; by it
\* OrderPass sorts, behind all other files.
Added ==
  FlattenSeq([k \in 1 .. 8 |->
    Listed(<<"plt0", "plt", "null", "got0", "got1", "got", "tls", "object">>[k])])
=============================================================================
