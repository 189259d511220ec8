--------------------------- MODULE COFFLiveChunks ---------------------------
(***************************************************************************)
(* What the PE/COFF writer does with the section chunks of the resolved    *)
(* object files before it lays them out: Writer::markLive (COFF/Writer.cpp *)
(* 117) marks those that are reachable, doICF (COFF/ICF.cpp) folds         *)
(* identical COMDAT chunks into one, and createSections (Writer.cpp:178)   *)
(* leaves out the chunks that are not live.                                *)
(*                                                                         *)
(* A record `link` describes the chunks, in the order of                   *)
(* SymbolTable::getChunks.  A step is one iteration of an innermost loop.  *)
(***************************************************************************)
EXTENDS Integers, Sequences

CONSTANTS
  NumChunks,  \* chunks are 1 .. NumChunks
  Symbols,    \* what relocations refer to, already resolved by repl()
  Contents,   \* header, data, and type and place of each relocation
  Links       \* the links considered

Chunk == 1 .. NumChunks

\* The chunk of a symbol that is not a DefinedRegular.
NoChunk == 0

(* comdat, code: the characteristics of each chunk; relocs: the symbols    *)
(* its relocations refer to; children: its associative sections; chunk and *)
(* value: where each symbol is; roots: the symbols of Config->GCRoot;      *)
(* doGC and icf: the options /opt:noref and /opt:lldicf.                   *)
ASSUME LinkAssumption ==
  /\ NumChunks \in Nat
  /\ \A l \in Links :
       /\ l.comdat \in [Chunk -> BOOLEAN] /\ l.code \in [Chunk -> BOOLEAN]
       /\ l.content \in [Chunk -> Contents]
       /\ l.relocs \in [Chunk -> Seq(Symbols)]
       /\ l.children \in [Chunk -> Seq(Chunk)]
       /\ l.chunk \in [Symbols -> Chunk \cup {NoChunk}]
       /\ l.value \in [Symbols -> Nat]
       /\ l.roots \subseteq Symbols
       /\ l.doGC \in BOOLEAN /\ l.icf \in BOOLEAN

VARIABLES
  link,
  phase,  \* the loop at hand
  live,   \* chunks with Live set
  ptr,    \* SectionChunk::Ptr
  roots,  \* members of GCRoot that markLive has yet to visit
  pos,    \* the chunk a loop over getChunks() is at
  work,   \* Worklist
  syms,   \* relocations of the popped chunk yet to follow
  kids,   \* its associative sections yet to mark
  table,  \* Set of doICF
  redo    \* Redo of doICF

marking == <<roots, work, syms, kids>>
folding == <<table, redo>>
vars == <<link, phase, live, ptr, pos, marking, folding>>
-----------------------------------------------------------------------------
\* DefinedRegular::getChunk, through the Ptr of the chunk it was made with.
ChunkOf(s) == IF link.chunk[s] = NoChunk THEN NoChunk ELSE ptr[link.chunk[s]]

IsChild(c) == \E p \in Chunk : \E i \in DOMAIN link.children[p] : link.children[p][i] = c

\* SectionChunk::isRoot
IsRoot(c) == ~link.comdat[c] /\ ~link.code[c] /\ ~IsChild(c)

\* (broken) Symbols of one chunk are taken to be alike, whatever their values.
SameTargetNoValue(s, t) ==
  \/ s = t
  \/ ChunkOf(s) # NoChunk /\ ChunkOf(s) = ChunkOf(t)

\* Two relocations point to the same location, after the folding so far.
SameTarget(s, t) ==
  \/ s = t
  \/ /\ ChunkOf(s) # NoChunk /\ ChunkOf(s) = ChunkOf(t)
     /\ link.value[s] = link.value[t]

\* (broken) Associative sections are not looked at.
EqualsNoChildren(a, b) ==
  /\ link.content[a] = link.content[b]
  /\ Len(link.relocs[a]) = Len(link.relocs[b])
  /\ \A i \in DOMAIN link.relocs[a] : SameTarget(link.relocs[a][i], link.relocs[b][i])

(* SectionChunk::equals: same header, data, associative sections and       *)
(* relocations.                                                            *)
Equals(a, b) ==
  LET ka == link.children[a]
      kb == link.children[b]
  IN  /\ link.content[a] = link.content[b]
      /\ Len(link.relocs[a]) = Len(link.relocs[b]) /\ Len(ka) = Len(kb)
      /\ \A i \in DOMAIN ka : ptr[ka[i]] = ptr[kb[i]]
      /\ \A i \in DOMAIN link.relocs[a] :
           SameTarget(link.relocs[a][i], link.relocs[b][i])

\* Mark a chunk live and push it, unless it is.
Mark(c) ==
  IF c = NoChunk \/ c \in live
  THEN UNCHANGED <<live, work>>
  ELSE live' = live \cup {c} /\ work' = Append(work, c)

FirstPhase == IF link.doGC THEN "roots" ELSE IF link.icf THEN "fold" ELSE "done"
-----------------------------------------------------------------------------
Init ==
  /\ link \in Links
  /\ phase = FirstPhase
  /\ live = {}
  /\ ptr = [c \in Chunk |-> c]
  /\ roots = link.roots
  /\ pos = 1
  /\ work = <<>> /\ syms = <<>> /\ kids = <<>>
  /\ table = {} /\ redo = FALSE

(* GCRoot is a set of pointers, visited in any order.                      *)
MarkRoot(s) ==
  /\ phase = "roots" /\ s \in roots
  /\ Mark(ChunkOf(s))
  /\ roots' = roots \ {s}
  /\ UNCHANGED <<link, phase, ptr, pos, syms, kids, folding>>

RootsDone ==
  /\ phase = "roots" /\ roots = {}
  /\ phase' = "scan"
  /\ UNCHANGED <<link, live, ptr, pos, marking, folding>>

\* (broken) Every chunk is a root.
ScanAll ==
  /\ phase = "scan" /\ pos <= NumChunks
  /\ Mark(pos)
  /\ pos' = pos + 1
  /\ UNCHANGED <<link, phase, ptr, roots, syms, kids, folding>>

ScanChunk ==
  /\ phase = "scan" /\ pos <= NumChunks
  /\ Mark(IF IsRoot(pos) THEN pos ELSE NoChunk)
  /\ pos' = pos + 1
  /\ UNCHANGED <<link, phase, ptr, roots, syms, kids, folding>>

ScanDone ==
  /\ phase = "scan" /\ pos > NumChunks
  /\ phase' = "mark"
  /\ pos' = 1
  /\ UNCHANGED <<link, live, ptr, marking, folding>>

PopChunk ==
  /\ phase = "mark" /\ syms = <<>> /\ kids = <<>> /\ work # <<>>
  /\ LET c == work[Len(work)]
     IN  syms' = link.relocs[c] /\ kids' = link.children[c]
  /\ work' = SubSeq(work, 1, Len(work) - 1)
  /\ UNCHANGED <<link, phase, live, ptr, roots, pos, folding>>

MarkSymbol ==
  /\ phase = "mark" /\ syms # <<>>
  /\ Mark(ChunkOf(Head(syms)))
  /\ syms' = Tail(syms)
  /\ UNCHANGED <<link, phase, ptr, roots, pos, kids, folding>>

\* (broken) Associative sections wait for a relocation of their own.
ChildSkipped ==
  /\ phase = "mark" /\ syms = <<>> /\ kids # <<>>
  /\ kids' = Tail(kids)
  /\ UNCHANGED <<link, phase, live, ptr, pos, roots, work, syms, folding>>

MarkChild ==
  /\ phase = "mark" /\ syms = <<>> /\ kids # <<>>
  /\ Mark(Head(kids))
  /\ kids' = Tail(kids)
  /\ UNCHANGED <<link, phase, ptr, roots, pos, syms, folding>>

MarkDone ==
  /\ phase = "mark" /\ syms = <<>> /\ kids = <<>> /\ work = <<>>
  /\ phase' = IF link.icf THEN "fold" ELSE "done"
  /\ UNCHANGED <<link, live, ptr, pos, marking, folding>>

\* (broken) The existing chunk is replaced, and the new one stays.
FoldExisting ==
  /\ phase = "fold" /\ pos <= NumChunks
  /\ IF ~link.comdat[pos] \/ pos \notin live THEN UNCHANGED <<live, ptr, folding>>
     ELSE IF \E e \in table : Equals(e, pos)
     THEN \E e \in table :
            /\ Equals(e, pos)
            /\ ptr' = [ptr EXCEPT ![e] = pos]
            /\ live' = live \ {e}
            /\ redo' = TRUE
            /\ UNCHANGED table
     ELSE /\ table' = table \cup {pos}
          /\ UNCHANGED <<live, ptr, redo>>
  /\ pos' = pos + 1
  /\ UNCHANGED <<link, phase, marking>>

(* One chunk of doICF's inner loop.  Chunks that were not equal when they  *)
(* were inserted may have become so: any of them is the one found.         *)
FoldChunk ==
  /\ phase = "fold" /\ pos <= NumChunks
  /\ IF ~link.comdat[pos] \/ pos \notin live THEN UNCHANGED <<live, ptr, folding>>
     ELSE IF \E e \in table : Equals(e, pos)
     THEN \E e \in table :
            /\ Equals(e, pos)
            /\ ptr' = [ptr EXCEPT ![pos] = ptr[e]]
            /\ live' = live \ {pos}
            /\ redo' = TRUE
            /\ UNCHANGED table
     ELSE /\ table' = table \cup {pos}
          /\ UNCHANGED <<live, ptr, redo>>
  /\ pos' = pos + 1
  /\ UNCHANGED <<link, phase, marking>>

\* (broken) One pass.
FoldOnce ==
  /\ phase = "fold" /\ pos > NumChunks
  /\ phase' = "done"
  /\ UNCHANGED <<link, live, ptr, pos, marking, folding>>

\* (broken) Redo is not reset.
FoldForever ==
  /\ phase = "fold" /\ pos > NumChunks
  /\ IF redo THEN pos' = 1 /\ table' = {} /\ UNCHANGED phase
             ELSE phase' = "done" /\ UNCHANGED <<pos, table>>
  /\ UNCHANGED <<link, live, ptr, redo, marking>>

FoldAgain ==
  /\ phase = "fold" /\ pos > NumChunks
  /\ IF redo THEN pos' = 1 /\ table' = {} /\ UNCHANGED phase
             ELSE phase' = "done" /\ UNCHANGED <<pos, table>>
  /\ redo' = FALSE
  /\ UNCHANGED <<link, live, ptr, marking>>

Terminated == phase = "done" /\ UNCHANGED vars

Next ==
  \/ \E s \in Symbols : MarkRoot(s)
  \/ RootsDone \/ ScanChunk \/ ScanDone
  \/ PopChunk \/ MarkSymbol \/ MarkChild \/ MarkDone
  \/ FoldChunk \/ FoldAgain
  \/ Terminated

(* One thread that never waits.                                            *)
Spec == Init /\ [][Next]_vars
FairSpec == Spec /\ WF_vars(Next)

\* createSections: the chunks that get a place in an output section.
Written == IF link.doGC THEN live ELSE Chunk
-----------------------------------------------------------------------------
(* Every variable has its type.                                            *)
TypeOK ==
  /\ phase \in {"roots", "scan", "mark", "fold", "done"}
  /\ live \subseteq Chunk
  /\ ptr \in [Chunk -> Chunk]
  /\ roots \subseteq Symbols
  /\ pos \in 1 .. NumChunks + 1
  /\ work \in Seq(Chunk) /\ syms \in Seq(Symbols) /\ kids \in Seq(Chunk)
  /\ table \subseteq Chunk
  /\ redo \in BOOLEAN

\* Where a chunk leads: the chunks of its relocations and its own children.
Succ(c) ==
  ({link.chunk[link.relocs[c][i]] : i \in DOMAIN link.relocs[c]} \ {NoChunk})
    \cup {link.children[c][i] : i \in DOMAIN link.children[c]}

\* S has all the roots, and all its members lead to.
RootChunks == {c \in Chunk : IsRoot(c)}
                \cup ({link.chunk[s] : s \in link.roots} \ {NoChunk})

Closed(S) == RootChunks \subseteq S /\ \A c \in S : Succ(c) \subseteq S

(* Writer.cpp:114: "Set live bit on for each reachable chunk."  No chunk   *)
(* is ever marked that is not in every set closed under references.        *)
MarkedAreReachable == \A S \in SUBSET Chunk : Closed(S) => live \subseteq S

\* The worklist is empty and nothing has been folded yet.
Marked == link.doGC /\ phase \in {"fold", "done"} /\ \A c \in Chunk : ptr[c] = c

(* And every reachable chunk is: what is marked in the end is closed.      *)
ReachableAreMarked == Marked => Closed(live)

(* Writer.cpp:121: "sections never appear twice in the list", so that no   *)
(* chunk is gone through twice (or marked twice, which asserts).           *)
(* A chunk that stays was folded into none, and what doICF compares with   *)
(* is still there: a chunk replaces another in the output or is replaced,  *)
(* never both.                                                             *)
LiveIsOwn ==
  /\ \A c \in live : ptr[c] = c
  /\ table \subseteq live

\* Where a chunk has gone in the end.
final[c \in Chunk] == IF ptr[c] = c THEN c ELSE final[ptr[c]]

\* The chunk of s after all the folding.
FinalOf(s) == IF link.chunk[s] = NoChunk THEN NoChunk ELSE final[link.chunk[s]]

\* Relocations that refer to s and to t get the same address.
SameLocation(s, t) ==
  \/ s = t
  \/ /\ FinalOf(s) # NoChunk /\ FinalOf(s) = FinalOf(t)
     /\ link.value[s] = link.value[t]

Identical(c, d) ==
  /\ link.content[c] = link.content[d]
  /\ Len(link.relocs[c]) = Len(link.relocs[d])
  /\ Len(link.children[c]) = Len(link.children[d])
  /\ \A i \in DOMAIN link.relocs[c] : SameLocation(link.relocs[c][i], link.relocs[d][i])
  /\ \A i \in DOMAIN link.children[c] :
       final[link.children[c][i]] = final[link.children[d][i]]

(* ICF.cpp:36: "Two sections are considered as identical when their        *)
(* section headers, contents and relocations are all the same."  The chunk *)
(* a folded one ends in has its contents, and each of its references and   *)
(* children ends in the same place, however the passes went.               *)
FoldedAreIdentical == \A c \in Chunk : Identical(c, final[c])

(* An associative section does not outlive the chunk it belongs to: a      *)
(* folded chunk's unwind data goes with it, unless it is the unwind data   *)
(* (or what that was folded into) of another chunk of the output.          *)
ChildrenFollow ==
  \A p \in Chunk : ptr[p] # p =>
    \A i \in DOMAIN link.children[p] :
      LET k == link.children[p][i]
      IN  k \in live => \E q \in live : \E j \in DOMAIN link.children[q] :
                                           final[link.children[q][j]] = k

(* ICF.cpp:54: "By merging sections, two relocations that originally       *)
(* pointed to different locations can now point to the same location.  So, *)
(* repeat the process until a convegence is obtained."  In the end no two  *)
(* chunks of the output are equal.                                         *)
FoldingConverged ==
  phase = "done" /\ link.icf =>
    \A a, b \in live : a # b /\ link.comdat[a] /\ link.comdat[b] => ~Equals(a, b)

(* Marking and folding come to an end.                                     *)
WriterProceeds == <>(phase = "done")

(* Chunks.h:175: Ptr is "a pointer pointing to a replacement for this      *)
(* chunk".  What a chunk of the output refers to is in the output: its     *)
(* relocations get the address of a chunk that has one.                    *)
RelocationsResolved ==
  phase = "done" =>
    \A c \in Written : \A i \in DOMAIN link.relocs[c] :
      LET d == ChunkOf(link.relocs[c][i]) IN d # NoChunk => d \in Written
=============================================================================
