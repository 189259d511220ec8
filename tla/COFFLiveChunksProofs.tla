----------------------- MODULE COFFLiveChunksProofs -----------------------
(***************************************************************************)
(* Proofs about COFFLiveChunks, for every link of any number of chunks:    *)
(* markLive marks the reachable chunks and no other, doICF keeps what is   *)
(* live apart from what has been folded, folds only what is identical in   *)
(* the end, and leaves nothing that is.                                    *)
(***************************************************************************)
EXTENDS COFFLiveChunks, CommonLemmas, SequenceTheorems

Marks == {"roots", "scan", "mark"}

Typed == link \in Links /\ TypeOK

\* Nothing is folded while marking; nothing is live without markLive.
Early ==
  /\ phase \in Marks => link.doGC /\ (\A c \in Chunk : ptr[c] = c) /\ table = {}
  /\ ~link.doGC => live = {}

\* The chunks doICF compares with come before the one it is at.
Ordered == LiveIsOwn /\ \A e \in table : e < pos

\* What is on the worklist is live.
Listed == phase \in Marks => \A i \in DOMAIN work : work[i] \in live

\* What the popped chunk leads to and has yet to be marked.
Pending == {link.chunk[syms[i]] : i \in DOMAIN syms} \cup {kids[i] : i \in DOMAIN kids}

\* Every set closed under references holds the pending chunks as well.
Sound ==
  phase \in Marks =>
    \A S \in SUBSET Chunk : Closed(S) => Pending \subseteq S \cup {NoChunk}

\* Each loop of markLive has done its part.
RootsMarked ==
  /\ phase = "roots" =>
       /\ roots \subseteq link.roots /\ pos = 1
       /\ \A s \in link.roots \ roots : link.chunk[s] \in live \cup {NoChunk}
  /\ phase = "scan" =>
       /\ \A s \in link.roots : link.chunk[s] \in live \cup {NoChunk}
       /\ \A c \in Chunk : c < pos /\ IsRoot(c) => c \in live
  /\ phase = "mark" => RootChunks \subseteq live
  /\ phase \in {"roots", "scan"} => syms = <<>> /\ kids = <<>>

\* What a live chunk leads to is marked, or will be.
Followed ==
  phase \in Marks =>
    \A c \in live : \/ \E i \in DOMAIN work : work[i] = c
                    \/ Succ(c) \subseteq live \cup Pending

\* After markLive, what is missing from a closed set has been folded.
Complete ==
  link.doGC /\ phase \in {"fold", "done"} =>
    LET here == live \cup {c \in Chunk : ptr[c] # c}
    IN  RootChunks \subseteq here /\ \A c \in live : Succ(c) \subseteq here

Inv == /\ Typed /\ Early /\ Ordered /\ Listed
       /\ MarkedAreReachable /\ Sound
       /\ RootsMarked /\ Followed /\ Complete
-----------------------------------------------------------------------------
(* The fields of a link have their types.                                  *)
LEMMA LinkFacts ==
  ASSUME link \in Links
  PROVE  /\ NumChunks \in Nat /\ NoChunk \notin Chunk
         /\ link.comdat \in [Chunk -> BOOLEAN] /\ link.code \in [Chunk -> BOOLEAN]
         /\ link.relocs \in [Chunk -> Seq(Symbols)]
         /\ link.children \in [Chunk -> Seq(Chunk)]
         /\ link.chunk \in [Symbols -> Chunk \cup {NoChunk}]
         /\ link.roots \subseteq Symbols
         /\ link.doGC \in BOOLEAN /\ link.icf \in BOOLEAN
<1>1. NumChunks \in Nat /\ NoChunk \notin Chunk
  BY LinkAssumption DEF Chunk, NoChunk
<1>2. /\ link.comdat \in [Chunk -> BOOLEAN] /\ link.code \in [Chunk -> BOOLEAN]
      /\ link.relocs \in [Chunk -> Seq(Symbols)]
      /\ link.children \in [Chunk -> Seq(Chunk)]
      /\ link.chunk \in [Symbols -> Chunk \cup {NoChunk}]
      /\ link.roots \subseteq Symbols
      /\ link.doGC \in BOOLEAN /\ link.icf \in BOOLEAN
  BY LinkAssumption, Zenon
<1> QED BY <1>1, <1>2

(* Init has the invariant.                                                 *)
LEMMA InitInv == Init => Inv
<1> SUFFICES ASSUME Init PROVE Inv
  OBVIOUS
<1> link \in Links
  BY DEF Init
<1>1. Typed
  <2>1. pos \in 1 .. NumChunks + 1 /\ ptr \in [Chunk -> Chunk] /\ roots \subseteq Symbols
    BY LinkFacts DEF Init
  <2>2. work \in Seq(Chunk) /\ syms \in Seq(Symbols) /\ kids \in Seq(Chunk)
    BY EmptySeq DEF Init
  <2> QED BY <2>1, <2>2 DEF Init, Typed, TypeOK, FirstPhase
<1>2. Early /\ Ordered /\ Listed /\ MarkedAreReachable
  BY LinkFacts DEF Init, Early, Ordered, Listed, MarkedAreReachable, LiveIsOwn,
                   FirstPhase, Marks
<1>3. Sound
  BY DEF Init, Sound, Pending
<1>4. RootsMarked /\ Followed
  BY DEF Init, RootsMarked, Followed, FirstPhase
<1>5. Complete
  BY LinkFacts DEF Init, Complete, FirstPhase
<1> QED BY <1>1, <1>2, <1>3, <1>4, <1>5 DEF Inv

(* What Mark does with a chunk or with NoChunk.                            *)
LEMMA MarkFacts ==
  ASSUME Typed, Listed, phase \in Marks, NEW c \in Chunk \cup {NoChunk}, Mark(c)
  PROVE  /\ live' \subseteq Chunk /\ work' \in Seq(Chunk)
         /\ live \subseteq live' /\ live' \subseteq live \cup {c}
         /\ c \in live' \cup {NoChunk}
         /\ NoChunk \notin live'
         /\ \A i \in DOMAIN work' : work'[i] \in live'
         /\ \A d \in live' : \/ d \in live
                             \/ \E i \in DOMAIN work' : work'[i] = d
         /\ \A d \in Chunk : (\E i \in DOMAIN work : work[i] = d)
                             => \E i \in DOMAIN work' : work'[i] = d
<1>0. live \subseteq Chunk /\ work \in Seq(Chunk) /\ NoChunk \notin Chunk
  BY LinkFacts DEF Typed, TypeOK
<1>1. CASE c = NoChunk \/ c \in live
  BY <1>0, <1>1 DEF Mark, Listed
<1>2. CASE ~(c = NoChunk \/ c \in live)
  <2>1. live' = live \cup {c} /\ work' = Append(work, c)
    BY <1>2 DEF Mark
  <2>2. /\ work' \in Seq(Chunk) /\ Len(work') = Len(work) + 1
        /\ \A i \in 1 .. Len(work) : work'[i] = work[i]
        /\ work'[Len(work) + 1] = c
    BY <1>0, <1>2, <2>1, AppendProperties
  <2>3. DOMAIN work = 1 .. Len(work) /\ DOMAIN work' = 1 .. Len(work')
        /\ Len(work) \in Nat
    BY <1>0, <2>2, LenProperties
  <2>4. /\ live' \subseteq Chunk /\ NoChunk \notin live'
        /\ live \subseteq live' /\ live' \subseteq live \cup {c} /\ c \in live'
    BY <1>0, <1>2, <2>1
  <2>5. \A i \in DOMAIN work' : work'[i] \in live'
    BY <2>2, <2>3, <2>4 DEF Listed
  <2>6. Len(work) + 1 \in DOMAIN work' /\ DOMAIN work \subseteq DOMAIN work'
    BY <2>2, <2>3
  <2>7. \A d \in live' : d \in live \/ \E i \in DOMAIN work' : work'[i] = d
    BY <2>1, <2>2, <2>6
  <2>8. \A d \in Chunk : (\E i \in DOMAIN work : work[i] = d)
                         => \E i \in DOMAIN work' : work'[i] = d
    BY <2>2, <2>3, <2>6
  <2> QED BY <2>2, <2>4, <2>5, <2>7, <2>8
<1> QED BY <1>1, <1>2

(* What a link's graph is does not change.                                 *)
LEMMA LinkStable ==
  ASSUME link' = link
  PROVE  /\ \A c : (IsRoot(c) <=> IsRoot(c)') /\ Succ(c)' = Succ(c)
         /\ RootChunks' = RootChunks
         /\ \A S : Closed(S)' <=> Closed(S)
<1>1. \A c : (IsRoot(c) <=> IsRoot(c)') /\ Succ(c)' = Succ(c)
  BY DEF IsRoot, IsChild, Succ
<1>2. RootChunks' = RootChunks
  BY <1>1 DEF RootChunks
<1> QED BY <1>1, <1>2 DEF Closed

(* A chunk leads to chunks.                                                *)
LEMMA SuccFacts ==
  ASSUME link \in Links, NEW c \in Chunk
  PROVE  /\ Succ(c) \subseteq Chunk
         /\ \A i \in DOMAIN link.relocs[c] :
              link.chunk[link.relocs[c][i]] \in Succ(c) \cup {NoChunk}
         /\ \A i \in DOMAIN link.children[c] : link.children[c][i] \in Succ(c)
<1>1. link.relocs[c] \in Seq(Symbols) /\ link.children[c] \in Seq(Chunk)
  BY LinkFacts
<1>2. \A i \in DOMAIN link.relocs[c] : link.relocs[c][i] \in Symbols
  BY <1>1, ElementOfSeq, LenProperties
<1>3. \A i \in DOMAIN link.children[c] : link.children[c][i] \in Chunk
  BY <1>1, ElementOfSeq, LenProperties
<1> QED BY <1>2, <1>3, LinkFacts DEF Succ

(* A step of markLive that marks chunk c, which every closed set has, and  *)
(* takes no other chunk from what is pending.                              *)
LEMMA MarkStep ==
  ASSUME Inv, phase \in Marks, NEW c \in Chunk \cup {NoChunk}, Mark(c),
         UNCHANGED <<link, phase, ptr, folding>>,
         \A S \in SUBSET Chunk : Closed(S) => c \in S \cup {NoChunk},
         pos' \in 1 .. NumChunks + 1, roots' \subseteq Symbols,
         syms' \in Seq(Symbols), kids' \in Seq(Chunk),
         Pending' \subseteq Pending, Pending \subseteq Pending' \cup {c}
  PROVE  /\ Typed' /\ Early' /\ Ordered' /\ Listed'
         /\ MarkedAreReachable' /\ Sound' /\ Followed' /\ Complete'
<1>1. /\ live' \subseteq Chunk /\ work' \in Seq(Chunk)
      /\ live \subseteq live' /\ live' \subseteq live \cup {c}
      /\ c \in live' \cup {NoChunk} /\ NoChunk \notin live'
      /\ \A i \in DOMAIN work' : work'[i] \in live'
      /\ \A d \in live' : \/ d \in live
                          \/ \E i \in DOMAIN work' : work'[i] = d
      /\ \A d \in Chunk : (\E i \in DOMAIN work : work[i] = d)
                          => \E i \in DOMAIN work' : work'[i] = d
  BY MarkFacts DEF Inv
<1>2. Typed'
  BY <1>1 DEF Inv, Typed, TypeOK, folding
<1>3. Early' /\ Ordered' /\ Listed'
  BY <1>1 DEF Inv, Early, Ordered, LiveIsOwn, Listed, Marks, folding
<1>4. \A S : Closed(S)' <=> Closed(S)
  BY LinkStable
<1>5. MarkedAreReachable' /\ Sound'
  BY <1>1, <1>4 DEF Inv, MarkedAreReachable, Sound
<1>6. ASSUME NEW d \in live'
      PROVE  (\E i \in DOMAIN work' : work'[i] = d) \/ Succ(d)' \subseteq live' \cup Pending'
  <2>1. d \in Chunk /\ Succ(d)' = Succ(d) /\ NoChunk \notin Succ(d)
    BY <1>1, LinkStable, SuccFacts, LinkFacts DEF Inv, Typed
  <2>2. CASE d \in live /\ Succ(d) \subseteq live \cup Pending
    BY <1>1, <2>1, <2>2
  <2> QED BY <1>1, <1>6, <2>1, <2>2 DEF Inv, Followed
<1>7. Followed' /\ Complete'
  BY <1>6 DEF Followed, Complete, Marks
<1> QED BY <1>2, <1>3, <1>5, <1>7

(* A step of markLive from one loop to the next.                           *)
LEMMA SamePlaces ==
  ASSUME Inv, phase \in Marks, phase' \in Marks,
         UNCHANGED <<link, live, ptr, marking, folding>>,
         pos' = pos \/ pos' = 1
  PROVE  /\ Typed' /\ Early' /\ Ordered' /\ Listed'
         /\ MarkedAreReachable' /\ Sound' /\ Followed' /\ Complete'
<1>1. /\ \A S : Closed(S)' <=> Closed(S)
      /\ \A c : Succ(c)' = Succ(c)
      /\ Pending' = Pending
  BY LinkStable DEF Pending, marking
<1>2. Typed'
  <2>1. pos' \in 1 .. NumChunks + 1
    BY LinkFacts DEF Inv, Typed, TypeOK
  <2> QED BY <2>1 DEF Inv, Typed, TypeOK, Marks, marking, folding
<1>3. Early' /\ Ordered' /\ Listed'
  BY DEF Inv, Early, Ordered, LiveIsOwn, Listed, marking, folding
<1>4. MarkedAreReachable' /\ Sound' /\ Followed' /\ Complete'
  BY <1>1 DEF Inv, MarkedAreReachable, Sound, Followed, Complete, marking, Marks
<1> QED BY <1>2, <1>3, <1>4

(* The elements of a sequence are its head and those of its tail.          *)
LEMMA HeadTail ==
  ASSUME NEW T, NEW q \in Seq(T), q # <<>>
  PROVE  /\ Head(q) \in T /\ Tail(q) \in Seq(T)
         /\ \E i \in DOMAIN q : q[i] = Head(q)
         /\ \A i \in DOMAIN q :
              q[i] = Head(q) \/ \E j \in DOMAIN Tail(q) : Tail(q)[j] = q[i]
         /\ \A j \in DOMAIN Tail(q) : \E i \in DOMAIN q : q[i] = Tail(q)[j]
<1>1. /\ Tail(q) \in Seq(T) /\ Len(Tail(q)) = Len(q) - 1 /\ Len(q) \in Nat /\ Len(q) > 0
      /\ \A j \in 1 .. Len(Tail(q)) : Tail(q)[j] = q[j + 1]
      /\ DOMAIN q = 1 .. Len(q) /\ DOMAIN Tail(q) = 1 .. Len(Tail(q))
  BY HeadTailProperties, LenProperties, EmptySeq
<1>2. Head(q) = q[1] /\ 1 \in DOMAIN q
  BY <1>1
<1>3. Head(q) \in T
  BY <1>1, <1>2, ElementOfSeq
<1>4. ASSUME NEW i \in DOMAIN q
      PROVE  q[i] = Head(q) \/ \E j \in DOMAIN Tail(q) : Tail(q)[j] = q[i]
  <2>1. CASE i = 1
    BY <1>2, <2>1
  <2>2. CASE i # 1
    <3>1. i - 1 \in DOMAIN Tail(q) /\ Tail(q)[i - 1] = q[i]
      BY <1>1, <2>2
    <3> QED BY <3>1
  <2> QED BY <2>1, <2>2
<1>5. ASSUME NEW j \in DOMAIN Tail(q)
      PROVE  \E i \in DOMAIN q : q[i] = Tail(q)[j]
  BY <1>1
<1> QED BY <1>1, <1>2, <1>3, <1>4, <1>5

(* Each loop of markLive keeps the invariant.                              *)
LEMMA MarkingInvariant ==
  ASSUME Inv,
         \/ \E s \in Symbols : MarkRoot(s)
         \/ RootsDone \/ ScanChunk \/ ScanDone
         \/ PopChunk \/ MarkSymbol \/ MarkChild \/ MarkDone
  PROVE  Inv'
<1>0. /\ link \in Links /\ TypeOK /\ Listed
      /\ link.roots \subseteq Symbols /\ NumChunks \in Nat /\ NoChunk \notin Chunk
      /\ link.chunk \in [Symbols -> Chunk \cup {NoChunk}]
      /\ phase \in Marks => \A c \in Chunk : ptr[c] = c
  BY LinkFacts DEF Inv, Typed, Early
<1>1. ASSUME NEW s \in Symbols, MarkRoot(s) PROVE Inv'
  <2> DEFINE c == link.chunk[s]
  <2>1. /\ phase = "roots" /\ s \in roots /\ roots' = roots \ {s}
        /\ UNCHANGED <<link, phase, ptr, pos, syms, kids, folding>>
    BY <1>1 DEF MarkRoot
  <2>2. c \in Chunk \cup {NoChunk} /\ ChunkOf(s) = c /\ Mark(c)
    BY <1>0, <1>1, <2>1 DEF MarkRoot, ChunkOf, Marks
  <2>3. s \in link.roots
    BY <2>1 DEF Inv, RootsMarked
  <2>4. \A S \in SUBSET Chunk : Closed(S) => c \in S \cup {NoChunk}
    BY <2>3 DEF Closed, RootChunks
  <2>5. Pending' = Pending
    BY <2>1 DEF Pending
  <2>6. /\ Typed' /\ Early' /\ Ordered' /\ Listed'
        /\ MarkedAreReachable' /\ Sound' /\ Followed' /\ Complete'
    BY <1>0, <2>1, <2>2, <2>4, <2>5, MarkStep DEF TypeOK, Marks
  <2>7. live \subseteq live' /\ c \in live' \cup {NoChunk}
    BY <1>0, <2>1, <2>2, MarkFacts DEF Inv, Marks
  <2>8. RootsMarked'
    BY <2>1, <2>7 DEF Inv, RootsMarked
  <2> QED BY <2>6, <2>8 DEF Inv
<1>2. CASE RootsDone
  <2>1. /\ phase = "roots" /\ roots = {} /\ phase' = "scan"
        /\ UNCHANGED <<link, live, ptr, pos, marking, folding>>
    BY <1>2 DEF RootsDone
  <2>2. RootsMarked'
    BY <1>0, <2>1 DEF Inv, RootsMarked, TypeOK, marking, Chunk
  <2> QED BY <2>1, <2>2, SamePlaces DEF Marks, Inv
<1>3. CASE ScanChunk
  <2> DEFINE c == IF IsRoot(pos) THEN pos ELSE NoChunk
  <2>1. /\ phase = "scan" /\ pos <= NumChunks /\ pos' = pos + 1
        /\ UNCHANGED <<link, phase, ptr, roots, syms, kids, folding>>
    BY <1>3 DEF ScanChunk
  <2>2. c \in Chunk \cup {NoChunk} /\ Mark(c) /\ pos \in Chunk
    BY <1>0, <1>3, <2>1 DEF ScanChunk, TypeOK, Chunk
  <2>3. \A S \in SUBSET Chunk : Closed(S) => c \in S \cup {NoChunk}
    BY <2>2 DEF Closed, RootChunks
  <2>4. Pending' = Pending
    BY <2>1 DEF Pending
  <2>5. /\ Typed' /\ Early' /\ Ordered' /\ Listed'
        /\ MarkedAreReachable' /\ Sound' /\ Followed' /\ Complete'
    <3>1. pos' \in 1 .. NumChunks + 1
      BY <1>0, <2>1 DEF TypeOK
    <3> QED BY <1>0, <3>1, <2>1, <2>2, <2>3, <2>4, MarkStep DEF TypeOK, Marks
  <2>6. live \subseteq live' /\ c \in live' \cup {NoChunk}
    BY <1>0, <2>1, <2>2, MarkFacts DEF Inv, Marks
  <2>7. \A d \in Chunk : d < pos' /\ IsRoot(d)' => d \in live'
    <3>1. SUFFICES ASSUME NEW d \in Chunk, d < pos', IsRoot(d)' PROVE d \in live'
      OBVIOUS
    <3>2. IsRoot(d) /\ (d < pos \/ d = pos)
      BY <1>0, <2>1, <2>2, <3>1, LinkStable DEF Chunk
    <3> QED BY <1>0, <2>1, <2>2, <2>6, <3>2 DEF Inv, RootsMarked
  <2>8. RootsMarked'
    BY <2>1, <2>6, <2>7 DEF Inv, RootsMarked
  <2> QED BY <2>5, <2>8 DEF Inv
<1>4. CASE ScanDone
  <2>1. /\ phase = "scan" /\ pos > NumChunks /\ phase' = "mark" /\ pos' = 1
        /\ UNCHANGED <<link, live, ptr, marking, folding>>
    BY <1>4 DEF ScanDone
  <2>2. RootChunks \subseteq live
    BY <1>0, <2>1 DEF Inv, RootsMarked, RootChunks, TypeOK, Chunk
  <2>3. RootsMarked'
    BY <2>1, <2>2, LinkStable DEF RootsMarked
  <2> QED BY <1>0, <2>1, <2>3, SamePlaces DEF Marks, Inv
<1>5. CASE PopChunk
  <2> DEFINE n == Len(work)
             c == work[n]
  <2>1. /\ phase = "mark" /\ syms = <<>> /\ kids = <<>> /\ work # <<>>
        /\ syms' = link.relocs[c] /\ kids' = link.children[c]
        /\ work' = SubSeq(work, 1, n - 1)
        /\ UNCHANGED <<link, phase, live, ptr, roots, pos, folding>>
    BY <1>5 DEF PopChunk
  <2>2. /\ n \in Nat /\ n > 0 /\ DOMAIN work = 1 .. n /\ c \in live /\ c \in Chunk
        /\ work' \in Seq(Chunk) /\ DOMAIN work' = 1 .. n - 1
        /\ \A i \in 1 .. n - 1 : work'[i] = work[i]
    <3>1. n \in Nat /\ n > 0 /\ DOMAIN work = 1 .. n
      BY <1>0, <2>1, LenProperties, EmptySeq DEF TypeOK
    <3>2. c \in live /\ c \in Chunk
      BY <1>0, <2>1, <3>1 DEF Listed, TypeOK, Marks
    <3>3. /\ work' \in Seq(Chunk) /\ Len(work') = n - 1
          /\ \A i \in 1 .. n - 1 : work'[i] = work[i]
      BY <1>0, <2>1, <3>1, SubSeqProperties DEF TypeOK
    <3> QED BY <3>1, <3>2, <3>3, LenProperties
  <2>3. Pending = {} /\ Succ(c) \cup {NoChunk} = Pending' \cup {NoChunk}
    <3>1. Pending = {}
      BY <2>1 DEF Pending
    <3>2. Pending' \subseteq Succ(c) \cup {NoChunk}
      BY <1>0, <2>1, <2>2, SuccFacts DEF Pending
    <3>3. Succ(c) \subseteq Pending'
      BY <2>1 DEF Succ, Pending
    <3> QED BY <3>1, <3>2, <3>3
  <2>4. Typed'
    <3>1. syms' \in Seq(Symbols) /\ kids' \in Seq(Chunk)
      BY <1>0, <2>1, <2>2, LinkFacts
    <3> QED BY <1>0, <2>1, <2>2, <3>1 DEF Typed, TypeOK, folding
  <2>5. Early' /\ Ordered' /\ Listed' /\ RootsMarked' /\ Complete'
    <3>1. Early' /\ Ordered'
      BY <2>1 DEF Inv, Early, Ordered, LiveIsOwn, folding
    <3>2. Listed'
      BY <1>0, <2>1, <2>2 DEF Listed
    <3>3. RootsMarked' /\ Complete'
      BY <2>1, LinkStable DEF Inv, RootsMarked, Complete
    <3> QED BY <3>1, <3>2, <3>3
  <2>6. MarkedAreReachable' /\ Sound'
    <3>1. \A S : Closed(S)' <=> Closed(S)
      BY <2>1, LinkStable
    <3>2. \A S \in SUBSET Chunk : Closed(S) => Succ(c) \subseteq S
      BY <2>2 DEF Inv, MarkedAreReachable, Closed
    <3> QED BY <2>1, <2>3, <3>1, <3>2 DEF Inv, MarkedAreReachable, Sound
  <2>7. Followed'
    <3>1. SUFFICES ASSUME NEW d \in live
                   PROVE  \/ \E i \in DOMAIN work' : work'[i] = d
                          \/ Succ(d) \subseteq live \cup Pending'
      BY <2>1, LinkStable DEF Followed
    <3>2. CASE d = c
      BY <1>0, <2>2, <2>3, <3>2, SuccFacts
    <3>3. CASE d # c /\ \E i \in DOMAIN work : work[i] = d
      BY <2>2, <3>3
    <3>4. CASE Succ(d) \subseteq live
      BY <3>4
    <3> QED BY <2>1, <2>3, <3>2, <3>3, <3>4 DEF Inv, Followed, Marks
  <2> QED BY <2>4, <2>5, <2>6, <2>7 DEF Inv
<1>6. CASE MarkSymbol
  <2> DEFINE c == link.chunk[Head(syms)]
  <2>1. /\ phase = "mark" /\ syms # <<>> /\ syms' = Tail(syms)
        /\ UNCHANGED <<link, phase, ptr, roots, pos, kids, folding>>
    BY <1>6 DEF MarkSymbol
  <2>2. /\ Head(syms) \in Symbols /\ syms' \in Seq(Symbols)
        /\ \E i \in DOMAIN syms : syms[i] = Head(syms)
        /\ \A i \in DOMAIN syms :
             syms[i] = Head(syms) \/ \E j \in DOMAIN syms' : syms'[j] = syms[i]
        /\ \A j \in DOMAIN syms' : \E i \in DOMAIN syms : syms[i] = syms'[j]
    BY <1>0, <2>1, HeadTail DEF TypeOK
  <2>3. c \in Chunk \cup {NoChunk} /\ Mark(c)
    BY <1>0, <1>6, <2>1, <2>2 DEF MarkSymbol, ChunkOf, Marks
  <2>4. Pending' \subseteq Pending /\ Pending \subseteq Pending' \cup {c} /\ c \in Pending
    BY <2>1, <2>2 DEF Pending
  <2>5. \A S \in SUBSET Chunk : Closed(S) => c \in S \cup {NoChunk}
    BY <2>1, <2>4 DEF Inv, Sound, Marks
  <2>6. /\ Typed' /\ Early' /\ Ordered' /\ Listed'
        /\ MarkedAreReachable' /\ Sound' /\ Followed' /\ Complete'
    BY <1>0, <2>1, <2>2, <2>3, <2>4, <2>5, MarkStep DEF TypeOK, Marks
  <2>7. RootsMarked'
    BY <1>0, <2>1, <2>3, MarkFacts, LinkStable DEF Inv, RootsMarked, Marks
  <2> QED BY <2>6, <2>7 DEF Inv
<1>7. CASE MarkChild
  <2> DEFINE c == Head(kids)
  <2>1. /\ phase = "mark" /\ kids # <<>> /\ kids' = Tail(kids) /\ Mark(c)
        /\ UNCHANGED <<link, phase, ptr, roots, pos, syms, folding>>
    BY <1>7 DEF MarkChild
  <2>2. /\ c \in Chunk /\ kids' \in Seq(Chunk)
        /\ \E i \in DOMAIN kids : kids[i] = c
        /\ \A i \in DOMAIN kids :
             kids[i] = c \/ \E j \in DOMAIN kids' : kids'[j] = kids[i]
        /\ \A j \in DOMAIN kids' : \E i \in DOMAIN kids : kids[i] = kids'[j]
    BY <1>0, <2>1, HeadTail DEF TypeOK
  <2>4. Pending' \subseteq Pending /\ Pending \subseteq Pending' \cup {c} /\ c \in Pending
    BY <2>1, <2>2 DEF Pending
  <2>5. \A S \in SUBSET Chunk : Closed(S) => c \in S \cup {NoChunk}
    BY <2>1, <2>4 DEF Inv, Sound, Marks
  <2>6. /\ Typed' /\ Early' /\ Ordered' /\ Listed'
        /\ MarkedAreReachable' /\ Sound' /\ Followed' /\ Complete'
    BY <1>0, <2>1, <2>2, <2>4, <2>5, MarkStep DEF TypeOK, Marks
  <2>7. RootsMarked'
    BY <1>0, <2>1, <2>2, MarkFacts, LinkStable DEF Inv, RootsMarked, Marks
  <2> QED BY <2>6, <2>7 DEF Inv
<1>8. CASE MarkDone
  <2>1. /\ phase = "mark" /\ syms = <<>> /\ kids = <<>> /\ work = <<>>
        /\ phase' \in {"fold", "done"}
        /\ UNCHANGED <<link, live, ptr, pos, marking, folding>>
    BY <1>8 DEF MarkDone
  <2>2. Typed' /\ Early' /\ Ordered' /\ Listed'
    BY <1>0, <2>1 DEF Inv, Typed, TypeOK, Early, Ordered, LiveIsOwn, Listed, Marks,
                      marking, folding
  <2>3. MarkedAreReachable'
    BY <2>1, LinkStable DEF Inv, MarkedAreReachable
  <2>4. Sound' /\ RootsMarked' /\ Followed'
    BY <2>1 DEF Sound, RootsMarked, Followed, Marks
  <2>5. Complete'
    <3>1. RootChunks \subseteq live /\ Pending = {}
      BY <2>1 DEF Inv, RootsMarked, Pending
    <3>2. \A d \in live : Succ(d) \subseteq live
      BY <2>1, <3>1 DEF Inv, Followed, Marks
    <3> QED BY <2>1, <3>1, <3>2, LinkStable DEF Complete
  <2> QED BY <2>2, <2>3, <2>4, <2>5 DEF Inv
<1> QED BY <1>1, <1>2, <1>3, <1>4, <1>5, <1>6, <1>7, <1>8

(* A step of doICF: what dies has another chunk for replacement.           *)
LEMMA FoldingInvariant ==
  ASSUME Inv, FoldChunk \/ FoldAgain
  PROVE  Inv'
<1>0. /\ link \in Links /\ TypeOK /\ NumChunks \in Nat
      /\ live \subseteq Chunk /\ table \subseteq live /\ ptr \in [Chunk -> Chunk]
      /\ \A c \in live : ptr[c] = c
      /\ \A e \in table : e < pos
      /\ ~link.doGC => live = {}
  BY LinkFacts DEF Inv, Typed, TypeOK, Ordered, LiveIsOwn, Early
<1>1. ASSUME phase = "fold", phase' \in {"fold", "done"}, UNCHANGED <<link, marking>>,
             live' \subseteq live
      PROVE  Early' /\ Listed' /\ MarkedAreReachable' /\ Sound' /\ RootsMarked' /\ Followed'
  BY <1>0, <1>1, LinkStable
  DEF Inv, Early, Listed, MarkedAreReachable, Sound, RootsMarked, Followed, Marks
<1>2. ASSUME phase = "fold", UNCHANGED link, live' \subseteq live,
             \A c \in live \ live' : ptr'[c] # c,
             \A c \in Chunk : ptr[c] # c => ptr'[c] # c
      PROVE  Complete'
  <2> DEFINE here == live \cup {c \in Chunk : ptr[c] # c}
             next == live' \cup {c \in Chunk : ptr'[c] # c}
  <2>1. here \subseteq next
    BY <1>0, <1>2
  <2>2. link.doGC => RootChunks \subseteq here /\ \A c \in live : Succ(c) \subseteq here
    BY <1>2 DEF Inv, Complete
  <2>3. link.doGC => RootChunks \subseteq next /\ \A c \in live' : Succ(c) \subseteq next
    BY <1>2, <2>1, <2>2
  <2> QED BY <1>2, <2>3, LinkStable DEF Complete
<1>3. CASE FoldAgain
  <2>1. /\ phase = "fold" /\ phase' \in {"fold", "done"}
        /\ (pos' = 1 /\ table' = {}) \/ UNCHANGED <<pos, table>>
        /\ redo' = FALSE
        /\ UNCHANGED <<link, live, ptr, marking>>
    BY <1>3 DEF FoldAgain
  <2>2. Typed'
    <3>1. pos' \in 1 .. NumChunks + 1 /\ table' \subseteq Chunk
      BY <1>0, <2>1 DEF TypeOK
    <3> QED BY <1>0, <2>1, <3>1 DEF Typed, TypeOK, marking
  <2>3. Ordered'
    BY <1>0, <2>1 DEF Ordered, LiveIsOwn
  <2>4. Complete'
    BY <1>2, <2>1
  <2> QED BY <1>1, <2>1, <2>2, <2>3, <2>4 DEF Inv
<1>4. CASE FoldChunk
  <2>1. /\ phase = "fold" /\ pos <= NumChunks /\ pos' = pos + 1
        /\ UNCHANGED <<link, phase, marking>>
    BY <1>4 DEF FoldChunk
  <2>2. /\ pos \in Chunk /\ pos' \in 1 .. NumChunks + 1 /\ pos \notin table
        /\ \A e \in table : e < pos' /\ e \in Chunk
    BY <1>0, <2>1 DEF TypeOK, Chunk
  <2>3. \/ UNCHANGED <<live, ptr, folding>>
        \/ /\ pos \in live /\ table' = table \cup {pos}
           /\ UNCHANGED <<live, ptr, redo>>
        \/ \E e \in table :
             /\ ptr' = [ptr EXCEPT ![pos] = ptr[e]]
             /\ live' = live \ {pos} /\ redo' = TRUE /\ UNCHANGED table
    BY <1>4 DEF FoldChunk
  <2>4. CASE UNCHANGED <<live, ptr, folding>>
    <3>1. Typed' /\ Ordered'
      BY <1>0, <2>1, <2>2, <2>4 DEF Typed, TypeOK, marking, folding, Ordered, LiveIsOwn
    <3> QED BY <1>1, <1>2, <2>1, <2>4, <3>1 DEF Inv
  <2>5. CASE /\ pos \in live /\ table' = table \cup {pos}
             /\ UNCHANGED <<live, ptr, redo>>
    <3>1. Typed'
      BY <1>0, <2>1, <2>2, <2>5 DEF Typed, TypeOK, marking
    <3>2. Ordered'
      <4>1. pos < pos'
        BY <1>0, <2>1 DEF TypeOK
      <4> QED BY <1>0, <2>2, <2>5, <4>1 DEF Ordered, LiveIsOwn
    <3> QED BY <1>1, <1>2, <2>1, <2>5, <3>1, <3>2 DEF Inv
  <2>6. CASE \E e \in table :
               /\ ptr' = [ptr EXCEPT ![pos] = ptr[e]]
               /\ live' = live \ {pos} /\ redo' = TRUE /\ UNCHANGED table
    <3>1. PICK e \in table : /\ ptr' = [ptr EXCEPT ![pos] = ptr[e]]
                             /\ live' = live \ {pos} /\ redo' = TRUE /\ UNCHANGED table
      BY <2>6
    <3>2. /\ ptr' \in [Chunk -> Chunk] /\ ptr'[pos] = e /\ e # pos
          /\ \A c \in Chunk \ {pos} : ptr'[c] = ptr[c]
      BY <1>0, <2>2, <3>1
    <3>3. Typed'
      BY <1>0, <2>1, <2>2, <3>1, <3>2 DEF Typed, TypeOK, marking
    <3>4. Ordered'
      BY <1>0, <2>2, <3>1, <3>2 DEF Ordered, LiveIsOwn
    <3>5. Complete'
      BY <1>0, <1>2, <2>1, <3>1, <3>2
    <3> QED BY <1>0, <1>1, <2>1, <3>1, <3>3, <3>4, <3>5 DEF Inv
  <2> QED BY <2>3, <2>4, <2>5, <2>6
<1> QED BY <1>3, <1>4

(* Every step keeps the invariant.                                         *)
LEMMA NextInv == Inv /\ [Next]_vars => Inv'
<1> SUFFICES ASSUME Inv, [Next]_vars PROVE Inv'
  OBVIOUS
<1>1. CASE UNCHANGED vars
  <2>1. /\ UNCHANGED <<link, phase, live, ptr, pos, table, redo>>
        /\ UNCHANGED <<roots, work, syms, kids>>
    BY <1>1 DEF vars, marking, folding
  <2>2. Typed' /\ Early' /\ Ordered' /\ Listed'
    BY <2>1 DEF Inv, Typed, TypeOK, Early, Ordered, LiveIsOwn, Listed
  <2>3. MarkedAreReachable' /\ Sound' /\ RootsMarked' /\ Followed' /\ Complete'
    BY <2>1, LinkStable
    DEF Inv, MarkedAreReachable, Sound, RootsMarked, Followed, Complete, Pending
  <2> QED BY <2>2, <2>3 DEF Inv
<1>2. CASE FoldChunk \/ FoldAgain
  BY <1>2, FoldingInvariant
<1>3. CASE \/ \E s \in Symbols : MarkRoot(s)
           \/ RootsDone \/ ScanChunk \/ ScanDone
           \/ PopChunk \/ MarkSymbol \/ MarkChild \/ MarkDone
  BY <1>3, MarkingInvariant
<1> QED BY <1>1, <1>2, <1>3 DEF Next, Terminated

(* The invariant holds of every run.                                       *)
LEMMA Invariant == Spec => []Inv
<1> QED BY InitInv, NextInv, PTL DEF Spec

(* Type correctness, for every link: no loop of markLive or doICF leaves   *)
(* the list of chunks, and nothing but chunks of it is marked or pushed.   *)
THEOREM TypeCorrect == Spec => []TypeOK
<1>1. Inv => TypeOK
  BY DEF Inv, Typed
<1> QED BY <1>1, Invariant, PTL

(* A chunk that markLive marks is in every set that has the roots and is   *)
(* closed under relocations and associative sections, whatever the order   *)
(* in which the worklist is gone through.                                  *)
THEOREM MarkingIsSound == Spec => []MarkedAreReachable
<1>1. Inv => MarkedAreReachable
  BY DEF Inv
<1> QED BY <1>1, Invariant, PTL

(* When its worklist is empty, and until doICF folds something, what       *)
(* markLive has marked is such a set itself: with the theorem above, the   *)
(* least one.                                                              *)
THEOREM MarkingIsComplete == Spec => []ReachableAreMarked
<1>1. Inv => ReachableAreMarked
  <2> SUFFICES ASSUME Inv, Marked PROVE Closed(live)
    BY DEF ReachableAreMarked
  <2>1. {c \in Chunk : ptr[c] # c} = {}
    BY DEF Marked
  <2> QED BY <2>1 DEF Inv, Complete, Marked, Closed
<1> QED BY <1>1, Invariant, PTL

(* In every pass of doICF the chunks it may fold into are live, and those  *)
(* are their own replacement: nothing is ever folded into a dead chunk.    *)
THEOREM FoldingIntoLive == Spec => []LiveIsOwn
<1>1. Inv => LiveIsOwn
  BY DEF Inv, Ordered
<1> QED BY <1>1, Invariant, PTL
-----------------------------------------------------------------------------
(* Where chunks go when each is replaced by itself or by an earlier one.   *)
IsFinal(f, p) == f = [c \in Chunk |-> IF p[c] = c THEN c ELSE f[p[c]]]

LEMMA FinalExists ==
  ASSUME NumChunks \in Nat, NEW p \in [Chunk -> Chunk], \A c \in Chunk : p[c] <= c
  PROVE  \E f \in [Chunk -> Chunk] : IsFinal(f, p)
<1> DEFINE Upto(n, f) == \A c \in 1 .. n : f[c] = IF p[c] = c THEN c ELSE f[p[c]]
           Done == {n \in Nat : n <= NumChunks => \E f \in [1 .. n -> Chunk] : Upto(n, f)}
<1>1. 0 \in Done
  <2>1. [c \in 1 .. 0 |-> c] \in [1 .. 0 -> Chunk] /\ Upto(0, [c \in 1 .. 0 |-> c])
    OBVIOUS
  <2> QED BY <2>1
<1>2. ASSUME NEW n \in Done PROVE n + 1 \in Done
  <2>1. SUFFICES ASSUME n + 1 <= NumChunks PROVE \E f \in [1 .. n + 1 -> Chunk] : Upto(n + 1, f)
    OBVIOUS
  <2>2. PICK f \in [1 .. n -> Chunk] : Upto(n, f)
    BY <2>1
  <2>3. n + 1 \in Chunk /\ 1 .. n \subseteq Chunk /\ p[n + 1] \in 1 .. n + 1
    BY <2>1 DEF Chunk
  <2> DEFINE g == [c \in 1 .. n + 1 |->
                     IF c # n + 1 THEN f[c] ELSE IF p[c] = c THEN c ELSE f[p[c]]]
  <2>4. g \in [1 .. n + 1 -> Chunk]
    BY <2>3
  <2>5. ASSUME NEW c \in 1 .. n + 1 PROVE g[c] = IF p[c] = c THEN c ELSE g[p[c]]
    <3>1. CASE c = n + 1
      <4>1. p[c] # c => p[c] \in 1 .. n
        BY <2>3, <3>1
      <4> QED BY <3>1, <4>1
    <3>2. CASE c # n + 1
      <4>1. c \in 1 .. n /\ c \in Chunk
        BY <2>3, <3>2
      <4>2. p[c] \in 1 .. n /\ p[c] # n + 1
        BY <4>1 DEF Chunk
      <4> QED BY <2>2, <3>2, <4>1, <4>2
    <3> QED BY <3>1, <3>2
  <2> QED BY <2>4, <2>5
<1> HIDE DEF Done
<1>3. Done = Nat
  <2>1. Done \in SUBSET Nat
    BY DEF Done
  <2> QED BY <1>1, <1>2, <2>1, Induction
<1>4. PICK f \in [1 .. NumChunks -> Chunk] : Upto(NumChunks, f)
  BY <1>3 DEF Done
<1> QED BY <1>4 DEF IsFinal, Chunk

LEMMA FinalUnique ==
  ASSUME NumChunks \in Nat, NEW p \in [Chunk -> Chunk], \A c \in Chunk : p[c] <= c,
         NEW f, IsFinal(f, p), NEW g, IsFinal(g, p)
  PROVE  f = g
<1> DEFINE Apart == {c \in Chunk : f[c] # g[c]}
<1>1. SUFFICES ASSUME Apart # {} PROVE FALSE
  BY DEF IsFinal
<1>2. Apart \in SUBSET Nat
  BY DEF Chunk
<1>3. PICK c \in Apart : \A d \in Apart : c <= d
  BY <1>1, <1>2, Least
<1>4. f[c] = (IF p[c] = c THEN c ELSE f[p[c]]) /\ g[c] = (IF p[c] = c THEN c ELSE g[p[c]])
  BY DEF IsFinal
<1>5. p[c] # c /\ p[c] \in Apart
  BY <1>3, <1>4
<1> QED BY <1>3, <1>5 DEF Chunk

(* Every chain of replacements ends in a chunk that has none.              *)
LEMMA FinalFacts ==
  ASSUME NumChunks \in Nat, NEW p \in [Chunk -> Chunk], \A c \in Chunk : p[c] <= c,
         NEW f, f = CHOOSE g : IsFinal(g, p)
  PROVE  /\ IsFinal(f, p) /\ f \in [Chunk -> Chunk]
         /\ \A c \in Chunk : f[c] = f[p[c]] /\ p[f[c]] = f[c]
<1>1. PICK g \in [Chunk -> Chunk] : IsFinal(g, p)
  BY FinalExists
<1>2. IsFinal(f, p)
  BY <1>1
<1>3. f = g
  BY <1>1, <1>2, FinalUnique
<1>4. \A c \in Chunk : f[c] = IF p[c] = c THEN c ELSE f[p[c]]
  BY <1>2 DEF IsFinal
<1> DEFINE Going == {c \in Chunk : p[f[c]] # f[c]}
<1>5. Going = {}
  <2>1. SUFFICES ASSUME Going # {} PROVE FALSE
    OBVIOUS
  <2>2. Going \in SUBSET Nat
    BY DEF Chunk
  <2>3. PICK c \in Going : \A d \in Going : c <= d
    BY <2>1, <2>2, Least
  <2>4. p[c] # c /\ p[c] \in Going
    BY <1>4, <2>3
  <2>5. c \in Nat /\ p[c] \in Nat /\ p[c] < c
    BY <2>2, <2>4
  <2> QED BY <2>3, <2>4, <2>5
<1> QED BY <1>1, <1>2, <1>3, <1>4, <1>5

LEMMA FinalIs == final = CHOOSE f : IsFinal(f, ptr)
BY DEF final, IsFinal
LEMMA FinalIsThen == final' = CHOOSE f : IsFinal(f, ptr')
BY DEF final, IsFinal

(* What doICF has made of the chunks so far.                               *)
Merged ==
  /\ \A c \in Chunk : ptr[c] <= c
  /\ FoldedAreIdentical
  /\ \A c \in Chunk : ptr[c] # c => final[c] \in live

\* No two chunks of the table are equal if nothing was folded in this pass.
Converging ==
  /\ phase = "mark" => pos = 1
  /\ phase = "fold" /\ ~redo =>
       /\ \A c \in live : link.comdat[c] /\ c < pos => c \in table
       /\ \A a, b \in table : a # b => ~Equals(a, b)
  /\ FoldingConverged

(* The replacements as they are, and as they are after a step.             *)
LEMMA FinalNow ==
  ASSUME Typed, \A c \in Chunk : ptr[c] <= c
  PROVE  /\ final \in [Chunk -> Chunk]
         /\ \A c \in Chunk : /\ final[c] = IF ptr[c] = c THEN c ELSE final[ptr[c]]
                            /\ final[c] = final[ptr[c]] /\ ptr[final[c]] = final[c]
<1>1. NumChunks \in Nat /\ ptr \in [Chunk -> Chunk]
  BY LinkFacts DEF Typed, TypeOK
<1> QED BY <1>1, FinalIs, FinalFacts DEF IsFinal

(* A link's relocations and children are sequences.                        *)
LEMMA SeqFacts ==
  ASSUME link \in Links, NEW c \in Chunk
  PROVE  /\ Len(link.relocs[c]) \in Nat /\ Len(link.children[c]) \in Nat
         /\ DOMAIN link.relocs[c] = 1 .. Len(link.relocs[c])
         /\ DOMAIN link.children[c] = 1 .. Len(link.children[c])
         /\ \A i \in DOMAIN link.relocs[c] : link.relocs[c][i] \in Symbols
         /\ \A i \in DOMAIN link.children[c] : link.children[c][i] \in Chunk
<1>1. link.relocs[c] \in Seq(Symbols) /\ link.children[c] \in Seq(Chunk)
  BY LinkFacts
<1> QED BY <1>1, ElementOfSeq, LenProperties

(* SectionChunk::equals does not depend on the order of its operands.      *)
LEMMA EqualsSymmetric ==
  ASSUME link \in Links, NEW a \in Chunk, NEW b \in Chunk, Equals(a, b)
  PROVE  Equals(b, a)
<1>1. /\ DOMAIN link.relocs[a] = DOMAIN link.relocs[b]
      /\ DOMAIN link.children[a] = DOMAIN link.children[b]
  BY SeqFacts DEF Equals
<1>2. \A s, t : SameTarget(s, t) => SameTarget(t, s)
  BY DEF SameTarget
<1> QED BY <1>1, <1>2 DEF Equals

(* Chunks that are equal after the folding so far are identical, and what  *)
(* is identical to one is to the other.                                    *)
LEMMA EqualsAreIdentical ==
  ASSUME Typed, \A c \in Chunk : ptr[c] <= c,
         NEW a \in Chunk, NEW b \in Chunk, Equals(a, b)
  PROVE  /\ Identical(a, b) /\ Identical(b, a)
         /\ \A c \in Chunk : Identical(c, a) => Identical(c, b)
<1> link \in Links
  BY DEF Typed
<1>1. /\ \A i \in DOMAIN link.relocs[a] : link.relocs[a][i] \in Symbols /\ link.relocs[b][i] \in Symbols
      /\ DOMAIN link.relocs[a] = DOMAIN link.relocs[b]
      /\ \A i \in DOMAIN link.children[a] : link.children[a][i] \in Chunk /\ link.children[b][i] \in Chunk
      /\ DOMAIN link.children[a] = DOMAIN link.children[b]
  BY SeqFacts DEF Equals
<1>2. ASSUME NEW s \in Symbols, NEW t \in Symbols, SameTarget(s, t)
      PROVE  SameLocation(s, t) /\ SameLocation(t, s)
  <2>1. CASE s = t
    BY <2>1 DEF SameLocation
  <2>2. CASE s # t
    <3>1. /\ link.chunk[s] \in Chunk /\ link.chunk[t] \in Chunk
          /\ ptr[link.chunk[s]] = ptr[link.chunk[t]] /\ link.value[s] = link.value[t]
      BY <1>2, <2>2, LinkFacts DEF SameTarget, ChunkOf
    <3>2. /\ final[link.chunk[s]] = final[link.chunk[t]] /\ final[link.chunk[s]] \in Chunk
          /\ NoChunk \notin Chunk
      <4>1. /\ final \in [Chunk -> Chunk] /\ \A c \in Chunk : final[c] = final[ptr[c]]
            /\ NoChunk \notin Chunk
        BY FinalNow, LinkFacts
      <4> QED BY <3>1, <4>1
    <3> QED BY <3>1, <3>2 DEF SameLocation, FinalOf
  <2> QED BY <2>1, <2>2
<1>3. \A i \in DOMAIN link.children[a] : final[link.children[a][i]] = final[link.children[b][i]]
  <2>1. ASSUME NEW i \in DOMAIN link.children[a]
        PROVE  final[link.children[a][i]] = final[link.children[b][i]]
    <3>1. ptr[link.children[a][i]] = ptr[link.children[b][i]]
      BY DEF Equals
    <3> QED BY <1>1, <3>1, FinalNow
  <2> QED BY <2>1
<1>4. Identical(a, b) /\ Identical(b, a)
  BY <1>1, <1>2, <1>3 DEF Identical, Equals
<1>5. ASSUME NEW c \in Chunk, Identical(c, a) PROVE Identical(c, b)
  <2>1. \A s, t, u : SameLocation(s, t) /\ SameLocation(t, u) => SameLocation(s, u)
    BY DEF SameLocation
  <2>2. /\ DOMAIN link.relocs[c] = DOMAIN link.relocs[a]
        /\ DOMAIN link.children[c] = DOMAIN link.children[a]
    BY <1>5, SeqFacts DEF Identical
  <2>3. /\ \A i \in DOMAIN link.relocs[c] : SameLocation(link.relocs[c][i], link.relocs[b][i])
        /\ \A i \in DOMAIN link.children[c] :
             final[link.children[c][i]] = final[link.children[b][i]]
    BY <1>4, <1>5, <2>1, <2>2 DEF Identical
  <2> QED BY <1>4, <1>5, <2>3 DEF Identical
<1> QED BY <1>4, <1>5

(* A chunk found equal to one before it takes that one for replacement.    *)
LEMMA FoldMerges ==
  ASSUME Inv, Merged, phase = "fold", link' = link, NEW e \in table, NEW p \in live, e < p,
         Equals(e, p), ptr' = [ptr EXCEPT ![p] = ptr[e]], live' = live \ {p}
  PROVE  Merged'
<1>1. /\ link \in Links /\ Typed /\ NumChunks \in Nat /\ ptr \in [Chunk -> Chunk]
      /\ e \in Chunk /\ p \in Chunk /\ e \in live /\ ptr[e] = e /\ ptr[p] = p
      /\ \A c \in Chunk : ptr[c] <= c
  BY LinkFacts DEF Inv, Typed, TypeOK, Ordered, LiveIsOwn, Merged
<1>2. /\ ptr' \in [Chunk -> Chunk] /\ ptr'[p] = e /\ e # p
      /\ \A c \in Chunk \ {p} : ptr'[c] = ptr[c]
  BY <1>1 DEF Chunk
<1>3. \A c \in Chunk : ptr'[c] <= c
  BY <1>1, <1>2 DEF Chunk
<1> DEFINE To(c) == IF c = p THEN e ELSE c
<1>4. /\ final \in [Chunk -> Chunk]
      /\ \A c \in Chunk : /\ final[c] = IF ptr[c] = c THEN c ELSE final[ptr[c]]
                         /\ final[c] = final[ptr[c]] /\ ptr[final[c]] = final[c]
  BY <1>1, FinalNow
<1>5. \A c \in Chunk : final'[c] = To(final[c])
  <2> DEFINE g == [c \in Chunk |-> To(final[c])]
  <2>1. ASSUME NEW c \in Chunk PROVE g[c] = IF ptr'[c] = c THEN c ELSE g[ptr'[c]]
    <3>1. CASE c = p
      BY <1>1, <1>2, <1>4, <3>1
    <3>2. CASE c # p
      <4>1. ptr'[c] = ptr[c] /\ ptr[c] \in Chunk
        BY <1>1, <1>2, <3>2
      <4> QED BY <1>4, <3>2, <4>1
    <3> QED BY <3>1, <3>2
  <2>2. IsFinal(g, ptr')
    BY <2>1 DEF IsFinal
  <2>3. IsFinal(final', ptr')
    BY <1>1, <1>2, <1>3, FinalIsThen, FinalFacts
  <2>4. final' = g
    BY <1>1, <1>2, <1>3, <2>2, <2>3, FinalUnique
  <2> QED BY <2>4
<1>6. \A s, t \in Symbols : SameLocation(s, t) => SameLocation(s, t)'
  <2>1. \A s \in Symbols : FinalOf(s)' = To(FinalOf(s)) \/ FinalOf(s) = NoChunk
    BY <1>1, <1>5, LinkFacts DEF FinalOf
  <2>2. NoChunk # e
    BY <1>1, LinkFacts
  <2> QED BY <2>1, <2>2 DEF SameLocation
<1>7. ASSUME NEW c \in Chunk, NEW d \in Chunk, Identical(c, d) PROVE Identical(c, d)'
  <2>1. /\ \A i \in DOMAIN link.relocs[c] : link.relocs[c][i] \in Symbols /\ link.relocs[d][i] \in Symbols
        /\ \A i \in DOMAIN link.children[c] : link.children[c][i] \in Chunk /\ link.children[d][i] \in Chunk
    BY <1>1, <1>7, SeqFacts DEF Identical
  <2>2. \A i \in DOMAIN link.relocs[c] : SameLocation(link.relocs[c][i], link.relocs[d][i])'
    BY <1>6, <1>7, <2>1 DEF Identical
  <2>3. \A i \in DOMAIN link.children[c] : final'[link.children[c][i]] = final'[link.children[d][i]]
    BY <1>5, <1>7, <2>1 DEF Identical
  <2> QED BY <1>7, <2>2, <2>3 DEF Identical
<1>8. FoldedAreIdentical'
  <2>1. ASSUME NEW c \in Chunk PROVE Identical(c, final[c])'
    <3>1. PICK d \in Chunk : d = To(final[c])
      BY <1>1, <1>4
    <3>2. Identical(c, final[c]) /\ final[c] \in Chunk
      BY <1>4 DEF Merged, FoldedAreIdentical
    <3>3. Identical(c, d)
      <4>1. CASE final[c] # p
        BY <3>1, <3>2, <4>1
      <4>2. CASE final[c] = p
        <5>1. Equals(p, e)
          BY <1>1, EqualsSymmetric
        <5> QED BY <1>1, <3>1, <3>2, <4>2, <5>1, EqualsAreIdentical
      <4> QED BY <4>1, <4>2
    <3>4. Identical(c, d)' /\ final'[c] = d
      BY <1>5, <1>7, <3>1, <3>3
    <3> QED BY <3>4 DEF Identical
  <2> QED BY <2>1 DEF FoldedAreIdentical
<1>9. ASSUME NEW c \in Chunk, ptr'[c] # c PROVE final'[c] \in live'
  <2>1. final[c] \in live
    <3>1. CASE c = p
      BY <1>1, <1>4, <3>1
    <3>2. CASE c # p
      BY <1>2, <1>9, <3>2 DEF Merged
    <3> QED BY <3>1, <3>2
  <2> QED BY <1>1, <1>2, <1>5, <2>1
<1> QED BY <1>3, <1>8, <1>9 DEF Merged

LEMMA MergedInv == Inv /\ Merged /\ [Next]_vars => Merged'
<1> SUFFICES ASSUME Inv, Merged, [Next]_vars PROVE Merged'
  OBVIOUS
<1>1. ASSUME UNCHANGED <<link, ptr>>, live \subseteq live' PROVE Merged'
  <2>1. final' = final
    BY <1>1, FinalIs, FinalIsThen DEF IsFinal
  <2>2. FoldedAreIdentical'
    BY <1>1, <2>1 DEF Merged, FoldedAreIdentical, Identical, SameLocation, FinalOf
  <2> QED BY <1>1, <2>1, <2>2 DEF Merged
<1>2. CASE FoldChunk
  <2>1. /\ phase = "fold" /\ link' = link
        /\ \/ UNCHANGED <<live, ptr>>
           \/ \E e \in table : /\ pos \in live /\ Equals(e, pos)
                               /\ ptr' = [ptr EXCEPT ![pos] = ptr[e]] /\ live' = live \ {pos}
    BY <1>2 DEF FoldChunk
  <2>2. \A e \in table : e < pos
    BY DEF Inv, Ordered
  <2> QED BY <1>1, <2>1, <2>2, FoldMerges
<1>3. CASE ~FoldChunk
  <2>1. UNCHANGED <<link, ptr>> /\ live \subseteq live'
    BY <1>3 DEF Next, vars, MarkRoot, RootsDone, ScanChunk, ScanDone, PopChunk, MarkSymbol, MarkChild,
                MarkDone, FoldAgain, Terminated, Mark
  <2> QED BY <1>1, <2>1
<1> QED BY <1>2, <1>3

LEMMA MergedInit == Init => Merged
<1> SUFFICES ASSUME Init PROVE Merged
  OBVIOUS
<1>1. link \in Links /\ ptr = [c \in Chunk |-> c] /\ NumChunks \in Nat /\ Typed
  BY InitInv, LinkFacts DEF Init, Inv
<1>2. \A c \in Chunk : ptr[c] <= c
  BY <1>1 DEF Chunk
<1>3. \A c \in Chunk : final[c] = c
  BY <1>1, <1>2, FinalNow
<1> QED BY <1>1, <1>2, <1>3 DEF Merged, FoldedAreIdentical, Identical, SameLocation

LEMMA ConvergingInit == Init => Converging
<1> SUFFICES ASSUME Init PROVE Converging
  OBVIOUS
<1> QED BY LinkFacts DEF Init, Converging, FoldingConverged, FirstPhase, Chunk

LEMMA ConvergingInv == Inv /\ Converging /\ [Next]_vars => Converging'
<1> SUFFICES ASSUME Inv, Converging, [Next]_vars PROVE Converging'
  OBVIOUS
<1>1. /\ link \in Links /\ NumChunks \in Nat /\ pos \in 1 .. NumChunks + 1 /\ live \subseteq Chunk
      /\ table \subseteq live /\ redo \in BOOLEAN /\ link.icf \in BOOLEAN
      /\ phase \in {"roots", "scan", "mark", "fold", "done"}
  BY LinkFacts DEF Inv, Typed, TypeOK, Ordered, LiveIsOwn
<1>2. ASSUME UNCHANGED <<link, ptr>> PROVE \A a, b : Equals(a, b)' <=> Equals(a, b)
  BY <1>2 DEF Equals, SameTarget, ChunkOf
<1>3. CASE UNCHANGED vars \/ Terminated
  <2>1. UNCHANGED <<link, phase, live, ptr, pos, table, redo>>
    BY <1>3 DEF vars, Terminated, folding
  <2> QED BY <1>2, <2>1 DEF Converging, FoldingConverged
<1>4. CASE \/ \E s \in Symbols : MarkRoot(s)
           \/ RootsDone \/ ScanChunk \/ ScanDone \/ PopChunk \/ MarkSymbol \/ MarkChild
  <2>1. phase' \in {"roots", "scan", "mark"} /\ (phase' = "mark" => pos' = 1)
    BY <1>4 DEF MarkRoot, RootsDone, ScanChunk, ScanDone, PopChunk, MarkSymbol, MarkChild, Converging
  <2> QED BY <2>1 DEF Converging, FoldingConverged
<1>5. CASE MarkDone
  <2>1. /\ phase' = (IF link.icf THEN "fold" ELSE "done") /\ pos' = 1 /\ table' = {}
        /\ UNCHANGED <<link, live, ptr>>
    BY <1>5 DEF MarkDone, Converging, Inv, Early, Marks, folding
  <2> QED BY <1>1, <2>1 DEF Converging, FoldingConverged, Chunk
<1>6. CASE FoldChunk
  <2>1. phase = "fold" /\ phase' = "fold" /\ link' = link /\ pos' = pos + 1 /\ pos \in Chunk
    BY <1>1, <1>6 DEF FoldChunk, Chunk
  <2>2. SUFFICES ASSUME ~redo'
                 PROVE  /\ \A c \in live' : link.comdat[c] /\ c < pos' => c \in table'
                        /\ \A a, b \in table' : a # b => ~Equals(a, b)'
    BY <2>1 DEF Converging, FoldingConverged
  <2>3. /\ UNCHANGED <<live, ptr, redo>>
        /\ \/ table' = table /\ (~link.comdat[pos] \/ pos \notin live)
           \/ table' = table \cup {pos} /\ ~\E e \in table : Equals(e, pos)
    BY <1>6, <2>2 DEF FoldChunk, folding
  <2>4. /\ \A c \in live : link.comdat[c] /\ c < pos => c \in table
        /\ \A a, b \in table : a # b => ~Equals(a, b)
    BY <2>1, <2>2, <2>3 DEF Converging
  <2>5. \A c \in live' : link.comdat[c] /\ c < pos' => c \in table'
    <3>1. \A c \in live : c < pos' => c < pos \/ c = pos
      BY <1>1, <2>1 DEF Chunk
    <3> QED BY <2>3, <2>4, <3>1
  <2>6. \A a, b \in table' : a # b => ~Equals(a, b)'
    <3>1. \A e \in table : ~Equals(e, pos) => ~Equals(pos, e)
      BY <1>1, <2>1, EqualsSymmetric
    <3> QED BY <1>2, <2>1, <2>3, <2>4, <3>1
  <2> QED BY <2>5, <2>6
<1>7. CASE FoldAgain
  <2>1. /\ phase = "fold" /\ pos > NumChunks /\ UNCHANGED <<link, live, ptr>>
        /\ \/ redo /\ pos' = 1 /\ table' = {} /\ phase' = "fold"
           \/ ~redo /\ phase' = "done"
    BY <1>7 DEF FoldAgain
  <2>2. CASE redo /\ pos' = 1 /\ table' = {} /\ phase' = "fold"
    BY <1>1, <2>1, <2>2 DEF Converging, FoldingConverged, Chunk
  <2>3. CASE ~redo /\ phase' = "done"
    <3>1. \A c \in live : link.comdat[c] => c \in table
      BY <1>1, <2>1, <2>3 DEF Converging, Chunk
    <3>2. \A a, b \in live : a # b /\ link.comdat[a] /\ link.comdat[b] => ~Equals(a, b)
      BY <2>1, <2>3, <3>1 DEF Converging
    <3>3. FoldingConverged'
      BY <1>2, <2>1, <3>2 DEF FoldingConverged
    <3> QED BY <2>3, <3>3 DEF Converging
  <2> QED BY <2>1, <2>2, <2>3
<1> QED BY <1>3, <1>4, <1>5, <1>6, <1>7 DEF Next

\* What doICF promises, beside what both passes keep.
Folds == Merged /\ Converging
LEMMA FoldsHold == Spec => [](Inv /\ Folds)
<1>1. Init => Inv /\ Folds
  BY InitInv, MergedInit, ConvergingInit DEF Folds
<1>2. (Inv /\ Folds) /\ [Next]_vars => (Inv /\ Folds)'
  BY NextInv, MergedInv, ConvergingInv DEF Folds
<1> QED BY <1>1, <1>2, PTL DEF Spec

(* Folding is sound: where a folded chunk ends, in whatever order passes   *)
(* and hash buckets offered the candidates, there is one with its contents *)
(* whose references and associative sections end where its own do.         *)
THEOREM FoldingIsSound == Spec => []FoldedAreIdentical
<1>1. Folds => FoldedAreIdentical
  BY DEF Folds, Merged
<1> QED BY <1>1, FoldsHold, PTL

(* doICF stops only when no two live COMDAT chunks are equal any more.     *)
THEOREM FoldingConverges == Spec => []FoldingConverged
<1>1. Folds => FoldingConverged
  BY DEF Folds, Converging
<1> QED BY <1>1, FoldsHold, PTL

(* A live associative section of a folded chunk is that of a live chunk.   *)
THEOREM UnwindDataFollows == Spec => []ChildrenFollow
<1>1. Inv /\ Folds => ChildrenFollow
  <2> SUFFICES ASSUME Inv, Folds, NEW p \in Chunk, ptr[p] # p,
                      NEW i \in DOMAIN link.children[p], link.children[p][i] \in live
               PROVE  \E q \in live : \E j \in DOMAIN link.children[q] :
                         final[link.children[q][j]] = link.children[p][i]
    BY DEF ChildrenFollow
  <2>1. Typed /\ link \in Links /\ live \subseteq Chunk /\ \A c \in Chunk : ptr[c] <= c
    BY DEF Inv, Typed, TypeOK, Folds, Merged
  <2>2. final[p] \in live /\ final[p] \in Chunk /\ Identical(p, final[p])
    BY <2>1 DEF Folds, Merged, FoldedAreIdentical
  <2>3. i \in DOMAIN link.children[final[p]]
    BY <2>1, <2>2, SeqFacts DEF Identical
  <2>4. final[link.children[p][i]] = link.children[p][i]
    BY <2>1, FinalNow DEF Inv, Ordered, LiveIsOwn
  <2> QED BY <2>2, <2>3, <2>4 DEF Identical
<1> QED BY <1>1, FoldsHold, PTL
=============================================================================
