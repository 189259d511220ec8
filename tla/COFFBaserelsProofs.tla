------------------------ MODULE COFFBaserelsProofs -------------------------
(***************************************************************************)
(* Proofs about COFFWriter's base relocations: .reloc is made last, of     *)
(* blocks that list the absolute places, and no address changes after.     *)
(***************************************************************************)
EXTENDS COFFWriterProofs

-----------------------------------------------------------------------------
(* Blocks, made of the chunks that have addresses.                         *)

\* What is picked from a sequence.
LEMMA PickedSet ==
  ASSUME NEW T, NEW s \in Seq(T), NEW I \in SUBSET DOMAIN s
  PROVE  ToSet(Picked(s, I)) = {s[i] : i \in I}
<1>1. PICK p : p = Picked(s, I)
  OBVIOUS
<1>2. /\ \A k \in DOMAIN p : \E i \in I : p[k] = s[i]
      /\ \A i \in I : \E k \in DOMAIN p : p[k] = s[i]
  <2>1. /\ DOMAIN Picked(s, I) = 1 .. Cardinality(I)
        /\ \A k \in 1 .. Cardinality(I) : \E i \in I : Picked(s, I)[k] = s[i]
        /\ \A i \in I : \E k \in 1 .. Cardinality(I) : Picked(s, I)[k] = s[i]
    BY PickedFacts
  <2> QED BY <1>1, <2>1
<1> QED BY <1>1, <1>2 DEF ToSet

\* Where a chunk has absolute addresses that depend on where the image is.
AbsoluteIn(w, p) ==
  CASE p.chunk.is = "section" ->
         {p.rva + x.at : x \in {y \in ToSet(w.chunks[p.chunk.of].relocs) :
                                  y.abs /\ ~y.base}}
    [] p.chunk.is \in {"local", "delay address"} -> {p.rva}
    [] p.chunk.is = "thunk" -> IF w.is64 THEN {} ELSE {p.rva + 2}
    [] OTHER -> {}

\* Chunks other than thunks of 32 bits say so.
LEMMA BaserelsSet ==
  ASSUME world \in Worlds, NEW p \in PlacedChunks(world),
         world.is64 \/ p.chunk.is # "thunk"
  PROVE  ToSet(Baserels(p)) = AbsoluteIn(world, p)
<1>1. p.chunk \in AllChunks(world)
  BY DEF PlacedChunks
<1>2. CASE p.chunk.is = "section"
  <2>1. world.chunks[p.chunk.of] \in InputChunks
    BY <1>1, <1>2, ChunkParts, SectionChunks
  <2>2. PICK r \in Seq(Relocs) : r = world.chunks[p.chunk.of].relocs
    BY <2>1 DEF InputChunks
  <2>3. PICK I \in SUBSET DOMAIN r : I = {i \in DOMAIN r : r[i].abs /\ ~r[i].base}
    OBVIOUS
  <2>4. PICK s : s = Picked(r, I) /\ ToSet(s) = {r[i] : i \in I}
    BY PickedSet
  <2>5. Baserels(p) = [k \in DOMAIN s |-> p.rva + s[k].at]
    BY <1>2, <2>2, <2>3, <2>4 DEF Baserels, Each
  <2>6. ToSet(Baserels(p)) = {p.rva + x.at : x \in ToSet(s)}
    BY <2>5 DEF ToSet
  <2>7. ToSet(s) = {y \in ToSet(r) : y.abs /\ ~y.base}
    BY <2>3, <2>4 DEF ToSet
  <2>8. AbsoluteIn(world, p) = {p.rva + x.at : x \in {y \in ToSet(r) : y.abs /\ ~y.base}}
    BY <1>2, <2>2 DEF AbsoluteIn
  <2> QED BY <2>6, <2>7, <2>8
<1>3. CASE p.chunk.is # "section" /\ p.chunk.is \in {"local", "delay address"}
  <2>1. Baserels(p) = <<p.rva>> /\ AbsoluteIn(world, p) = {p.rva}
    BY <1>3 DEF Baserels, AbsoluteIn
  <2>2. ToSet(<<p.rva>>) = {p.rva}
    BY DEF ToSet
  <2> QED BY <2>1, <2>2
<1>4. CASE p.chunk.is # "section" /\ p.chunk.is \notin {"local", "delay address"}
  <2>1. Baserels(p) = <<>> /\ AbsoluteIn(world, p) = {}
    BY <1>4 DEF Baserels, AbsoluteIn
  <2>2. ToSet(<<>>) = {}
    BY DEF ToSet
  <2> QED BY <2>1, <2>2
<1> QED BY <1>2, <1>3, <1>4

\* An address is in its page.
LEMMA PageFacts ==
  ASSUME NEW v \in Nat, NEW size \in Nat \ {0}
  PROVE  Page(v, size) \in Nat /\ v \in Page(v, size) .. (Page(v, size) + size - 1)
<1>1. v \div size \in Nat
  OBVIOUS
<1>2. (v \div size) * size \in Nat
  BY <1>1
<1>3. PICK q \in Nat, r \in 0 .. size - 1 : q = (v \div size) * size /\ v = q + r
  BY <1>2, DivFacts, v \in Int
<1> QED BY <1>3 DEF Page

\* The blocks have the locations, each in the block of its page.
LEMMA BlocksSet ==
  ASSUME NEW V \in Seq(Nat), NEW size \in Nat \ {0}
  PROVE  LET bs == BaserelBlocks(V, size)
         IN  /\ UNION {ToSet(bs[i].entries) : i \in DOMAIN bs} = ToSet(V)
             /\ \A i \in DOMAIN bs : \A v \in ToSet(bs[i].entries) :
                  v \in bs[i].page .. (bs[i].page + size - 1)
<1>1. PICK n \in Nat : n = Len(V) /\ DOMAIN V = 1 .. n /\ \A i \in 1 .. n : V[i] \in Nat
  BY LenProperties, ElementOfSeq
<1>2. PICK starts : starts = {i \in DOMAIN V : i = 1 \/ Page(V[i], size) # Page(V[i - 1], size)}
  OBVIOUS
<1>3. starts \in SUBSET (1 .. n) /\ IsFiniteSet(starts) /\ starts \in SUBSET Int
  <2>1. starts \in SUBSET (1 .. n) /\ IsFiniteSet(1 .. n)
    BY <1>1, <1>2, FS_Interval
  <2>2. 1 .. n \subseteq Int
    OBVIOUS
  <2>3. IsFiniteSet(starts)
    BY <2>1, FS_Subset
  <2> QED BY <2>1, <2>2, <2>3
<1>4. PICK a \in Seq(starts) : /\ a = Ascending(starts)
                               /\ \A x \in starts : \E k \in DOMAIN a : a[k] = x
                               /\ \A k \in DOMAIN a : a[k] \in starts
  <2>1. PICK a \in Seq(starts) : /\ a = Ascending(starts)
                                 /\ \A x \in starts : \E k \in DOMAIN a : a[k] = x
    BY <1>3, AscendingFacts
  <2> QED BY <2>1, LenProperties, ElementOfSeq
<1> DEFINE later(i) == {j \in starts : j > i} \cup {n + 1}
           end(i) == Min(later(i)) - 1
           f == [k \in DOMAIN a |-> [page |-> Page(V[a[k]], size),
                                     entries |-> SubSeq(V, a[k], end(a[k]))]]
<1>5. BaserelBlocks(V, size) = f
  BY <1>1, <1>2, <1>4 DEF BaserelBlocks, Each
<1>6. ASSUME NEW i \in starts
      PROVE  /\ end(i) \in i .. n
             /\ \A j \in starts : ~(j > i /\ j <= end(i))
             /\ ToSet(SubSeq(V, i, end(i))) = {V[j] : j \in i .. end(i)}
  <2>1. PICK M : M = later(i)
    OBVIOUS
  <2>2. M \in SUBSET Nat /\ M # {} /\ \A x \in M : x > i /\ x <= n + 1
    <3>1. i \in 1 .. n
      BY <1>3
    <3>2. \A x \in M : x \in Nat /\ x > i /\ x <= n + 1
      BY <1>3, <2>1, <3>1
    <3>3. n + 1 \in M
      BY <2>1
    <3> QED BY <3>2, <3>3
  <2>3. PICK m \in M : m = Min(M) /\ \A x \in M : m <= x
    BY <2>2, MinFacts
  <2>4. PICK e \in i .. n : e = end(i) /\ e = m - 1
    <3>1. i \in 1 .. n /\ m \in Nat /\ m > i /\ m <= n + 1
      BY <1>3, <2>2
    <3>2. m - 1 \in i .. n
      BY <3>1
    <3> QED BY <2>1, <2>3, <3>2
  <2>5. ASSUME NEW j \in starts PROVE ~(j > i /\ j <= e)
    <3>1. j \in 1 .. n /\ (j > i => j \in M)
      BY <1>3, <2>1
    <3>2. j > i => m <= j
      BY <2>3, <3>1
    <3>3. m \in Nat
      BY <2>2
    <3> QED BY <2>4, <3>1, <3>2, <3>3
  <2>6. ToSet(SubSeq(V, i, e)) = {V[j] : j \in i .. e}
    <3>1. i \in 1 .. n /\ e \in 1 .. n
      BY <1>3, <2>4
    <3>2. /\ Len(SubSeq(V, i, e)) = e - i + 1 /\ SubSeq(V, i, e) \in Seq(Nat)
          /\ \A j \in 1 .. e - i + 1 : SubSeq(V, i, e)[j] = V[i + j - 1]
      <4>1. i <= e
        BY <2>4, <3>1
      <4> HIDE DEF later, end
      <4> QED BY <1>1, <3>1, <4>1
    <3>3. PICK S : S = SubSeq(V, i, e) /\ DOMAIN S = 1 .. e - i + 1
      BY <3>2, LenProperties
    <3>4. ASSUME NEW j \in DOMAIN S PROVE \E k \in i .. e : S[j] = V[k]
      <4>1. i + j - 1 \in i .. e
        BY <3>1, <3>3
      <4> QED BY <3>2, <3>3, <4>1
    <3>5. ASSUME NEW k \in i .. e PROVE \E j \in DOMAIN S : S[j] = V[k]
      <4>1. k - i + 1 \in 1 .. e - i + 1 /\ i + (k - i + 1) - 1 = k
        BY <3>1
      <4> QED BY <3>2, <3>3, <4>1
    <3>6. ToSet(S) = {S[j] : j \in DOMAIN S}
      BY DEF ToSet
    <3> HIDE DEF later, end
    <3>7. {S[j] : j \in DOMAIN S} = {V[k] : k \in i .. e}
      BY <3>4, <3>5
    <3> QED BY <3>3, <3>6, <3>7
  <2> QED BY <2>4, <2>5, <2>6
<1>7. ASSUME NEW i \in starts, NEW j \in i .. end(i)
      PROVE  Page(V[j], size) = Page(V[i], size)
  <2>1. PICK e \in i .. n : e = end(i)
    BY <1>6
  <2>2. i \in 1 .. n
    BY <1>3
  <2> DEFINE Odd == {x \in i .. e : Page(V[x], size) # Page(V[i], size)}
  <2>3. SUFFICES ASSUME Odd # {} PROVE FALSE
    BY <2>1
  <2>4. PICK x \in Odd : \A y \in Odd : x <= y
    <3>1. Odd \in SUBSET Nat
      BY <2>2
    <3> HIDE DEF Odd
    <3> QED BY <2>3, <3>1, Least
  <2>5. x \in i .. e /\ x # i /\ x \in 2 .. n
    BY <2>2
  <2>6. x - 1 \in i .. e /\ x - 1 \notin Odd
    BY <2>2, <2>4, <2>5
  <2>7. Page(V[x - 1], size) # Page(V[x], size)
    BY <2>6
  <2>8. x \in starts
    BY <1>1, <1>2, <2>5, <2>7
  <2>9. x > i /\ x <= e
    BY <2>2, <2>5
  <2> HIDE DEF end
  <2> QED BY <1>6, <2>1, <2>8, <2>9
<1>8. ASSUME NEW j \in 1 .. n PROVE \E i \in starts : j \in i .. end(i)
  <2> DEFINE Back == {d \in Nat : j - d \in starts}
  <2>1. 1 \in starts
    BY <1>1, <1>2
  <2>2. j - 1 \in Back
    <3>1. j - 1 \in Nat /\ j - (j - 1) = 1
      OBVIOUS
    <3> QED BY <2>1, <3>1
  <2>3. PICK d \in Back : \A c \in Back : d <= c
    <3>1. Back \in SUBSET Nat /\ Back # {}
      BY <2>2
    <3> HIDE DEF Back
    <3> QED BY <3>1, Least
  <2>4. PICK i \in starts : i = j - d /\ i \in 1 .. n /\ i <= j
    BY <1>3, <2>3
  <2>5. ASSUME NEW x \in starts, x > i, x <= j PROVE FALSE
    <3>1. x \in 1 .. n
      BY <1>3
    <3>2. j - x \in Nat /\ j - (j - x) = x
      BY <2>5, <3>1
    <3>3. j - x \in Back
      BY <3>2
    <3>4. d <= j - x /\ d \in Nat
      BY <2>3, <3>3
    <3> QED BY <2>4, <2>5, <3>1, <3>4
  <2>6. PICK m \in later(i) : m = Min(later(i))
    <3>1. n + 1 \in later(i) /\ n + 1 \in Nat /\ starts \subseteq Nat
      BY <1>3
    <3>2. later(i) \in SUBSET Nat /\ later(i) # {}
      BY <3>1
    <3> HIDE DEF later
    <3> QED BY <3>2, MinFacts
  <2>7. m > j /\ m \in Nat
    <3>1. CASE m = n + 1
      BY <3>1
    <3>2. CASE m \in starts /\ m > i
      <4>1. m \in 1 .. n
        BY <1>3, <3>2
      <4> QED BY <2>5, <3>2, <4>1
    <3> QED BY <3>1, <3>2
  <2>8. end(i) = m - 1 /\ j \in i .. m - 1
    BY <2>4, <2>6, <2>7
  <2> HIDE DEF end
  <2> QED BY <2>8
<1> HIDE DEF later, end
<1>9. ASSUME NEW k \in DOMAIN f
      PROVE  /\ a[k] \in starts
             /\ ToSet(f[k].entries) = {V[j] : j \in a[k] .. end(a[k])}
             /\ f[k].page = Page(V[a[k]], size)
  <2>1. a[k] \in starts
    BY <1>4
  <2> QED BY <1>6, <2>1
<1>10. DOMAIN f = DOMAIN a
  OBVIOUS
<1> HIDE DEF f
<1>11. UNION {ToSet(f[k].entries) : k \in DOMAIN f} = ToSet(V)
  <2>1. ASSUME NEW k \in DOMAIN f, NEW v \in ToSet(f[k].entries) PROVE v \in ToSet(V)
    <3>1. PICK j \in a[k] .. end(a[k]) : v = V[j]
      BY <1>9, <2>1
    <3>2. a[k] \in 1 .. n /\ end(a[k]) \in a[k] .. n
      BY <1>3, <1>6, <1>9
    <3>3. j \in 1 .. n
      BY <3>2
    <3> QED BY <1>1, <3>1, <3>3 DEF ToSet
  <2>2. ASSUME NEW v \in ToSet(V) PROVE \E k \in DOMAIN f : v \in ToSet(f[k].entries)
    <3>1. PICK j \in 1 .. n : v = V[j]
      BY <1>1 DEF ToSet
    <3>2. PICK i \in starts : j \in i .. end(i)
      BY <1>8
    <3>3. PICK k \in DOMAIN f : a[k] = i
      BY <1>4, <1>10
    <3> QED BY <1>9, <3>1, <3>2, <3>3
  <2> QED BY <2>1, <2>2
<1>12. ASSUME NEW k \in DOMAIN f, NEW v \in ToSet(f[k].entries)
       PROVE  v \in f[k].page .. (f[k].page + size - 1)
  <2>1. PICK j \in a[k] .. end(a[k]) : v = V[j]
    BY <1>9, <1>12
  <2>2. a[k] \in 1 .. n /\ end(a[k]) \in a[k] .. n
    BY <1>3, <1>6, <1>9
  <2>3. j \in 1 .. n
    BY <2>2
  <2>4. Page(V[j], size) = f[k].page
    BY <1>7, <1>9
  <2>5. v \in Nat
    BY <1>1, <2>1, <2>3
  <2> QED BY <2>1, <2>4, <2>5, PageFacts
<1> QED BY <1>5, <1>11, <1>12
-----------------------------------------------------------------------------
(* .reloc.                                                                 *)

BlocksComplete ==
  /\ UNION {ToSet(blocks[i].entries) : i \in DOMAIN blocks} = AbsolutePlaces
  /\ \A i \in DOMAIN blocks : \A v \in ToSet(blocks[i].entries) :
       v \in blocks[i].page .. (blocks[i].page + PageSize - 1)

AbsoluteKinds == {"section", "local", "delay address", "thunk"}
\* A section without absolute addresses.
NoAddresses(s) == \A i \in DOMAIN s.chunks : s.chunks[i].chunk.is \notin AbsoluteKinds

\* No chunk has an absolute address without saying so.
Candid(w, s) == \A i \in DOMAIN s.chunks : w.is64 \/ s.chunks[i].chunk.is # "thunk"

RelocLast ==
  /\ Len(order) > 0 /\ order[Len(order)] = ".reloc"
  /\ NoAddresses(out[".reloc"])

Listing == {"sections", "misc", "imports", "exports"}

\* .reloc comes last and is made of blocks, which are complete once they are
\* made: what gets an address afterwards is .reloc itself.
RelocInv ==
  /\ phase \in Adding \cup Assigning => DOMAIN out = ToSet(order)
  /\ \A n \in DOMAIN out : Candid(world, out[n])
  /\ phase \in {"fixup", "start"} \cup Listing =>
       /\ ".reloc" \notin DOMAIN out
       /\ \A i \in DOMAIN todo :
            /\ todo[i].sec # ".reloc"
            /\ todo[i].chunk # None => world.is64 \/ todo[i].chunk.is # "thunk"
  /\ phase = "reloc" => \/ ".reloc" \notin DOMAIN out /\ todo = <<Add(".reloc", None)>>
                        \/ todo = <<>> /\ RelocLast
  /\ phase \in Assigning => RelocLast
  /\ phase = "baserels" =>
       \A i \in DOMAIN todo : todo[i].chunk # None => todo[i].chunk.is = "baserel"
  /\ \/ phase = "baserels"
     \/ phase = "addresses" /\ next > Len(order)
     \/ phase \in Assigned \cup {"write", "done"}
     => BlocksComplete
\* The places with absolute addresses are those in the chunks of the sections.
LEMMA AbsoluteIs ==
  /\ \A v : v \in AbsolutePlaces <=>
       \E n \in DOMAIN out : \E i \in DOMAIN out[n].chunks :
         v \in AbsoluteIn(world, out[n].chunks[i])
  /\ \A v : v \in AbsolutePlaces' <=>
       \E n \in DOMAIN out' : \E i \in DOMAIN out'[n].chunks :
         v \in AbsoluteIn(world', out'[n].chunks[i])
<1>1. AbsolutePlaces = UNION {AbsoluteIn(world, p) : p \in Placed}
  BY DEF AbsolutePlaces, AbsoluteIn
<1>2. AbsolutePlaces' = UNION {AbsoluteIn(world', p) : p \in Placed'}
  BY DEF AbsolutePlaces, AbsoluteIn
<1>3. Placed = UNION {ToSet(out[n].chunks) : n \in DOMAIN out}
  BY DEF Placed
<1>4. Placed' = UNION {ToSet(out'[n].chunks) : n \in DOMAIN out'}
  BY DEF Placed
<1>5. \A s : ToSet(s) = {s[i] : i \in DOMAIN s}
  BY DEF ToSet
<1>6. ASSUME NEW v
      PROVE  v \in AbsolutePlaces <=>
       \E n \in DOMAIN out : \E i \in DOMAIN out[n].chunks :
         v \in AbsoluteIn(world, out[n].chunks[i])
  <2>1. v \in AbsolutePlaces <=> \E p \in Placed : v \in AbsoluteIn(world, p)
    BY <1>1
  <2>2. \A p : p \in Placed <=>
          \E n \in DOMAIN out : \E i \in DOMAIN out[n].chunks : p = out[n].chunks[i]
    BY <1>3, <1>5
  <2> QED BY <2>1, <2>2
<1>7. ASSUME NEW v
      PROVE  v \in AbsolutePlaces' <=>
       \E n \in DOMAIN out' : \E i \in DOMAIN out'[n].chunks :
         v \in AbsoluteIn(world', out'[n].chunks[i])
  <2>1. v \in AbsolutePlaces' <=> \E p \in Placed' : v \in AbsoluteIn(world', p)
    BY <1>2
  <2>2. \A p : p \in Placed' <=>
          \E n \in DOMAIN out' : \E i \in DOMAIN out'[n].chunks : p = out'[n].chunks[i]
    BY <1>4, <1>5
  <2> QED BY <2>1, <2>2
<1> QED BY <1>6, <1>7

\* A section without absolute addresses adds none.
LEMMA NoneIn ==
  ASSUME NEW w, NEW p, p.chunk.is \notin AbsoluteKinds
  PROVE  AbsoluteIn(w, p) = {}
BY DEF AbsoluteIn, AbsoluteKinds

\* The blocks stay complete while only .reloc changes.
LEMMA BlocksKept ==
  ASSUME BlocksComplete, world' = world, blocks' = blocks,
         DOMAIN out' = DOMAIN out, \A n \in DOMAIN out \ {".reloc"} : out'[n] = out[n],
         NoAddresses(out[".reloc"]), NoAddresses(out'[".reloc"])
  PROVE  BlocksComplete'
<1>2. ASSUME NEW n \in DOMAIN out, n = ".reloc"
      PROVE  /\ \A i \in DOMAIN out[n].chunks : AbsoluteIn(world, out[n].chunks[i]) = {}
             /\ \A i \in DOMAIN out'[n].chunks : AbsoluteIn(world, out'[n].chunks[i]) = {}
  BY <1>2, NoneIn DEF NoAddresses
<1>3. \A v : v \in AbsolutePlaces <=>
        \E n \in DOMAIN out : \E i \in DOMAIN out[n].chunks :
         v \in AbsoluteIn(world, out[n].chunks[i])
  BY AbsoluteIs
<1>4. \A v : v \in AbsolutePlaces' <=>
        \E n \in DOMAIN out : \E i \in DOMAIN out'[n].chunks :
          v \in AbsoluteIn(world, out'[n].chunks[i])
  BY AbsoluteIs
<1>5. ASSUME NEW n \in DOMAIN out, NEW v
      PROVE  (\E i \in DOMAIN out[n].chunks : v \in AbsoluteIn(world, out[n].chunks[i]))
               <=> (\E i \in DOMAIN out'[n].chunks : v \in AbsoluteIn(world, out'[n].chunks[i]))
  <2>1. CASE n = ".reloc"
    BY <1>2, <2>1
  <2>2. CASE n # ".reloc"
    BY <2>2
  <2> QED BY <2>1, <2>2
<1>6. \A v : v \in AbsolutePlaces' <=> v \in AbsolutePlaces
  BY <1>3, <1>4, <1>5
<1>7. AbsolutePlaces' = AbsolutePlaces
  BY <1>6
<1> QED BY <1>7 DEF BlocksComplete

\* addBaserels makes the blocks of all sections but .reloc, which has no
\* absolute addresses.
LEMMA BlocksMade ==
  ASSUME IInv, DOMAIN out = ToSet(order), \A n \in DOMAIN out : Candid(world, out[n]),
         NoAddresses(out[".reloc"])
  PROVE  /\ UNION {ToSet(NewBlocks[i].entries) : i \in DOMAIN NewBlocks} = AbsolutePlaces
         /\ \A i \in DOMAIN NewBlocks : \A v \in ToSet(NewBlocks[i].entries) :
              v \in NewBlocks[i].page .. (NewBlocks[i].page + PageSize - 1)
<1>1. PICK q \in Seq(SectionNames) : q = order
  BY DEF IInv, TypeInv
<1>2. PICK I \in SUBSET DOMAIN q : I = {i \in DOMAIN q : q[i] # ".reloc"}
  OBVIOUS
<1>3. PICK names \in Seq(SectionNames) : names = Picked(q, I) /\ ToSet(names) = {q[i] : i \in I}
  <2>1. Picked(q, I) \in Seq(SectionNames)
    BY PickedFacts
  <2> QED BY <2>1, PickedSet
<1>4. ToSet(names) = DOMAIN out \ {".reloc"}
  BY <1>1, <1>2, <1>3 DEF ToSet
<1> DEFINE places(n) == [j \in DOMAIN out[n].chunks |-> Baserels(out[n].chunks[j])]
           list(n) == FlattenSeq(places(n))
           row == [k \in DOMAIN names |-> BaserelBlocks(list(names[k]), PageSize)]
           InBlocks(bs, v) == \E i \in DOMAIN bs : v \in ToSet(bs[i].entries)
           InPages(bs) == \A i \in DOMAIN bs : \A v \in ToSet(bs[i].entries) :
                            v \in bs[i].page .. (bs[i].page + PageSize - 1)
           Has(n, v) == \E i \in DOMAIN out[n].chunks : v \in AbsoluteIn(world, out[n].chunks[i])
<1>5. NewBlocks = FlattenSeq(row)
  BY <1>1, <1>2, <1>3 DEF NewBlocks, Each
<1>6. ASSUME NEW n \in DOMAIN out
      PROVE  list(n) \in Seq(Nat) /\ \A v : v \in ToSet(list(n)) <=> Has(n, v)
  <2>1. world \in Worlds /\ out[n] \in Sections(world)
    BY DEF IInv, TypeInv
  <2>2. PICK cs \in Seq(PlacedChunks(world)) : cs = out[n].chunks
    BY <2>1, SectionParts
  <2> DEFINE f == [j \in DOMAIN cs |-> Baserels(cs[j])]
  <2>3. ASSUME NEW j \in DOMAIN cs
        PROVE  f[j] \in Seq(Nat) /\ ToSet(f[j]) = AbsoluteIn(world, cs[j])
    <3>1. cs[j] \in PlacedChunks(world)
      BY LenProperties, ElementOfSeq
    <3>2. Baserels(cs[j]) \in Seq(Nat)
      BY <2>1, <3>1, BaserelsTyped
    <3>3. world.is64 \/ cs[j].chunk.is # "thunk"
      BY <2>2 DEF Candid
    <3>4. ToSet(Baserels(cs[j])) = AbsoluteIn(world, cs[j])
      BY <2>1, <3>1, <3>3, BaserelsSet
    <3> QED BY <3>2, <3>4
  <2>4. DOMAIN f = DOMAIN cs /\ f = [j \in DOMAIN f |-> f[j]]
    OBVIOUS
  <2>5. places(n) = f
    BY <2>2
  <2> HIDE DEF f, places
  <2>6. f \in Seq(Seq(Nat))
    BY <2>3, <2>4, MapTyped
  <2>7. FlattenSeq(f) \in Seq(Nat) /\ ToSet(FlattenSeq(f)) = UNION {ToSet(f[j]) : j \in DOMAIN f}
    BY <2>6, FlattenFacts
  <2>8. \A v : v \in ToSet(FlattenSeq(f)) <=> \E j \in DOMAIN cs : v \in AbsoluteIn(world, cs[j])
    BY <2>3, <2>4, <2>7
  <2> QED BY <2>2, <2>5, <2>7, <2>8
<1> HIDE DEF list, places
<1>7. ASSUME NEW n \in DOMAIN out
      PROVE  LET bs == BaserelBlocks(list(n), PageSize)
             IN  /\ bs \in Seq(Blocks) /\ InPages(bs)
                 /\ \A v : InBlocks(bs, v) <=> Has(n, v)
  <2>1. PICK V \in Seq(Nat) : V = list(n) /\ \A v : v \in ToSet(V) <=> Has(n, v)
    BY <1>6
  <2>2. PICK bs : bs = BaserelBlocks(V, PageSize)
    OBVIOUS
  <2>3. bs \in Seq(Blocks)
    BY <2>2, SizesAssumption, BlocksTyped
  <2>4. UNION {ToSet(bs[i].entries) : i \in DOMAIN bs} = ToSet(V) /\ InPages(bs)
    <3> HIDE DEF row, Has
    <3>1. LET B == BaserelBlocks(V, PageSize)
          IN  /\ UNION {ToSet(B[i].entries) : i \in DOMAIN B} = ToSet(V)
              /\ \A i \in DOMAIN B : \A v \in ToSet(B[i].entries) :
                   v \in B[i].page .. (B[i].page + PageSize - 1)
      BY SizesAssumption, BlocksSet
    <3> QED BY <2>2, <3>1
  <2>5. \A v : InBlocks(bs, v) <=> v \in ToSet(V)
    BY <2>4
  <2> HIDE DEF InPages, InBlocks, Has
  <2> QED BY <2>1, <2>2, <2>3, <2>4, <2>5
<1>8. ASSUME NEW k \in DOMAIN names
      PROVE  /\ names[k] \in DOMAIN out \ {".reloc"}
             /\ row[k] \in Seq(Blocks) /\ InPages(row[k])
             /\ \A v : InBlocks(row[k], v) <=> Has(names[k], v)
  <2>1. names[k] \in DOMAIN out \ {".reloc"}
    BY <1>4 DEF ToSet
  <2>2. row[k] = BaserelBlocks(list(names[k]), PageSize)
    OBVIOUS
  <2> HIDE DEF InPages, InBlocks, Has, row
  <2> QED BY <1>7, <2>1, <2>2
<1>9. DOMAIN row = DOMAIN names /\ row = [k \in DOMAIN row |-> row[k]]
  OBVIOUS
<1> HIDE DEF row
<1>10. row \in Seq(Seq(Blocks))
  BY <1>8, <1>9, MapTyped
<1>11. PICK B : /\ B = NewBlocks /\ B \in Seq(Blocks)
                /\ ToSet(B) = UNION {ToSet(row[k]) : k \in DOMAIN names}
  BY <1>5, <1>9, <1>10, FlattenFacts
<1>12. \A b : b \in ToSet(B) <=> \E k \in DOMAIN names : \E i \in DOMAIN row[k] : b = row[k][i]
  <2>1. ASSUME NEW b
        PROVE  b \in ToSet(B) <=> \E k \in DOMAIN names : \E i \in DOMAIN row[k] : b = row[k][i]
    <3>1. b \in ToSet(B) <=> \E k \in DOMAIN names : b \in ToSet(row[k])
      BY <1>11
    <3>2. ASSUME NEW k \in DOMAIN names
          PROVE  b \in ToSet(row[k]) <=> \E i \in DOMAIN row[k] : b = row[k][i]
      BY DEF ToSet
    <3> QED BY <3>1, <3>2
  <2> QED BY <2>1
<1>13. InPages(B)
  <2>1. ASSUME NEW i \in DOMAIN B
        PROVE  \A v \in ToSet(B[i].entries) : v \in B[i].page .. (B[i].page + PageSize - 1)
    <3>1. PICK k \in DOMAIN names : \E j \in DOMAIN row[k] : B[i] = row[k][j]
      BY <1>12 DEF ToSet
    <3> QED BY <1>8, <3>1
  <2> QED BY <2>1
<1>14. ASSUME NEW v PROVE InBlocks(B, v) <=> v \in AbsolutePlaces
  <2>1. InBlocks(B, v) <=> \E b \in ToSet(B) : v \in ToSet(b.entries)
    BY DEF ToSet
  <2>2. InBlocks(B, v) <=> \E k \in DOMAIN names : InBlocks(row[k], v)
    BY <1>12, <2>1
  <2>3. InBlocks(B, v) <=> \E k \in DOMAIN names : Has(names[k], v)
    <3> HIDE DEF InBlocks, Has
    <3> QED BY <1>8, <2>2
  <2>4. InBlocks(B, v) <=> \E n \in DOMAIN out \ {".reloc"} : Has(n, v)
    <3> HIDE DEF InBlocks, Has
    <3>1. \A n \in DOMAIN out \ {".reloc"} : \E k \in DOMAIN names : names[k] = n
      BY <1>4 DEF ToSet
    <3> QED BY <1>8, <2>3, <3>1
  <2>5. ~Has(".reloc", v)
    BY NoneIn DEF NoAddresses
  <2>6. InBlocks(B, v) <=> \E n \in DOMAIN out : Has(n, v)
    <3> HIDE DEF InBlocks, Has
    <3> QED BY <2>4, <2>5
  <2> QED BY <2>6, AbsoluteIs
<1>15. UNION {ToSet(B[i].entries) : i \in DOMAIN B} = AbsolutePlaces
  BY <1>14
<1> QED BY <1>11, <1>13, <1>15

-----------------------------------------------------------------------------
(* The steps of a link whose .reloc is its own.                            *)

\* The chunks of a section that gets one more, or an address.
LEMMA ChunksOf ==
  ASSUME NEW w, NEW s \in Sections(w)
  PROVE  /\ \A c : DOMAIN AddChunk(s, c).chunks = 1 .. Len(s.chunks) + 1
         /\ \A c : AddChunk(s, c).chunks[Len(s.chunks) + 1].chunk = c
         /\ \A c : \A i \in DOMAIN s.chunks : AddChunk(s, c).chunks[i] = s.chunks[i]
         /\ \A a, f : LET t == SetFileOffset(SetRVA(s, a), f)
                      IN  /\ DOMAIN t.chunks = DOMAIN s.chunks
                          /\ \A i \in DOMAIN s.chunks : t.chunks[i].chunk = s.chunks[i].chunk
<1>1. PICK cs \in Seq(PlacedChunks(w)) : cs = s.chunks
  BY SectionParts
<1>2. PICK n \in Nat : n = Len(cs) /\ DOMAIN cs = 1 .. n
  BY LenProperties
<1>3. ASSUME NEW i \in 1 .. n
      PROVE  cs[i] = [chunk |-> cs[i].chunk, rva |-> cs[i].rva, off |-> cs[i].off]
  <2>1. cs[i] \in PlacedChunks(w)
    BY <1>2, ElementOfSeq
  <2> QED BY <2>1 DEF PlacedChunks
<1>4. /\ s.vsize \in Nat /\ s.raw \in Nat /\ s.rva \in Nat /\ s.off \in Nat
      /\ s = [chunks |-> cs, vsize |-> s.vsize, raw |-> s.raw, rva |-> s.rva, off |-> s.off,
              code |-> s.code]
  BY <1>1 DEF Sections
<1>5. ASSUME NEW c
      PROVE  /\ DOMAIN AddChunk(s, c).chunks = 1 .. n + 1
             /\ AddChunk(s, c).chunks[n + 1].chunk = c
             /\ \A i \in 1 .. n : AddChunk(s, c).chunks[i] = cs[i]
  <2>1. PICK p : p = [chunk |-> c, rva |-> RoundUp(s.vsize, c.align),
                      off |-> RoundUp(s.vsize, c.align)]
    OBVIOUS
  <2>2. AddChunk(s, c).chunks = Append(cs, p)
    BY <1>1, <1>4, <2>1 DEF AddChunk
  <2>3. p.chunk = c
    BY <2>1
  <2>4. /\ DOMAIN Append(cs, p) = 1 .. n + 1 /\ Append(cs, p)[n + 1] = p
        /\ \A i \in 1 .. n : Append(cs, p)[i] = cs[i]
    BY <1>2
  <2> QED BY <2>2, <2>3, <2>4
<1>6. ASSUME NEW a, NEW f
      PROVE  LET t == SetFileOffset(SetRVA(s, a), f)
             IN  /\ DOMAIN t.chunks = 1 .. n
                 /\ \A i \in 1 .. n : t.chunks[i].chunk = cs[i].chunk
  <2> DEFINE us == [i \in 1 .. n |-> [cs[i] EXCEPT !.rva = @ + a]]
             vs == [i \in 1 .. n |-> [us[i] EXCEPT !.off = @ + f]]
  <2>1. PICK u : u = SetRVA(s, a)
    OBVIOUS
  <2>2. u = [s EXCEPT !.rva = a, !.chunks = us]
    BY <1>1, <1>2, <2>1 DEF SetRVA, Each
  <2>3. u.chunks = us /\ u = [u EXCEPT !.chunks = us]
    BY <1>4, <2>2
  <2>9. ASSUME NEW i \in 1 .. n
        PROVE  us[i].chunk = cs[i].chunk /\ vs[i].chunk = us[i].chunk
    <3>1. PICK x, y, z : cs[i] = [chunk |-> x, rva |-> y, off |-> z]
      BY <1>3
    <3>2. us[i] = [chunk |-> x, rva |-> y + a, off |-> z]
      BY <3>1
    <3>3. vs[i] = [us[i] EXCEPT !.off = @ + f]
      OBVIOUS
    <3> HIDE DEF us, vs
    <3>4. vs[i] = [chunk |-> x, rva |-> y + a, off |-> z + f]
      BY <3>2, <3>3
    <3> QED BY <3>1, <3>2, <3>4
  <2>4. \A i \in 1 .. n : us[i].chunk = cs[i].chunk
    BY <2>9
  <2>5. \A i \in 1 .. n : vs[i].chunk = us[i].chunk
    BY <2>9
  <2>6. PICK t : t = SetFileOffset(u, f)
    OBVIOUS
  <2>7. CASE u.raw = 0
    <3>1. t = u /\ DOMAIN us = 1 .. n
      BY <2>6, <2>7 DEF SetFileOffset
    <3> HIDE DEF us, vs
    <3> QED BY <2>1, <2>3, <2>4, <2>6, <3>1
  <2>8. CASE u.raw # 0
    <3>1. t = [u EXCEPT !.off = f, !.chunks = [i \in DOMAIN us |-> [us[i] EXCEPT !.off = @ + f]]]
      BY <2>3, <2>6, <2>8 DEF SetFileOffset, Each
    <3>2. DOMAIN us = 1 .. n
      OBVIOUS
    <3>3. t = [u EXCEPT !.off = f, !.chunks = vs]
      BY <3>1, <3>2
    <3>4. t.chunks = vs
      <4> HIDE DEF us, vs
      <4> QED BY <1>4, <2>2, <3>3
    <3>5. DOMAIN vs = 1 .. n
      OBVIOUS
    <3> HIDE DEF us, vs
    <3> QED BY <2>1, <2>4, <2>5, <2>6, <3>4, <3>5
  <2> QED BY <2>7, <2>8
<1> QED BY <1>1, <1>2, <1>5, <1>6

\* What a step leaves alone stays as it is.
LEMMA RelocFrame ==
  ASSUME RelocInv, UNCHANGED <<world, out>>
  PROVE  /\ \A n \in DOMAIN out' : Candid(world', out'[n])
         /\ blocks' = blocks /\ BlocksComplete => BlocksComplete'
         /\ order' = order /\ RelocLast => RelocLast'
<1>1. \A n \in DOMAIN out' : Candid(world', out'[n])
  BY DEF RelocInv, Candid
<1>2. ASSUME blocks' = blocks, BlocksComplete PROVE BlocksComplete'
  <2>1. \A v : v \in AbsolutePlaces' <=> v \in AbsolutePlaces
    <3>1. world' = world /\ out' = out
      OBVIOUS
    <3> QED BY <3>1, AbsoluteIs
  <2>2. AbsolutePlaces' = AbsolutePlaces
    BY <2>1
  <2> QED BY <1>2, <2>2 DEF BlocksComplete
<1>3. ASSUME order' = order, RelocLast PROVE RelocLast'
  BY <1>3 DEF RelocLast, NoAddresses
<1> QED BY <1>1, <1>2, <1>3

\* At the start there is no section.
LEMMA RelocInit == Init => RelocInv
<1> SUFFICES ASSUME Init PROVE RelocInv
  OBVIOUS
<1>1. /\ out = <<>> /\ DOMAIN out = {} /\ todo = <<>> /\ DOMAIN todo = {} /\ phase = "fixup"
      /\ order = <<>> /\ DOMAIN order = {}
  BY DEF Init
<1>2. ToSet(order) = {}
  BY <1>1 DEF ToSet
<1> QED BY <1>1, <1>2 DEF RelocInv, Assigning, Assigned, Listing

\* A chunk is added.
LEMMA RelocPlace ==
  ASSUME IInv, OwnReloc(world), world.relocatable, RelocInv, PlaceChunk
  PROVE  RelocInv'
<1>1. PICK a \in Items(world) :
        /\ a = Head(todo) /\ a = todo[1] /\ 1 \in DOMAIN todo
        /\ todo' = Tail(todo)
        /\ \A i \in DOMAIN todo' : \E j \in DOMAIN todo : todo'[i] = todo[j]
  <2>1. PICK q \in Seq(Items(world)) : q = todo /\ q # <<>>
    BY DEF IInv, TypeInv, PlaceChunk
  <2>2. /\ Head(q) \in Items(world) /\ Tail(q) \in Seq(Items(world))
        /\ Len(Tail(q)) = Len(q) - 1 /\ \A i \in 1 .. Len(Tail(q)) : Tail(q)[i] = q[i + 1]
    BY <2>1, HeadTailProperties
  <2>3. DOMAIN q = 1 .. Len(q) /\ Len(q) \in Nat /\ Len(q) # 0 /\ Head(q) = q[1]
    BY <2>1, LenProperties, EmptySeq
  <2>4. DOMAIN Tail(q) = 1 .. Len(q) - 1
    BY <2>2, LenProperties
  <2>5. ASSUME NEW i \in DOMAIN Tail(q) PROVE \E j \in DOMAIN q : Tail(q)[i] = q[j]
    <3>1. i + 1 \in DOMAIN q /\ Tail(q)[i] = q[i + 1]
      BY <2>2, <2>3, <2>4
    <3> QED BY <3>1
  <2>6. 1 \in DOMAIN q
    BY <2>3
  <2>7. todo' = Tail(q)
    BY <2>1 DEF PlaceChunk
  <2> QED BY <2>1, <2>2, <2>3, <2>5, <2>6, <2>7
<1>2. phase \in Listing \cup {"reloc", "baserels"}
  <2>1. todo # <<>>
    BY DEF PlaceChunk
  <2>2. phase \notin {"fixup", "start", "addresses", "failed", "write", "done"} \cup Assigned
    BY <2>1 DEF IInv, AddInv
  <2>3. phase \in Adding \cup Assigning \cup Assigned \cup {"write", "done", "failed"}
    BY DEF IInv, TypeInv
  <2> QED BY <2>2, <2>3 DEF Adding, Assigning, Assigned, Listing
<1> DEFINE fresh == a.sec \notin DOMAIN out
<1>3. PICK s \in Sections(world) :
        /\ s = IF fresh THEN [EmptySection EXCEPT !.code = phase # "sections" /\ a.sec = ".text"]
               ELSE out[a.sec]
        /\ fresh => DOMAIN s.chunks = {}
  <2>1. CASE fresh
    <3>1. PICK b \in BOOLEAN : b = (phase # "sections" /\ a.sec = ".text")
      OBVIOUS
    <3>2. PICK s \in Sections(world) : s = [EmptySection EXCEPT !.code = b]
      BY EmptyFits
    <3>3. s.chunks = <<>> /\ DOMAIN s.chunks = {}
      BY <3>2 DEF EmptySection
    <3>4. s = IF fresh THEN [EmptySection EXCEPT !.code = phase # "sections" /\ a.sec = ".text"]
              ELSE out[a.sec]
      BY <2>1, <3>1, <3>2
    <3> HIDE DEF fresh
    <3> QED BY <3>3, <3>4
  <2>2. CASE ~fresh
    BY <2>2 DEF IInv, TypeInv
  <2> QED BY <2>1, <2>2
<1>4. PICK t :
        /\ t = IF a.chunk = None THEN s
               ELSE IF a.chunk.is = "section"
               THEN [AddChunk(s, a.chunk) EXCEPT !.code = @ \/ world.chunks[a.chunk.of].code]
               ELSE AddChunk(s, a.chunk)
        /\ a.chunk = None => t.chunks = s.chunks
        /\ a.chunk # None => t.chunks = AddChunk(s, a.chunk).chunks
  <2>1. CASE a.chunk = None
    BY <2>1
  <2>2. CASE a.chunk # None
    <3>1. a.chunk \in AllChunks(world)
      BY <2>2 DEF Items
    <3>2. SectionFits(s) /\ Unassigned(s)
      <4>1. CASE fresh
        <5>1. PICK b \in BOOLEAN : b = (phase # "sections" /\ a.sec = ".text")
          OBVIOUS
        <5> QED BY <1>3, <4>1, <5>1, EmptyFits
      <4>2. CASE ~fresh /\ phase # "baserels"
        <5>1. phase \in Adding
          BY <1>2, <4>2 DEF Adding, Listing
        <5> QED BY <1>3, <4>2, <5>1 DEF IInv, FitInv, AddInv
      <4>3. CASE ~fresh /\ phase = "baserels"
        <5>1. /\ next <= Len(order) /\ order[next] = ".reloc" /\ next \in next .. Len(order)
              /\ a.sec = ".reloc"
          <6>1. /\ next <= Len(order) /\ order[next] = ".reloc"
                /\ \A i \in DOMAIN todo : todo[i].sec = ".reloc"
            BY <4>3 DEF IInv, AddInv
          <6>2. Len(order) \in Nat /\ next \in Nat
            BY LenProperties DEF IInv, TypeInv
          <6> QED BY <1>1, <6>1, <6>2
        <5>2. Unassigned(out[order[next]])
          BY <4>3, <5>1 DEF IInv, AddInv, Assigning
        <5> QED BY <1>3, <4>3, <5>1, <5>2 DEF IInv, FitInv
      <4> QED BY <4>1, <4>2, <4>3
    <3>3. PICK u \in Sections(world) : u = AddChunk(s, a.chunk)
      BY <3>1, <3>2, AddChunkFits
    <3>4. PICK b : b = (u.code \/ world.chunks[a.chunk.of].code)
      OBVIOUS
    <3>5. [u EXCEPT !.code = b].chunks = u.chunks
      BY DEF Sections
    <3>6. [AddChunk(s, a.chunk) EXCEPT !.code = @ \/ world.chunks[a.chunk.of].code]
            = [u EXCEPT !.code = b]
      BY <3>3, <3>4
    <3> QED BY <2>2, <3>3, <3>5, <3>6
  <2> QED BY <2>1, <2>2
<1>5. ASSUME NEW i \in DOMAIN t.chunks
      PROVE  \/ ~fresh /\ \E j \in DOMAIN out[a.sec].chunks : t.chunks[i] = out[a.sec].chunks[j]
             \/ a.chunk # None /\ t.chunks[i].chunk = a.chunk
  <2>1. DOMAIN s.chunks = 1 .. Len(s.chunks) /\ Len(s.chunks) \in Nat
    BY SectionParts
  <2>2. CASE a.chunk = None
    BY <1>3, <1>4, <1>5, <2>2
  <2>3. CASE a.chunk # None
    <3>1. t.chunks = AddChunk(s, a.chunk).chunks /\ i \in 1 .. Len(s.chunks) + 1
      BY <1>4, <1>5, <2>3, ChunksOf
    <3>2. CASE i = Len(s.chunks) + 1
      BY <2>3, <3>1, <3>2, ChunksOf
    <3>3. CASE i # Len(s.chunks) + 1
      <4>1. i \in DOMAIN s.chunks
        BY <2>1, <3>1, <3>3
      <4>2. t.chunks[i] = s.chunks[i]
        BY <3>1, <4>1, ChunksOf
      <4> QED BY <1>3, <4>1, <4>2
    <3> QED BY <3>2, <3>3
  <2> QED BY <2>2, <2>3
<1>6. /\ order' = IF fresh THEN Append(order, a.sec) ELSE order
      /\ out' = [n \in DOMAIN out \cup {a.sec} |-> IF n = a.sec THEN t ELSE out[n]]
      /\ UNCHANGED <<world, phase, next, blocks>>
  BY <1>1, <1>3, <1>4 DEF PlaceChunk
<1>7. /\ DOMAIN out' = DOMAIN out \cup {a.sec} /\ out'[a.sec] = t
      /\ \A n \in DOMAIN out \ {a.sec} : out'[n] = out[n]
  BY <1>6
<1>8. /\ DOMAIN out = ToSet(order) => DOMAIN out' = ToSet(order')
      /\ fresh => Len(order') > 0 /\ order'[Len(order')] = a.sec
  <2>1. CASE fresh
    <3>1. PICK q \in Seq(SectionNames) : q = order
      BY DEF IInv, TypeInv
    <3>2. a.sec \in SectionNames
      BY DEF Items
    <3>3. /\ ToSet(Append(q, a.sec)) = ToSet(q) \cup {a.sec}
          /\ Len(Append(q, a.sec)) = Len(q) + 1 /\ Len(q) \in Nat
          /\ Append(q, a.sec)[Len(q) + 1] = a.sec
      BY <3>2, AppendFacts
    <3>4. Len(q) + 1 > 0
      BY <3>3
    <3> QED BY <1>6, <1>7, <2>1, <3>1, <3>3, <3>4
  <2>2. CASE ~fresh
    BY <1>6, <1>7, <2>2
  <2> QED BY <2>1, <2>2
<1> HIDE DEF fresh
<1>9. ASSUME a.chunk # None => world.is64 \/ a.chunk.is # "thunk", NEW n \in DOMAIN out'
      PROVE  Candid(world', out'[n])
  <2>1. \A m \in DOMAIN out : Candid(world, out[m])
    BY DEF RelocInv
  <2>2. CASE n = a.sec
    <3>1. ASSUME NEW i \in DOMAIN t.chunks PROVE world.is64 \/ t.chunks[i].chunk.is # "thunk"
      BY <1>5, <1>9, <2>1 DEF Candid, fresh
    <3> QED BY <1>6, <1>7, <2>2, <3>1 DEF Candid
  <2>3. CASE n # a.sec
    BY <1>6, <1>7, <2>1, <2>3 DEF Candid
  <2> QED BY <2>2, <2>3
<1>10. CASE phase \in Listing
  <2>1. phase' \in Listing /\ phase \in Adding /\ phase' \notin {"reloc", "baserels", "addresses"}
        /\ phase' \notin Assigning /\ phase' \notin Assigned \cup {"write", "done"}
    BY <1>6, <1>10 DEF Listing, Adding, Assigning, Assigned
  <2>2. ".reloc" \notin DOMAIN out /\ a.sec # ".reloc"
        /\ (a.chunk # None => world.is64 \/ a.chunk.is # "thunk")
    BY <1>1, <1>10 DEF RelocInv
  <2>3. ".reloc" \notin DOMAIN out'
    BY <1>7, <2>2
  <2>4. ASSUME NEW i \in DOMAIN todo'
        PROVE  /\ todo'[i].sec # ".reloc"
               /\ todo'[i].chunk # None => world'.is64 \/ todo'[i].chunk.is # "thunk"
    BY <1>1, <1>6, <1>10 DEF RelocInv
  <2>5. DOMAIN out' = ToSet(order')
    BY <1>8, <2>1 DEF RelocInv
  <2> QED BY <1>9, <2>1, <2>2, <2>3, <2>4, <2>5 DEF RelocInv
<1>11. CASE phase = "reloc"
  <2>1. ".reloc" \notin DOMAIN out /\ todo = <<Add(".reloc", None)>>
    BY <1>1, <1>11 DEF RelocInv
  <2>2. a.sec = ".reloc" /\ a.chunk = None /\ todo' = <<>>
    BY <1>1, <2>1 DEF Add
  <2>3. NoAddresses(out'[".reloc"])
    <3>1. DOMAIN t.chunks = {}
      BY <1>5, <2>1, <2>2 DEF fresh
    <3> QED BY <1>7, <2>2, <3>1 DEF NoAddresses
  <2>4. RelocLast'
    BY <1>8, <2>1, <2>2, <2>3 DEF RelocLast, fresh
  <2>5. phase' = "reloc" /\ phase \in Adding /\ phase' \notin {"fixup", "start"} \cup Listing
        /\ phase' \notin Assigning /\ phase' \notin Assigned \cup {"write", "done"}
    BY <1>6, <1>11 DEF Listing, Adding, Assigning, Assigned
  <2>6. DOMAIN out' = ToSet(order')
    BY <1>8, <2>5 DEF RelocInv
  <2> QED BY <1>9, <2>2, <2>4, <2>5, <2>6 DEF RelocInv
<1>12. CASE phase = "baserels"
  <2>1. RelocLast /\ BlocksComplete /\ DOMAIN out = ToSet(order)
        /\ (a.chunk # None => a.chunk.is = "baserel")
        /\ \A i \in DOMAIN todo' : todo'[i].chunk # None => todo'[i].chunk.is = "baserel"
    BY <1>1, <1>12 DEF RelocInv, Assigning
  <2>2. a.sec = ".reloc"
    BY <1>1, <1>12 DEF IInv, AddInv
  <2>3. ".reloc" \in DOMAIN out
    <3>1. DOMAIN order = 1 .. Len(order) /\ Len(order) \in Nat
      BY LenProperties DEF IInv, TypeInv
    <3>2. Len(order) \in DOMAIN order
      BY <2>1, <3>1 DEF RelocLast
    <3> QED BY <2>1, <3>2 DEF RelocLast, IInv, TypeInv
  <2>4. order' = order
    BY <1>6, <2>2, <2>3 DEF fresh
  <2>5. NoAddresses(out'[".reloc"])
    <3>1. ASSUME NEW i \in DOMAIN t.chunks PROVE t.chunks[i].chunk.is \notin AbsoluteKinds
      BY <1>5, <2>1, <2>2 DEF RelocLast, NoAddresses, AbsoluteKinds
    <3> QED BY <1>7, <2>2, <3>1 DEF NoAddresses
  <2>6. RelocLast'
    BY <2>1, <2>4, <2>5 DEF RelocLast, NoAddresses
  <2>7. BlocksComplete'
    <3>1. NoAddresses(out[".reloc"])
      BY <2>1 DEF RelocLast
    <3>2. DOMAIN out' = DOMAIN out
      BY <1>7, <2>2, <2>3
    <3> QED BY <1>6, <1>7, <2>1, <2>2, <2>5, <3>1, <3>2, BlocksKept
  <2>8. phase' = "baserels" /\ phase' \notin {"fixup", "start"} \cup Listing /\ phase' # "reloc"
        /\ phase' \in Assigning
    BY <1>6, <1>12 DEF Listing, Assigning
  <2>9. DOMAIN out' = ToSet(order')
    BY <1>8, <2>1
  <2> QED BY <1>9, <2>1, <2>6, <2>7, <2>8, <2>9 DEF RelocInv
<1> QED BY <1>2, <1>10, <1>11, <1>12

\* The phases that list chunks list none for .reloc, which CreateReloc makes.
LEMMA RelocList ==
  ASSUME IInv, OwnReloc(world), world.relocatable, RelocInv,
         \/ Fixup \/ CreateSections \/ CreateMiscChunks \/ CreateImportTables
         \/ CreateExportTable \/ CreateReloc
  PROVE  RelocInv'
<1>1. /\ phase \in {"fixup", "start"} \cup Listing /\ todo = <<>>
      /\ phase' \in {"start", "failed", "reloc"} \cup Listing
      /\ UNCHANGED <<world, out, order, blocks>>
      /\ Fixup => todo' = <<>>
  BY DEF Fixup, CreateSections, CreateMiscChunks, CreateImportTables, CreateExportTable,
         CreateReloc, Fill, At, Listing
<1>2. world \in Worlds /\ exports \in Seq(ExportRecords) /\ <<>> \in Seq(Listed(world))
  BY EmptySeq DEF IInv, TypeInv
<1>3. CASE CreateReloc
  <2>1. todo' = <<Add(".reloc", None)>> /\ phase' = "reloc"
    BY <1>3 DEF CreateReloc, Fill
  <2>2. phase \in Adding /\ phase' \notin {"fixup", "start"} \cup Listing
        /\ phase' \notin Assigning /\ phase' # "baserels" /\ phase' # "addresses"
        /\ phase' \notin Assigned \cup {"write", "done"}
    BY <1>1, <2>1 DEF Listing, Adding, Assigning, Assigned
  <2>3. ".reloc" \notin DOMAIN out' /\ DOMAIN out' = ToSet(order')
    BY <1>1, <2>2 DEF RelocInv
  <2>4. \A n \in DOMAIN out' : Candid(world', out'[n])
    BY <1>1 DEF RelocInv
  <2> QED BY <2>1, <2>2, <2>3, <2>4 DEF RelocInv
<1>4. CASE ~CreateReloc
  <2>1. todo' \in Seq(Listed(world))
    <3>1. CASE CreateSections
      BY <1>2, <3>1, SectionsTyped DEF CreateSections, Fill
    <3>2. CASE CreateMiscChunks
      BY <1>2, <3>2, MiscTyped DEF CreateMiscChunks, Fill
    <3>3. CASE CreateImportTables
      BY <1>2, <3>3, ImportListTyped
    <3>4. CASE CreateExportTable
      <4>1. ForSection(".edata", EdataChunks(exports)) \in Seq(Listed(world))
        BY <1>2, EdataTyped, MadeTyped, Names
      <4> QED BY <1>2, <3>4, <4>1 DEF CreateExportTable, Fill
    <3>5. CASE Fixup
      BY <1>1, <1>2, <3>5
    <3> QED BY <1>4, <3>1, <3>2, <3>3, <3>4, <3>5
  <2>2. ASSUME NEW i \in DOMAIN todo'
        PROVE  /\ todo'[i].sec # ".reloc"
               /\ todo'[i].chunk # None => world'.is64 \/ todo'[i].chunk.is # "thunk"
    <3>1. todo'[i] \in Listed(world)
      BY <2>1, LenProperties, ElementOfSeq
    <3> QED BY <1>1, <3>1 DEF Listed
  <2>3. phase' \in {"start", "failed"} \cup Listing
    BY <1>4 DEF Fixup, CreateSections, CreateMiscChunks, CreateImportTables, CreateExportTable,
                Fill, Listing
  <2>4. phase \in Adding /\ phase' # "reloc" /\ phase' \notin Assigning
        /\ phase' # "baserels" /\ phase' # "addresses"
        /\ phase' \notin Assigned \cup {"write", "done"}
    BY <1>1, <2>3 DEF Listing, Adding, Assigning, Assigned
  <2>5. ".reloc" \notin DOMAIN out' /\ DOMAIN out' = ToSet(order')
    BY <1>1, <2>4 DEF RelocInv
  <2>6. \A n \in DOMAIN out' : Candid(world', out'[n])
    BY <1>1 DEF RelocInv
  <2> QED BY <2>2, <2>4, <2>5, <2>6 DEF RelocInv
<1> QED BY <1>3, <1>4

\* Addresses are assigned from the first section on, .reloc being the last.
LEMMA RelocStart ==
  ASSUME IInv, RelocInv, StartAddresses
  PROVE  RelocInv'
<1>1. /\ phase = "reloc" /\ todo = <<>> /\ phase' = "addresses" /\ next' = 1
      /\ UNCHANGED <<world, order, out, todo, blocks>>
  BY DEF StartAddresses, At
<1>2. RelocLast /\ DOMAIN out = ToSet(order) /\ \A n \in DOMAIN out : Candid(world, out[n])
  <2>1. phase \in Adding /\ todo # <<Add(".reloc", None)>>
    BY <1>1 DEF Adding
  <2> QED BY <1>1, <2>1 DEF RelocInv
<1>3. RelocLast'
  BY <1>1, <1>2 DEF RelocLast
<1>4. /\ phase' \notin {"fixup", "start"} \cup Listing /\ phase' # "reloc" /\ phase' # "baserels"
      /\ phase' \notin Assigned \cup {"write", "done"}
  BY <1>1 DEF Listing, Assigned
<1>5. ~(next' > Len(order'))
  <2>1. Len(order) \in Nat
    BY LenProperties DEF IInv, TypeInv
  <2> QED BY <1>1, <1>2, <2>1 DEF RelocLast
<1> QED BY <1>1, <1>2, <1>3, <1>4, <1>5 DEF RelocInv

\* addBaserels makes the blocks, which are all .reloc gets.
LEMMA RelocBlocks ==
  ASSUME IInv, RelocInv, AddBaserels
  PROVE  RelocInv'
<1>1. /\ phase = "addresses" /\ phase' = "baserels" /\ blocks' = NewBlocks
      /\ UNCHANGED <<world, order, out, next>>
      /\ todo' = ForSection(".reloc", [i \in DOMAIN blocks' |-> BaserelChunk(i, blocks'[i])])
  BY DEF AddBaserels, At
<1>2. RelocLast /\ DOMAIN out = ToSet(order) /\ \A n \in DOMAIN out : Candid(world, out[n])
  BY <1>1 DEF RelocInv, Assigning
<1>3. BlocksComplete'
  <2>1. /\ UNION {ToSet(NewBlocks[i].entries) : i \in DOMAIN NewBlocks} = AbsolutePlaces
        /\ \A i \in DOMAIN NewBlocks : \A v \in ToSet(NewBlocks[i].entries) :
             v \in NewBlocks[i].page .. (NewBlocks[i].page + PageSize - 1)
    BY <1>2, BlocksMade DEF RelocLast
  <2>2. \A v : v \in AbsolutePlaces' <=> v \in AbsolutePlaces
    <3>1. world' = world /\ out' = out
      BY <1>1
    <3> QED BY <3>1, AbsoluteIs
  <2>3. AbsolutePlaces' = AbsolutePlaces
    BY <2>2
  <2> QED BY <1>1, <2>1, <2>3 DEF BlocksComplete
<1>4. ASSUME NEW i \in DOMAIN todo' PROVE todo'[i].chunk.is = "baserel"
  <2>1. PICK cs : cs = [j \in DOMAIN blocks' |-> BaserelChunk(j, blocks'[j])]
    OBVIOUS
  <2>2. todo' = [j \in DOMAIN cs |-> Add(".reloc", cs[j])]
    BY <1>1, <2>1 DEF ForSection, Each
  <2>3. i \in DOMAIN cs /\ todo'[i] = Add(".reloc", cs[i])
    BY <2>2
  <2>4. cs[i] = BaserelChunk(i, blocks'[i])
    BY <2>1, <2>3
  <2>5. cs[i].is = "baserel"
    BY <2>4 DEF BaserelChunk, Chunk
  <2> QED BY <2>3, <2>5 DEF Add
<1>5. RelocLast'
  BY <1>1, <1>2 DEF RelocLast
<1>6. /\ phase' \notin {"fixup", "start"} \cup Listing /\ phase' # "reloc"
      /\ phase' \in Assigning
  BY <1>1 DEF Listing, Assigning
<1> QED BY <1>1, <1>2, <1>3, <1>4, <1>5, <1>6 DEF RelocInv

\* A section gets its address; it is .reloc once the blocks are made.
LEMMA RelocAssign ==
  ASSUME IInv, RelocInv, AssignAddress
  PROVE  RelocInv'
<1>1. /\ next <= Len(order) /\ next' = next + 1 /\ phase' = "addresses" /\ todo = <<>>
      /\ phase = IF order[next] = ".reloc" THEN "baserels" ELSE "addresses"
      /\ UNCHANGED <<world, todo, order, blocks>>
  BY DEF AssignAddress, At
<1>2. phase \in Assigning /\ RelocLast /\ DOMAIN out = ToSet(order)
      /\ \A n \in DOMAIN out : Candid(world, out[n])
  BY <1>1 DEF RelocInv, Assigning
<1>3. PICK k \in Nat : k = Len(order) /\ DOMAIN order = 1 .. k
  BY LenProperties DEF IInv, TypeInv
<1>4. PICK n : n = order[next] /\ n \in DOMAIN out /\ next \in 1 .. k
  BY <1>1, <1>3 DEF IInv, TypeInv
<1>5. PICK s : s = SetFileOffset(SetRVA(out[n], rva), fileOff)
  OBVIOUS
<1>6. /\ DOMAIN s.chunks = DOMAIN out[n].chunks
      /\ \A i \in DOMAIN s.chunks : s.chunks[i].chunk = out[n].chunks[i].chunk
  <2>1. out[n] \in Sections(world)
    BY <1>4 DEF IInv, TypeInv
  <2> QED BY <1>5, <2>1, ChunksOf
<1>7. out' = [out EXCEPT ![n] = s]
  BY <1>4, <1>5 DEF AssignAddress
<1>8. DOMAIN out' = DOMAIN out /\ out'[n] = s /\ \A m \in DOMAIN out \ {n} : out'[m] = out[m]
  BY <1>4, <1>7
<1>9. ASSUME NEW m \in DOMAIN out' PROVE Candid(world', out'[m])
  <2>1. CASE m = n
    BY <1>1, <1>2, <1>4, <1>6, <1>8, <2>1 DEF Candid
  <2>2. CASE m # n
    BY <1>1, <1>2, <1>8, <2>2
  <2> QED BY <2>1, <2>2
<1>10. ".reloc" \in DOMAIN out
  <2>1. k \in DOMAIN order
    BY <1>2, <1>3 DEF RelocLast
  <2> QED BY <1>2, <1>3, <2>1 DEF RelocLast, IInv, TypeInv
<1>11. NoAddresses(out'[".reloc"])
  <2>1. CASE n = ".reloc"
    BY <1>2, <1>6, <1>8, <2>1 DEF RelocLast, NoAddresses
  <2>2. CASE n # ".reloc"
    BY <1>2, <1>8, <1>10, <2>2 DEF RelocLast
  <2> QED BY <2>1, <2>2
<1>12. RelocLast'
  BY <1>1, <1>2, <1>11 DEF RelocLast
<1>13. ASSUME next' > Len(order') PROVE BlocksComplete'
  <2>1. next = k
    BY <1>1, <1>3, <1>4, <1>13
  <2>2. n = ".reloc" /\ phase = "baserels"
    BY <1>1, <1>2, <1>3, <1>4, <2>1 DEF RelocLast
  <2>3. BlocksComplete /\ NoAddresses(out[".reloc"])
    BY <1>2, <2>2 DEF RelocInv, RelocLast
  <2> QED BY <1>1, <1>8, <1>11, <2>2, <2>3, BlocksKept
<1>14. /\ phase' \notin {"fixup", "start"} \cup Listing /\ phase' # "reloc" /\ phase' # "baserels"
       /\ phase' \notin Assigned \cup {"write", "done"}
  BY <1>1 DEF Listing, Assigned
<1> QED BY <1>1, <1>2, <1>8, <1>9, <1>12, <1>13, <1>14 DEF RelocInv

\* Once addresses are assigned, blocks and places stay as they are.
LEMMA RelocRest ==
  ASSUME IInv, RelocInv,
         \/ AddressesDone \/ RemoveEmptySections \/ CreateSymbolTable \/ WriteSections
  PROVE  RelocInv'
<1>1. /\ \/ phase = "addresses" /\ next > Len(order)
         \/ phase \in Assigned \cup {"write", "done"}
      /\ phase' \in Assigned \cup {"write", "done"}
      /\ UNCHANGED <<world, out, blocks>>
  BY DEF AddressesDone, RemoveEmptySections, CreateSymbolTable, WriteSections, At, Assigned
<1>2. BlocksComplete
  BY <1>1 DEF RelocInv
<1>3. BlocksComplete' /\ \A n \in DOMAIN out' : Candid(world', out'[n])
  BY <1>1, <1>2, RelocFrame
<1>4. /\ phase' \notin {"fixup", "start"} \cup Listing /\ phase' # "reloc"
      /\ phase' \notin Assigning /\ phase' \notin Adding /\ phase' # "baserels"
  BY <1>1 DEF Listing, Assigned, Assigning, Adding
<1> QED BY <1>3, <1>4 DEF RelocInv

\* Nothing happens.
LEMMA RelocStutter ==
  ASSUME RelocInv, UNCHANGED vars
  PROVE  RelocInv'
<1>1. UNCHANGED <<world, phase, todo, order, out, next, blocks>>
  BY DEF vars
<1>2. /\ \A n \in DOMAIN out' : Candid(world', out'[n])
      /\ BlocksComplete => BlocksComplete'
      /\ RelocLast => RelocLast'
  BY <1>1, RelocFrame
<1> QED BY <1>1, <1>2 DEF RelocInv

(* .reloc lists exactly the places with absolute addresses, each in a      *)
(* block of its page (addBaserels, assignAddresses), for every link in     *)
(* which no input section is put into .reloc, where it would be taken for  *)
(* a block, and in which there are no import thunks of 32 bits, which hold *)
(* an absolute address and do not say so (ImportThunkChunk).               *)
THEOREM BaserelsAreComplete == Spec => [](OwnReloc(world) => BaserelsComplete)
<1> DEFINE Holds == OwnReloc(world) /\ world.relocatable => RelocInv
<1>1. Init => Holds
  BY RelocInit
<1>2. IInv /\ Holds /\ [Next]_vars => Holds'
  <2> SUFFICES ASSUME IInv, Holds, [Next]_vars, OwnReloc(world'), world'.relocatable
               PROVE  RelocInv'
    BY DEF OwnReloc
  <2>1. world' = world
    BY DEF Next, vars, Fixup, PlaceChunk, CreateSections, CreateMiscChunks, CreateImportTables,
           CreateExportTable, CreateReloc, Fill, StartAddresses, AddBaserels, AssignAddress,
           AddressesDone, RemoveEmptySections, CreateSymbolTable, WriteSections, Ended
  <2>2. OwnReloc(world) /\ world.relocatable /\ RelocInv
    BY <2>1
  <2> HIDE DEF Holds
  <2>3. CASE PlaceChunk
    BY <2>2, <2>3, RelocPlace
  <2>4. CASE \/ Fixup \/ CreateSections \/ CreateMiscChunks \/ CreateImportTables
             \/ CreateExportTable \/ CreateReloc
    BY <2>2, <2>4, RelocList
  <2>5. CASE StartAddresses
    BY <2>2, <2>5, RelocStart
  <2>6. CASE AddBaserels
    BY <2>2, <2>6, RelocBlocks
  <2>7. CASE AssignAddress
    BY <2>2, <2>7, RelocAssign
  <2>8. CASE \/ AddressesDone \/ RemoveEmptySections \/ CreateSymbolTable \/ WriteSections
    BY <2>2, <2>8, RelocRest
  <2>9. CASE Ended \/ UNCHANGED vars
    BY <2>2, <2>9, RelocStutter DEF Ended
  <2> QED BY <2>3, <2>4, <2>5, <2>6, <2>7, <2>8, <2>9 DEF Next
<1>3. IInv /\ Holds => (OwnReloc(world) => BaserelsComplete)
  BY DEF RelocInv, BlocksComplete, BaserelsComplete, Written
<1> HIDE DEF Holds
<1> QED BY <1>1, <1>2, <1>3, Invariant, PTL DEF Spec
=============================================================================
