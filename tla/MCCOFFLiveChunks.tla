------------------------- MODULE MCCOFFLiveChunks -------------------------
(***************************************************************************)
(* Small links for COFFLiveChunks.  A symbol is its chunk and its value:   *)
(* one at the start of each chunk, one inside chunk 1, one absolute.       *)
(* A set of links is empty unless NumChunks is the number it is meant for, *)
(* since TLC evaluates every constant definition of the module.            *)
(***************************************************************************)
EXTENDS COFFLiveChunks, FiniteSets, TLC

At(i) == <<i, 0>>
Inside == <<1, 4>>
Abs == <<NoChunk, 0>>

MCSymbols == {At(i) : i \in Chunk} \cup {Inside, Abs}
MCChunkOf == [s \in MCSymbols |-> s[1]]
MCValue == [s \in MCSymbols |-> s[2]]

ALink(comdat, code, content, relocs, children, rts, gc, fold) ==
  [comdat |-> comdat, code |-> code, content |-> content, relocs |-> relocs,
   children |-> children, chunk |-> MCChunkOf, value |-> MCValue,
   roots |-> rts, doGC |-> gc, icf |-> fold]

Every(v) == [c \in Chunk |-> v]
NoKids == Every(<<>>)
-----------------------------------------------------------------------------
(* Every graph of three chunks, each one that is kept (data) or not (code  *)
(* for the first, COMDAT for the others), with up to one relocation each   *)
(* and associative sections, from no or one root; a fourth chunk is COMDAT *)
(* and nothing leads to it.                                                *)
Kids == {NoKids, (1 :> <<2>>) @@ NoKids, (1 :> <<2, 3>>) @@ NoKids,
         (1 :> <<2>>) @@ (2 :> <<3>>) @@ NoKids, (3 :> <<1>>) @@ NoKids}

GCLink(kept, r, ch, rt, gc) ==
  ALink([c \in Chunk |-> c # 1 /\ c \notin kept],
        [c \in Chunk |-> c = 1 /\ c \notin kept],
        Every("a"), (4 :> <<>>) @@ r, ch, rt, gc, FALSE)

GCLinks ==
  IF NumChunks # 4 THEN {} ELSE
  {GCLink(kept, r, ch, rt, TRUE)
     : kept \in SUBSET (1 .. 3),
       r \in [1 .. 3 -> {<<>>, <<Abs, At(1)>>, <<At(2)>>, <<At(3)>>}],
       ch \in Kids, rt \in {{}, {At(1)}, {Inside, At(2)}}}
  \cup {GCLink({1}, [c \in 1 .. 3 |-> <<At(2)>>], ch, {At(1)}, FALSE) : ch \in Kids}

-----------------------------------------------------------------------------
(* Graphs of four COMDAT chunks, alike but for one or two of them, with up *)
(* to one relocation each; all of them live, or those reached from two.    *)
(* The associative sections come in the order of the chunks they belong to *)
(* or, in the last graphs, do not.                                         *)
FoldLink(ct, r, ch, rt) == ALink(Every(TRUE), Every(TRUE), ct, r, ch, rt, TRUE, TRUE)

FoldRelocs == [Chunk -> {<<>>, <<At(1)>>, <<Inside>>, <<At(3)>>, <<At(4)>>}]

FoldLinks ==
  IF NumChunks # 4 THEN {} ELSE
  {FoldLink(ct, r, ch, rt)
     : ct \in {Every("a"), <<"a", "a", "a", "b">>, <<"a", "a", "b", "b">>},
       r \in FoldRelocs,
       ch \in {NoKids, (1 :> <<3>>) @@ (2 :> <<4>>) @@ NoKids},
       rt \in {{At(1), At(2)}, {At(i) : i \in Chunk}}}
  \cup {FoldLink(Every("a"), r, (1 :> <<3>>) @@ (4 :> <<2>>) @@ NoKids, {At(1), At(4)})
          : r \in FoldRelocs}

ChunkLinks == GCLinks \cup FoldLinks

-----------------------------------------------------------------------------
(* A data chunk refers to chunk 4, which is equal to chunk 3 at once and   *)
(* to chunk 2 after chunk 6 has been folded into chunk 5.                  *)
ChainLink ==
  {ALink([c \in Chunk |-> c # 1], [c \in Chunk |-> c # 1],
         [c \in Chunk |-> IF c = 1 THEN "a" ELSE IF c < 5 THEN "b" ELSE "c"],
         <<<<At(2), At(3), At(4)>>, <<At(5)>>, <<At(6)>>, <<At(6)>>, <<>>, <<>>>>,
         NoKids, {}, TRUE, TRUE)}
=============================================================================
