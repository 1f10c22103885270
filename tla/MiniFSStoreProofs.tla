------------------------- MODULE MiniFSStoreProofs -------------------------
(***************************************************************************)
(* MiniFS implements InodeStore: what follows from the invariant of        *)
(* MiniFSProofs about the sequence of cells that an inode holds.           *)
(*                                                                         *)
(* Contents is recursive along a chain, so what is said of it needs an     *)
(* induction along the chain.  FromTheEnd is that induction, with a set of *)
(* blocks in the place of a predicate: a set that holds a block of a chain *)
(* whenever it holds the next one, and holds the last, holds all of them.  *)
(***************************************************************************)
EXTENDS MiniFSStore, MiniFSProofs

-----------------------------------------------------------------------------
(* Induction along a chain.                                                *)

(* The chain from b has a last block.                                      *)
Ends(bm, b) == Links(bm) /\ b \in Block /\ LastBlocks(bm, b) # {}

(* The chain from any block of it ends, too, and holds no more blocks.     *)
LEMMA RestEnds ==
  ASSUME NEW bm, NEW b, Ends(bm, b), NEW y \in Walk(bm, b, 0)
  PROVE  y \in Block /\ Ends(bm, y) /\ Walk(bm, y, 0) \subseteq Walk(bm, b, 0)
<1>1. Links(bm) /\ b \in Block /\ b >= 0
  BY SizesAssumption DEF Ends, Block
<1>2. y \in Block
  BY WalkInBlocks
<1>3. PICK last \in Walk(bm, b, 0) : bm[last].next_block < 0
  BY DEF Ends, LastBlocks
<1>4. last \in Walk(bm, y, 0)
  BY <1>1, <1>3, ReachesEnd
<1>5. Walk(bm, y, 0) \subseteq Walk(bm, b, 0)
  <2>1. Walk(bm, b, 0) \in SUBSET Block
    BY WalkInBlocks
  <2>2. \A x \in Walk(bm, b, 0) :
          bm[x].next_block >= 0 => bm[x].next_block \in Walk(bm, b, 0)
    BY <1>1, WalkHolds
  <2> QED BY <2>1, <2>2, WalkLeast
<1> QED BY <1>1, <1>2, <1>3, <1>4, <1>5 DEF Ends, LastBlocks

(* A block of a chain is its last, or the next one is in the chain.        *)
LEMMA LastOrNext ==
  ASSUME NEW bm, NEW b, Ends(bm, b), NEW y \in Walk(bm, b, 0)
  PROVE  \/ bm[y].next_block = None
         \/ /\ bm[y].next_block \in Block /\ bm[y].next_block >= 0
            /\ bm[y].next_block # None
            /\ bm[y].next_block \in Walk(bm, b, 0)
            /\ Ends(bm, bm[y].next_block)
<1>1. Links(bm) /\ b \in Block /\ b >= 0 /\ y \in Block
  BY WalkInBlocks, SizesAssumption DEF Ends, Block
<1>2. SUFFICES ASSUME bm[y].next_block \in Block
               PROVE  /\ bm[y].next_block >= 0 /\ bm[y].next_block # None
                      /\ bm[y].next_block \in Walk(bm, b, 0)
                      /\ Ends(bm, bm[y].next_block)
  BY <1>1 DEF Links
<1>3. bm[y].next_block >= 0 /\ bm[y].next_block # None
  BY <1>2, SizesAssumption DEF Block, None
<1>4. bm[y].next_block \in Walk(bm, b, 0)
  BY <1>1, <1>3, WalkHolds
<1> QED BY <1>3, <1>4, RestEnds

(* The induction: from the last block backwards.                           *)
LEMMA FromTheEnd ==
  ASSUME NEW bm, NEW b, Ends(bm, b), NEW T,
         \A y \in Walk(bm, b, 0) :
           bm[y].next_block = None \/ bm[y].next_block \in T => y \in T
  PROVE  Walk(bm, b, 0) \subseteq T
<1> SUFFICES ASSUME NEW y \in Walk(bm, b, 0), y \notin T PROVE FALSE
  OBVIOUS
<1> DEFINE S == Walk(bm, b, 0) \ T
<1>1. \A x \in S : bm[x].next_block >= 0 => bm[x].next_block \in S
  BY LastOrNext
<1>2. S \in SUBSET Block /\ y \in S
  BY WalkInBlocks
<1>3. Walk(bm, y, 0) \subseteq S
  <2> HIDE DEF S
  <2> QED BY <1>1, <1>2, WalkLeast
<1>4. PICK last \in Walk(bm, y, 0) : bm[last].next_block < 0
  BY RestEnds DEF Ends, LastBlocks
<1>5. last \in S
  BY <1>3, <1>4
<1>6. bm[last].next_block = None
  <2>1. bm[last].next_block \in Block => ~ bm[last].next_block < 0
    BY SizesAssumption DEF Block
  <2> QED BY <2>1, <1>4, <1>5, LastOrNext
<1> QED BY <1>5, <1>6

(* A chain is its first block and the chain from the next.                 *)
LEMMA WalkSplits ==
  ASSUME NEW bm, NEW b, Ends(bm, b)
  PROVE  /\ b \in Walk(bm, b, 0)
         /\ Walk(bm, b, 0) = IF bm[b].next_block = None THEN {b}
                             ELSE {b} \cup Walk(bm, bm[b].next_block, 0)
<1> DEFINE z == bm[b].next_block
           rest == IF z = None THEN {} ELSE Walk(bm, z, 0)
<1>1. Links(bm) /\ b \in Block /\ b >= 0
  BY SizesAssumption DEF Ends, Block
<1>2. b \in Walk(bm, b, 0)
  BY <1>1, WalkHolds
<1>3. rest \subseteq Walk(bm, b, 0)
  BY <1>2, LastOrNext, RestEnds
<1>4. Walk(bm, b, 0) \subseteq {b} \cup rest
  <2>1. \A y \in {b} \cup rest : bm[y].next_block >= 0 => bm[y].next_block \in {b} \cup rest
    <3>1. CASE z = None
      BY <3>1 DEF None
    <3>2. CASE z # None
      <4>1. z \in Block /\ z >= 0
        BY <1>2, <3>2, LastOrNext
      <4>2. z \in Walk(bm, z, 0) /\ \A y \in Walk(bm, z, 0) :
              bm[y].next_block >= 0 => bm[y].next_block \in Walk(bm, z, 0)
        BY <1>1, <4>1, WalkHolds
      <4> QED BY <3>2, <4>2
    <3> QED BY <3>1, <3>2
  <2>2. {b} \cup rest \in SUBSET Block
    BY <1>1, WalkInBlocks
  <2> HIDE DEF rest
  <2> QED BY <2>1, <2>2, WalkLeast
<1> QED BY <1>2, <1>3, <1>4

(* No block of a chain that ends is met twice.                             *)
LEMMA NoWayBack ==
  ASSUME NEW bm, NEW b, Ends(bm, b), bm[b].next_block # None
  PROVE  b \notin Walk(bm, bm[b].next_block, 0)
<1> DEFINE T == {y \in Walk(bm, b, 0) :
                   bm[y].next_block # None => y \notin Walk(bm, bm[y].next_block, 0)}
<1>1. ASSUME NEW y \in Walk(bm, b, 0), bm[y].next_block \in T,
             bm[y].next_block # None, y \in Walk(bm, bm[y].next_block, 0)
      PROVE  FALSE
  <2> DEFINE z == bm[y].next_block
  <2>1. Ends(bm, z)
    BY <1>1, LastOrNext
  <2>2. /\ z \in Walk(bm, z, 0)
        /\ Walk(bm, z, 0) = IF bm[z].next_block = None THEN {z}
                            ELSE {z} \cup Walk(bm, bm[z].next_block, 0)
    <3> HIDE DEF z
    <3> QED BY <2>1, WalkSplits
  <2>3. CASE y = z
    BY <2>2, <2>3, <1>1
  <2>4. CASE y # z
    <3>1. bm[z].next_block # None /\ y \in Walk(bm, bm[z].next_block, 0)
      BY <2>2, <2>4, <1>1
    <3>2. Ends(bm, bm[z].next_block)
      BY <2>1, <2>2, <3>1, LastOrNext
    <3>3. z \in Walk(bm, bm[z].next_block, 0)
      <4>1. bm[y].next_block \in Walk(bm, bm[z].next_block, 0)
        BY <3>1, <3>2, <1>1, LastOrNext
      <4> QED BY <4>1
    <3> QED BY <3>1, <3>3, <1>1
  <2> QED BY <2>3, <2>4
<1>2. \A y \in Walk(bm, b, 0) :
        bm[y].next_block = None \/ bm[y].next_block \in T => y \in T
  BY <1>1
<1>3. Walk(bm, b, 0) \subseteq T
  <2> HIDE DEF T
  <2> QED BY <1>2, FromTheEnd
<1>4. b \in Walk(bm, b, 0)
  BY WalkSplits
<1> QED BY <1>3, <1>4

(* The chain of an inode in use ends.                                      *)
LEMMA ChainEnds ==
  ASSUME NEW im, NEW bm, WellLinked(im, bm), NEW i \in Inode, Alive(im, i)
  PROVE  Ends(bm, im[i].root_block)
<1>1. Links(bm) /\ im[i].root_block \in Block
  BY TablesHaveLinks DEF WellLinked, InodeTable
<1>2. PICK x \in Walk(bm, im[i].root_block, 0) : bm[x].next_block = None
  BY DEF WellLinked, Covered
<1> QED BY <1>1, <1>2 DEF Ends, LastBlocks, None

-----------------------------------------------------------------------------
(* Contents.                                                               *)

(* g answers the recursion of Contents for the blocks of S.                *)
Collected(bm, S, g) ==
  g = [x \in S |->
         LET next == bm[x].next_block
         IN  IF next \in Block THEN bm[x].cells \o g[next] ELSE bm[x].cells]

(* Contents is what one such function says, if there is one.               *)
LEMMA ContentsIs ==
  ASSUME NEW bm, NEW b
  PROVE  Contents(bm, b) = (CHOOSE g : Collected(bm, Walk(bm, b, 0), g))[b]
BY DEF Contents, Collected

(* The same block by block.                                                *)
LEMMA CollectedAt ==
  ASSUME NEW bm, NEW S, NEW g, Collected(bm, S, g), NEW x \in S
  PROVE  g[x] = IF bm[x].next_block \in Block
                THEN bm[x].cells \o g[bm[x].next_block] ELSE bm[x].cells
BY Zenon DEF Collected

(* The recursion ends: there is a function for every chain that ends.      *)
LEMMA CanCollect ==
  ASSUME NEW bm, NEW b, Ends(bm, b)
  PROVE  \E g : Collected(bm, Walk(bm, b, 0), g)
<1> DEFINE T == {y \in Walk(bm, b, 0) : \E g : Collected(bm, Walk(bm, y, 0), g)}
<1>1. None \notin Block
  BY SizesAssumption DEF Block, None
<1>2. ASSUME NEW y \in Walk(bm, b, 0), bm[y].next_block = None
      PROVE  y \in T
  <2>1. Walk(bm, y, 0) = {y}
    BY <1>2, RestEnds, WalkSplits
  <2> DEFINE g == [x \in {y} |-> bm[y].cells]
  <2>2. Collected(bm, {y}, g)
    BY <1>1, <1>2 DEF Collected
  <2> QED BY <2>1, <2>2
<1>3. ASSUME NEW y \in Walk(bm, b, 0), bm[y].next_block \in T
      PROVE  y \in T
  <2> DEFINE z == bm[y].next_block
             W == Walk(bm, z, 0)
  <2>1. PICK h : Collected(bm, W, h)
    BY <1>3
  <2> DEFINE g == [x \in {y} \cup W |-> IF x = y THEN bm[y].cells \o h[z] ELSE h[x]]
  <2>2. z \in Block /\ z # None /\ Ends(bm, z) /\ Ends(bm, y)
    BY <1>1, <1>3, RestEnds, WalkInBlocks
  <2>3. Walk(bm, y, 0) = {y} \cup W /\ y \notin W /\ z \in W
    BY <2>2, WalkSplits, NoWayBack
  <2>4. \A x \in W : bm[x].next_block \in Block => bm[x].next_block \in W
    BY <1>1, <2>2, LastOrNext
  <2>5. \A x \in {y} \cup W :
          g[x] = IF bm[x].next_block \in Block
                 THEN bm[x].cells \o g[bm[x].next_block] ELSE bm[x].cells
    <3>1. g[y] = bm[y].cells \o h[z] /\ \A x \in W : g[x] = h[x]
      BY <2>3
    <3>2. \A x \in W : h[x] = IF bm[x].next_block \in Block
                              THEN bm[x].cells \o h[bm[x].next_block] ELSE bm[x].cells
      BY <2>1, CollectedAt
    <3> HIDE DEF g, W
    <3> QED BY <3>1, <3>2, <2>2, <2>3, <2>4
  <2>6. Collected(bm, {y} \cup W, g)
    <3> DEFINE f == [x \in {y} \cup W |-> IF bm[x].next_block \in Block
                      THEN bm[x].cells \o g[bm[x].next_block] ELSE bm[x].cells]
    <3>1. g = [x \in {y} \cup W |-> g[x]]
      OBVIOUS
    <3>2. g = f
      <4> HIDE DEF g, W
      <4> QED BY <3>1, <2>5
    <3> HIDE DEF g, W
    <3> QED BY <3>2 DEF Collected
  <2> HIDE DEF g, W
  <2> QED BY <2>3, <2>6
<1>4. Walk(bm, b, 0) \subseteq T
  <2> HIDE DEF T
  <2> QED BY <1>2, <1>3, FromTheEnd
<1>5. b \in T
  BY <1>4, WalkSplits
<1> QED BY <1>5

(* And it has one answer for every block of the chain.                     *)
LEMMA CollectedOnce ==
  ASSUME NEW bm, NEW b, Ends(bm, b),
         NEW S, NEW g, Collected(bm, S, g), Walk(bm, b, 0) \subseteq S,
         NEW R, NEW h, Collected(bm, R, h), Walk(bm, b, 0) \subseteq R
  PROVE  g[b] = h[b]
<1> DEFINE T == {y \in Walk(bm, b, 0) : g[y] = h[y]}
<1>1. None \notin Block
  BY SizesAssumption DEF Block, None
<1>2. ASSUME NEW y \in Walk(bm, b, 0), bm[y].next_block = None \/ bm[y].next_block \in T
      PROVE  y \in T
  <2>1. /\ g[y] = IF bm[y].next_block \in Block
                  THEN bm[y].cells \o g[bm[y].next_block] ELSE bm[y].cells
        /\ h[y] = IF bm[y].next_block \in Block
                  THEN bm[y].cells \o h[bm[y].next_block] ELSE bm[y].cells
    BY CollectedAt
  <2> QED BY <1>1, <1>2, <2>1
<1>3. Walk(bm, b, 0) \subseteq T
  <2> HIDE DEF T
  <2> QED BY <1>2, FromTheEnd
<1> QED BY <1>3, WalkSplits

(* So Contents is what its definition promises: all that the lemmas below  *)
(* use of it.                                                              *)
LEMMA ContentsStep ==
  ASSUME NEW bm, NEW b, Ends(bm, b)
  PROVE  Contents(bm, b) = IF bm[b].next_block = None THEN bm[b].cells
                           ELSE bm[b].cells \o Contents(bm, bm[b].next_block)
<1> DEFINE W == Walk(bm, b, 0)
           g == CHOOSE f : Collected(bm, W, f)
<1>1. Collected(bm, W, g)
  BY CanCollect
<1>2. b \in W /\ Contents(bm, b) = g[b] /\ None \notin Block
  <2>1. Contents(bm, b) = g[b]
    BY ContentsIs
  <2>2. None \notin Block
    BY SizesAssumption DEF Block, None
  <2> QED BY <2>1, <2>2, WalkSplits
<1>3. g[b] = IF bm[b].next_block \in Block
             THEN bm[b].cells \o g[bm[b].next_block] ELSE bm[b].cells
  <2> HIDE DEF g, W
  <2> QED BY <1>1, <1>2, CollectedAt
<1>4. CASE bm[b].next_block = None
  BY <1>2, <1>3, <1>4
<1>5. CASE bm[b].next_block # None
  <2> DEFINE z == bm[b].next_block
             h == CHOOSE f : Collected(bm, Walk(bm, z, 0), f)
  <2>1. z \in Block /\ Ends(bm, z)
    BY <1>2, <1>5, LastOrNext
  <2>2. Walk(bm, z, 0) \subseteq W
    BY <1>5, WalkSplits
  <2>3. Collected(bm, Walk(bm, z, 0), h)
    <3> HIDE DEF z
    <3> QED BY <2>1, CanCollect
  <2>4. Contents(bm, z) = h[z]
    BY ContentsIs
  <2>5. g[z] = h[z]
    <3> HIDE DEF g, W, z, h
    <3> QED BY <1>1, <2>1, <2>2, <2>3, CollectedOnce
  <2> QED BY <1>2, <1>3, <1>5, <2>1, <2>4, <2>5
<1> QED BY <1>4, <1>5

(* It is a sequence of cells.                                              *)
LEMMA ContentsType ==
  ASSUME NEW bm, BlockTable(bm), NEW b, Ends(bm, b)
  PROVE  Contents(bm, b) \in Seq(Cell) /\ Len(Contents(bm, b)) \in Nat
<1> DEFINE T == {y \in Walk(bm, b, 0) : Contents(bm, y) \in Seq(Cell)}
<1>1. ASSUME NEW y \in Walk(bm, b, 0), bm[y].next_block = None \/ bm[y].next_block \in T
      PROVE  y \in T
  <2>1. Ends(bm, y) /\ bm[y].cells \in Seq(Cell)
    BY RestEnds DEF BlockTable
  <2>2. CASE bm[y].next_block = None
    BY <2>1, <2>2, ContentsStep
  <2>3. CASE bm[y].next_block # None
    <3>1. Contents(bm, bm[y].next_block) \in Seq(Cell)
      BY <1>1, <2>3
    <3>2. Contents(bm, y) = bm[y].cells \o Contents(bm, bm[y].next_block)
      BY <2>1, <2>3, ContentsStep
    <3>3. \A s, t \in Seq(Cell) : s \o t \in Seq(Cell)
      OBVIOUS
    <3> QED BY <2>1, <3>1, <3>2, <3>3
  <2> QED BY <2>2, <2>3
<1>2. Walk(bm, b, 0) \subseteq T
  <2> HIDE DEF T
  <2> QED BY <1>1, FromTheEnd
<1>3. Contents(bm, b) \in Seq(Cell)
  BY <1>2, WalkSplits
<1> QED BY <1>3, LenProperties

(* It depends on the blocks of its chain only.                             *)
LEMMA EndsFrame ==
  ASSUME NEW bm, NEW b, Ends(bm, b), NEW bm2, Links(bm2),
         \A x \in Walk(bm, b, 0) : bm2[x].next_block = bm[x].next_block
  PROVE  Ends(bm2, b) /\ Walk(bm2, b, 0) = Walk(bm, b, 0)
<1>1. Walk(bm2, b, 0) = Walk(bm, b, 0)
  BY WalkFrame DEF Ends
<1> QED BY <1>1 DEF Ends, LastBlocks

LEMMA ContentsFrame ==
  ASSUME NEW bm, NEW b, Ends(bm, b), NEW bm2, Links(bm2),
         \A x \in Walk(bm, b, 0) :
           bm2[x].next_block = bm[x].next_block /\ bm2[x].cells = bm[x].cells
  PROVE  Ends(bm2, b) /\ Contents(bm2, b) = Contents(bm, b)
<1> DEFINE T == {y \in Walk(bm, b, 0) : Contents(bm2, y) = Contents(bm, y)}
<1>1. ASSUME NEW y \in Walk(bm, b, 0), bm[y].next_block = None \/ bm[y].next_block \in T
      PROVE  y \in T
  <2>1. Ends(bm, y) /\ Ends(bm2, y)
    BY RestEnds, EndsFrame
  <2>2. /\ Contents(bm, y) = IF bm[y].next_block = None THEN bm[y].cells
                             ELSE bm[y].cells \o Contents(bm, bm[y].next_block)
        /\ Contents(bm2, y) = IF bm2[y].next_block = None THEN bm2[y].cells
                              ELSE bm2[y].cells \o Contents(bm2, bm2[y].next_block)
    BY <2>1, ContentsStep
  <2> QED BY <1>1, <2>2
<1>2. Walk(bm, b, 0) \subseteq T
  <2> HIDE DEF T
  <2> QED BY <1>1, FromTheEnd
<1> QED BY <1>2, WalkSplits, EndsFrame

-----------------------------------------------------------------------------
(* minifs_append_data adds its data at the end of the contents.            *)

(* The data from position k on.                                            *)
Remaining(data, k) == SubSeq(data, k, Len(data))

LEMMA RemainingType ==
  ASSUME NEW data \in Seq(Cell), NEW k \in Nat \ {0}
  PROVE  Remaining(data, k) \in Seq(Cell)
<1>1. Len(data) \in Nat /\ \A j \in k .. Len(data) : data[j] \in Cell
  BY LenProperties, ElementOfSeq
<1> QED BY <1>1, SubSeqProperties DEF Remaining

(* A piece and what follows it.                                            *)
LEMMA PieceThenRest ==
  ASSUME NEW data \in Seq(Cell), NEW from \in Nat \ {0}, NEW to \in Int, to >= from - 1
  PROVE  Piece(data, from, to) \o Remaining(data, to + 1) = Remaining(data, from)
<1> DEFINE len == Len(data)
<1>1. len \in Nat
  BY LenProperties
<1>2. CASE to < len
  <2>1. from \in 1 .. len + 1 /\ to \in from - 1 .. len /\ len \in to .. len
    BY <1>1, <1>2
  <2>2. SubSeq(data, from, to) \o SubSeq(data, to + 1, len) = SubSeq(data, from, len)
    BY <2>1, ConcatAdjacentSubSeq
  <2> QED BY <1>2, <2>2 DEF Piece, Remaining
<1>3. CASE ~ to < len
  <2>1. to + 1 \in Int /\ len < to + 1
    BY <1>1, <1>3
  <2>2. Remaining(data, to + 1) = << >>
    BY <2>1, <1>1, SubSeqEmpty DEF Remaining
  <2>3. Piece(data, from, to) = Remaining(data, from)
    BY <1>3 DEF Piece, Remaining
  <2>4. Remaining(data, from) \o << >> = Remaining(data, from)
    BY RemainingType, ConcatEmptySeq
  <2> QED BY <2>2, <2>3, <2>4
<1> QED BY <1>2, <1>3

(* A piece that reaches the end of the data is all the rest of it.         *)
LEMMA LastPiece ==
  ASSUME NEW data \in Seq(Cell), NEW from, NEW to \in Int, Len(data) <= to
  PROVE  Piece(data, from, to) = Remaining(data, from)
<1>1. Len(data) \in Nat
  BY LenProperties
<1>2. (IF to < Len(data) THEN to ELSE Len(data)) = Len(data)
  BY <1>1
<1> QED BY <1>2 DEF Piece, Remaining

(* The blocks that minifs_append_data takes are enough for its data.       *)
LEMMA CeilingEnough ==
  ASSUME NEW m \in Nat \ {0}, NEW c \in Nat \ {0}
  PROVE  ((m + c - 1) \div c) * c >= m
<1> DEFINE x == m + c - 1
<1>1. x \in Nat /\ x - c + 1 = m
  OBVIOUS
<1>2. (x \div c) * c >= x - c + 1
  <2> HIDE DEF x
  <2> QED BY <1>1
<1> QED BY <1>1, <1>2

LEMMA BlocksSuffice ==
  ASSUME NEW bm, NEW last, Room(bm, last) \in Nat, NEW len \in Nat
  PROVE  Upto(bm, last, BlocksNeeded(bm, last, len)) >= len
<1> DEFINE room == Room(bm, last)
           m == len - room
<1>1. BlockCells \in Nat \ {0} /\ room \in Nat
  BY SizesAssumption
<1>2. BlocksNeeded(bm, last, len) =
        IF len <= room THEN 0 ELSE (m + BlockCells - 1) \div BlockCells
  BY DEF BlocksNeeded, Room
<1> HIDE DEF room
<1>3. CASE len <= room
  <2>1. Upto(bm, last, 0) = room
    BY <1>1 DEF Upto, room
  <2> QED BY <1>1, <1>2, <1>3, <2>1
<1>4. CASE ~ len <= room
  <2>1. m \in Nat \ {0}
    BY <1>1, <1>4
  <2> DEFINE n == (m + BlockCells - 1) \div BlockCells
  <2>2. n * BlockCells >= m
    <3> HIDE DEF m
    <3> QED BY <1>1, <2>1, CeilingEnough
  <2>3. n \in Int
    <3>1. m + BlockCells - 1 \in Int
      BY <1>1, <2>1
    <3> QED BY <3>1, <1>1
  <2>4. n * BlockCells \in Int
    BY <2>3, <1>1
  <2> DEFINE p == n * BlockCells
  <2>5. p \in Int /\ p >= len - room
    BY <2>2, <2>4
  <2>6. Upto(bm, last, n) = room + p
    BY DEF Upto, room
  <2> HIDE DEF n, p
  <2>7. room + p >= len
    BY <2>5, <1>1
  <2> QED BY <1>2, <1>4, <2>6, <2>7 DEF n
<1> QED BY <1>3, <1>4

(* A chain has one last block.                                             *)
LEMMA OneLast ==
  ASSUME NEW bm, NEW b, Ends(bm, b), NEW last \in LastBlocks(bm, b),
         NEW y \in Walk(bm, b, 0), bm[y].next_block = None
  PROVE  y = last
<1>1. Walk(bm, y, 0) = {y}
  BY RestEnds, WalkSplits
<1>2. last \in Walk(bm, b, 0) /\ bm[last].next_block < 0
  BY DEF LastBlocks
<1>3. last \in Walk(bm, y, 0)
  BY <1>2, ReachesEnd DEF Ends
<1> QED BY <1>1, <1>3

LEMMA LastBlockEnds ==
  ASSUME NEW bm, NEW b, Ends(bm, b), NEW last \in LastBlocks(bm, b)
  PROVE  last \in Walk(bm, b, 0) /\ last \in Block /\ bm[last].next_block = None
<1>1. last \in Walk(bm, b, 0) /\ bm[last].next_block < 0
  BY DEF LastBlocks
<1>2. bm[last].next_block \in Block => ~ bm[last].next_block < 0
  BY SizesAssumption DEF Block
<1> QED BY <1>1, <1>2, LastOrNext, RestEnds

(* Data is appended to the chain from b, which ends in `last', and there   *)
(* is room for it in the n blocks nb.                                      *)
AppendedTo(bm, b, last, data, n, nb, bm2) ==
  /\ BlockTable(bm) /\ Ends(bm, b) /\ last \in LastBlocks(bm, b)
  /\ \A y \in Walk(bm, b, 0) : InUse(bm, y)
  /\ data \in Seq(Cell) /\ n \in Nat /\ Fresh(bm, n, nb)
  /\ Room(bm, last) \in Nat /\ Len(data) <= Upto(bm, last, n)
  /\ Ends(bm2, b) /\ BlockByBlock(bm, last, data, n, nb, bm2)

(* What block y of the new chain and those after it hold: y is the k-th    *)
(* new block, or one of the old chain.                                     *)
HoldsFrom(bm, b, last, data, n, nb, bm2, y) ==
  /\ \A k \in 1 .. n : nb[k] = y =>
       Contents(bm2, y) = Remaining(data, Upto(bm, last, k - 1) + 1)
  /\ y \in Walk(bm, b, 0) => Contents(bm2, y) = Contents(bm, y) \o data

(* Where pieces begin and end.                                             *)
LEMMA UptoSteps ==
  ASSUME NEW bm, NEW last, Room(bm, last) \in Nat, NEW k \in Nat \ {0}
  PROVE  /\ Upto(bm, last, 0) = Room(bm, last)
         /\ Upto(bm, last, k - 1) + 1 \in Nat \ {0}
         /\ Upto(bm, last, k) \in Nat
         /\ Upto(bm, last, k) >= Upto(bm, last, k - 1)
<1>1. BlockCells \in Nat /\ Room(bm, last) \in Nat
  BY SizesAssumption
<1>2. (k - 1) * BlockCells \in Nat /\ k * BlockCells = (k - 1) * BlockCells + BlockCells
  BY <1>1
<1>3. Upto(bm, last, 0) = Room(bm, last)
  BY <1>1 DEF Upto
<1> DEFINE p == (k - 1) * BlockCells
<1>4. Upto(bm, last, k - 1) = Room(bm, last) + p
  BY DEF Upto
<1>5. Upto(bm, last, k) = Room(bm, last) + p + BlockCells
  BY <1>1, <1>2 DEF Upto
<1>6. p \in Nat
  BY <1>2
<1> HIDE DEF p
<1> QED BY <1>1, <1>3, <1>4, <1>5, <1>6

LEMMA NewBlockHolds ==
  ASSUME NEW bm, NEW b, NEW last, NEW data, NEW n, NEW nb, NEW bm2,
         AppendedTo(bm, b, last, data, n, nb, bm2), NEW k \in 1 .. n,
         nb[k] \in Walk(bm2, b, 0),
         \/ bm2[nb[k]].next_block = None
         \/ HoldsFrom(bm, b, last, data, n, nb, bm2, bm2[nb[k]].next_block)
  PROVE  HoldsFrom(bm, b, last, data, n, nb, bm2, nb[k])
<1> DEFINE y == nb[k]
           from(j) == Upto(bm, last, j - 1) + 1
           next == IF k < n THEN nb[k + 1] ELSE None
           piece == Piece(data, from(k), Upto(bm, last, k))
<1>1. /\ Ends(bm2, b) /\ data \in Seq(Cell) /\ n \in Nat
      /\ Room(bm, last) \in Nat /\ Len(data) <= Upto(bm, last, n)
      /\ \A z \in Walk(bm, b, 0) : InUse(bm, z)
      /\ \A j \in 1 .. n : nb[j] \in Block /\ bm[nb[j]].type = EMPTY
      /\ \A i, j \in 1 .. n : i # j => nb[i] # nb[j]
      /\ None \notin Block
  <2>1. None \notin Block
    BY SizesAssumption DEF None, Block
  <2> QED BY <2>1 DEF AppendedTo, Fresh
<1>2. bm2[y].next_block = next /\ bm2[y].cells = piece
  <2>1. bm2[y] = [type |-> USED, next_block |-> next, cells |-> piece]
    BY DEF AppendedTo, BlockByBlock
  <2> HIDE DEF next, piece, y
  <2> QED BY <2>1
<1>3. Contents(bm2, y) = IF bm2[y].next_block = None THEN bm2[y].cells
                         ELSE bm2[y].cells \o Contents(bm2, bm2[y].next_block)
  BY <1>1, RestEnds, ContentsStep
<1>4. /\ from(k) \in Nat \ {0} /\ Upto(bm, last, k) \in Nat
      /\ Upto(bm, last, k) >= from(k) - 1
      /\ k \in Nat \ {0} /\ from(k + 1) = Upto(bm, last, k) + 1
  <2>1. k \in Nat \ {0} /\ k + 1 - 1 = k
    BY <1>1
  <2>2. /\ from(k) \in Nat \ {0} /\ Upto(bm, last, k) \in Nat
        /\ Upto(bm, last, k) >= Upto(bm, last, k - 1)
    BY <2>1, <1>1, UptoSteps
  <2>3. Upto(bm, last, k - 1) \in Int
    <3>1. BlockCells \in Int /\ (k - 1) * BlockCells \in Int
      BY <2>1, SizesAssumption
    <3> QED BY <3>1, <1>1 DEF Upto
  <2>4. Upto(bm, last, k) >= from(k) - 1
    BY <2>2, <2>3
  <2> QED BY <2>1, <2>2, <2>4
<1>5. CASE k = n
  <2>1. next = None
    BY <1>1, <1>5
  <2>2. piece = Remaining(data, from(k))
    BY <1>1, <1>4, <1>5, LastPiece
  <2>3. Contents(bm2, y) = Remaining(data, from(k))
    BY <1>2, <1>3, <2>1, <2>2
  <2> QED BY <2>3, <1>1 DEF HoldsFrom, InUse, EMPTY, USED
<1>6. CASE k # n
  <2>1. k + 1 \in 1 .. n /\ next = nb[k + 1] /\ next # None
    BY <1>1, <1>6
  <2>2. Contents(bm2, next) = Remaining(data, from(k + 1))
    BY <1>2, <2>1 DEF HoldsFrom
  <2>3. piece \o Remaining(data, Upto(bm, last, k) + 1) = Remaining(data, from(k))
    <3>1. /\ from(k) \in Nat \ {0} /\ Upto(bm, last, k) \in Int
          /\ Upto(bm, last, k) >= from(k) - 1
      BY <1>4
    <3> HIDE DEF from
    <3> QED BY <1>1, <3>1, PieceThenRest
  <2>4. Contents(bm2, y) = Remaining(data, from(k))
    BY <1>2, <1>3, <1>4, <2>1, <2>2, <2>3
  <2> QED BY <2>4, <1>1 DEF HoldsFrom, InUse, EMPTY, USED
<1> QED BY <1>5, <1>6

LEMMA OldBlockHolds ==
  ASSUME NEW bm, NEW b, NEW last, NEW data, NEW n, NEW nb, NEW bm2,
         AppendedTo(bm, b, last, data, n, nb, bm2),
         NEW y \in Walk(bm, b, 0), y \in Walk(bm2, b, 0),
         \/ bm2[y].next_block = None
         \/ HoldsFrom(bm, b, last, data, n, nb, bm2, bm2[y].next_block)
  PROVE  HoldsFrom(bm, b, last, data, n, nb, bm2, y)
<1> DEFINE own == bm[y].cells
<1>1. /\ BlockTable(bm) /\ Ends(bm, b) /\ Ends(bm, y) /\ last \in LastBlocks(bm, b)
      /\ Ends(bm2, b) /\ Ends(bm2, y) /\ data \in Seq(Cell) /\ n \in Nat
      /\ Room(bm, last) \in Nat /\ Len(data) <= Upto(bm, last, n)
      /\ BlockByBlock(bm, last, data, n, nb, bm2)
  BY RestEnds DEF AppendedTo
<1>2. \A k \in 1 .. n : nb[k] # y
  BY DEF AppendedTo, Fresh, InUse, EMPTY, USED
<1>3. y \in Block /\ own \in Seq(Cell)
  BY <1>1, RestEnds DEF BlockTable
<1>4. /\ Contents(bm2, y) = IF bm2[y].next_block = None THEN bm2[y].cells
                            ELSE bm2[y].cells \o Contents(bm2, bm2[y].next_block)
      /\ Contents(bm, y) = IF bm[y].next_block = None THEN bm[y].cells
                           ELSE bm[y].cells \o Contents(bm, bm[y].next_block)
  BY <1>1, ContentsStep
<1>5. CASE y # last
  <2> DEFINE z == bm[y].next_block
             rest == Contents(bm, z)
  <2>1. bm2[y] = bm[y]
    BY <1>1, <1>2, <1>3, <1>5 DEF BlockByBlock
  <2>2. z # None
    BY <1>1, <1>5, OneLast
  <2>3. z \in Walk(bm, b, 0) /\ Ends(bm, z)
    BY <1>1, <2>2, LastOrNext
  <2>4. Contents(bm2, z) = rest \o data
    BY <2>1, <2>2, <2>3 DEF HoldsFrom
  <2>5. rest \in Seq(Cell)
    <3> HIDE DEF z
    <3> QED BY <1>1, <2>3, ContentsType
  <2>6. own \o (rest \o data) = (own \o rest) \o data
    <3> HIDE DEF own, rest
    <3> QED BY <1>1, <1>3, <2>5, ConcatAssociative
  <2>7. Contents(bm2, y) = Contents(bm, y) \o data
    BY <1>4, <2>1, <2>2, <2>4, <2>6
  <2> QED BY <2>7, <1>2 DEF HoldsFrom
<1>6. CASE y = last
  <2> DEFINE room == Room(bm, last)
             piece == Piece(data, 1, room)
  <2>1. bm[y].next_block = None
    BY <1>1, <1>6, LastBlockEnds
  <2>2. /\ bm2[y].next_block = IF n = 0 THEN None ELSE nb[1]
        /\ bm2[y].cells = own \o piece
    BY <1>1, <1>6, <2>1 DEF BlockByBlock
  <2>3. Remaining(data, 1) = data
    BY <1>1, SubSeqFull DEF Remaining
  <2>4. Upto(bm, last, 0) = room /\ room \in Nat /\ 1 - 1 = 0
    BY <1>1, UptoSteps
  <2>5. CASE n = 0
    <3>1. piece = data
      BY <1>1, <2>3, <2>4, <2>5, LastPiece
    <3> QED BY <3>1, <2>1, <2>2, <2>5, <1>2, <1>4 DEF HoldsFrom
  <2>6. CASE n # 0
    <3>1. 1 \in 1 .. n /\ nb[1] \in Block /\ None \notin Block
      BY <1>1, <2>6, SizesAssumption DEF AppendedTo, Fresh, None, Block
    <3>2. Contents(bm2, nb[1]) = Remaining(data, room + 1)
      BY <3>1, <2>2, <2>4, <2>6 DEF HoldsFrom
    <3>3. piece \o Remaining(data, room + 1) = data
      <4>1. 1 \in Nat \ {0} /\ room \in Int /\ room >= 1 - 1
        BY <2>4
      <4> HIDE DEF room
      <4> QED BY <1>1, <2>3, <4>1, PieceThenRest
    <3>4. piece \in Seq(Cell) /\ Remaining(data, room + 1) \in Seq(Cell)
      <4>1. room + 1 \in Nat \ {0} /\ 1 \in Nat \ {0} /\ room \in Int /\ room >= 1 - 1
        BY <2>4
      <4> HIDE DEF room
      <4>2. Piece(data, 1, room) \in Seq(Cell)
        BY <1>1, <4>1, PieceFits DEF Piece
      <4> QED BY <1>1, <4>1, <4>2, RemainingType
    <3>5. (own \o piece) \o Remaining(data, room + 1) = own \o data
      <4> DEFINE rest == Remaining(data, room + 1)
      <4> HIDE DEF own, piece, rest
      <4>1. own \in Seq(Cell) /\ piece \in Seq(Cell) /\ rest \in Seq(Cell)
        BY <1>3, <3>4 DEF rest
      <4>2. (own \o piece) \o rest = own \o (piece \o rest)
        BY <4>1, ConcatAssociative
      <4> QED BY <3>3, <4>2 DEF rest
    <3>6. Contents(bm2, y) = Contents(bm, y) \o data
      BY <1>4, <2>1, <2>2, <2>6, <3>1, <3>2, <3>5
    <3> QED BY <3>6, <1>2 DEF HoldsFrom
  <2> QED BY <2>5, <2>6
<1> QED BY <1>5, <1>6

(* Whatever the data and however many blocks it needs, nothing is lost,    *)
(* doubled or reordered where it crosses from one block into the next.     *)
LEMMA AppendExtends ==
  ASSUME NEW bm, NEW b, NEW last, NEW data, NEW n, NEW nb, NEW bm2,
         AppendedTo(bm, b, last, data, n, nb, bm2)
  PROVE  Contents(bm2, b) = Contents(bm, b) \o data
<1> DEFINE T == {y \in Walk(bm2, b, 0) : HoldsFrom(bm, b, last, data, n, nb, bm2, y)}
<1>0. Ends(bm, b) /\ Ends(bm2, b)
  BY DEF AppendedTo
<1>1. ASSUME NEW y \in Walk(bm2, b, 0), bm2[y].next_block = None \/ bm2[y].next_block \in T
      PROVE  y \in T
  <2>1. \/ bm2[y].next_block = None
        \/ HoldsFrom(bm, b, last, data, n, nb, bm2, bm2[y].next_block)
    BY <1>1
  <2>2. CASE \E k \in 1 .. n : nb[k] = y
    <3>1. PICK k \in 1 .. n : nb[k] = y
      BY <2>2
    <3>2. HoldsFrom(bm, b, last, data, n, nb, bm2, nb[k])
      BY <2>1, <3>1, NewBlockHolds
    <3> QED BY <3>1, <3>2
  <2>3. CASE y \in Walk(bm, b, 0)
    BY <2>1, <2>3, OldBlockHolds
  <2>4. CASE y \notin Walk(bm, b, 0) /\ \A k \in 1 .. n : nb[k] # y
    BY <2>4 DEF HoldsFrom
  <2> QED BY <2>2, <2>3, <2>4
<1>2. Walk(bm2, b, 0) \subseteq T
  <2> HIDE DEF T
  <2> QED BY <1>0, <1>1, FromTheEnd
<1> QED BY <1>0, <1>2, WalkSplits DEF HoldsFrom

-----------------------------------------------------------------------------
(* minifs_remove_from_dir clears `used' in the contents, and no more.      *)

(* Two sequences, one after the other, are cleared one by one.             *)
LEMMA ClearedConcat ==
  ASSUME NEW s \in Seq(Cell), NEW s2 \in Seq(Cell), Store!ClearedFrom(s, s2),
         NEW t \in Seq(Cell), NEW t2 \in Seq(Cell), Store!ClearedFrom(t, t2)
  PROVE  Store!ClearedFrom(s \o t, s2 \o t2)
<1>1. /\ Len(s) \in Nat /\ Len(t) \in Nat /\ Len(s2) = Len(s) /\ Len(t2) = Len(t)
      /\ \A k \in 1 .. Len(s) : s2[k] = s[k] \/ s2[k] = [s[k] EXCEPT !.used = FALSE]
      /\ \A k \in 1 .. Len(t) : t2[k] = t[k] \/ t2[k] = [t[k] EXCEPT !.used = FALSE]
  BY LenProperties DEF Store!ClearedFrom
<1> DEFINE both == s \o t
           both2 == s2 \o t2
<1>2. /\ Len(both) = Len(s) + Len(t)
      /\ \A k \in 1 .. Len(s) + Len(t) :
           both[k] = IF k <= Len(s) THEN s[k] ELSE t[k - Len(s)]
  BY ConcatProperties
<1>3. /\ Len(both2) = Len(s2) + Len(t2)
      /\ \A k \in 1 .. Len(s2) + Len(t2) :
           both2[k] = IF k <= Len(s2) THEN s2[k] ELSE t2[k - Len(s2)]
  BY ConcatProperties
<1> HIDE DEF both, both2
<1>4. ASSUME NEW k \in 1 .. Len(both)
      PROVE  both2[k] = both[k] \/ both2[k] = [both[k] EXCEPT !.used = FALSE]
  <2>1. CASE k <= Len(s)
    <3>1. k \in 1 .. Len(s)
      BY <1>1, <1>2, <2>1
    <3> QED BY <3>1, <2>1, <1>1, <1>2, <1>3
  <2>2. CASE ~ k <= Len(s)
    <3>1. k - Len(s) \in 1 .. Len(t)
      BY <1>1, <1>2, <2>2
    <3>2. both[k] = t[k - Len(s)] /\ both2[k] = t2[k - Len(s)]
      BY <1>1, <1>2, <1>3, <2>2
    <3> QED BY <3>1, <3>2, <1>1
  <2> QED BY <2>1, <2>2
<1> QED BY <1>1, <1>2, <1>3, <1>4 DEF Store!ClearedFrom, both, both2

(* Clearing twice clears.                                                  *)
LEMMA ClearedTwice ==
  ASSUME NEW s \in Seq(Cell), NEW t, Store!ClearedFrom(s, t),
         NEW u, Store!ClearedFrom(t, u)
  PROVE  Store!ClearedFrom(s, u)
<1>1. /\ Len(t) = Len(s) /\ Len(u) = Len(s)
      /\ \A k \in 1 .. Len(s) : t[k] = s[k] \/ t[k] = [s[k] EXCEPT !.used = FALSE]
      /\ \A k \in 1 .. Len(s) : u[k] = t[k] \/ u[k] = [t[k] EXCEPT !.used = FALSE]
  BY DEF Store!ClearedFrom
<1>2. ASSUME NEW k \in 1 .. Len(s)
      PROVE  u[k] = s[k] \/ u[k] = [s[k] EXCEPT !.used = FALSE]
  <2>1. s[k] \in Cell
    BY ElementOfSeq
  <2>2. [[s[k] EXCEPT !.used = FALSE] EXCEPT !.used = FALSE] = [s[k] EXCEPT !.used = FALSE]
    BY <2>1 DEF Cell
  <2>3. t[k] = s[k] \/ t[k] = [s[k] EXCEPT !.used = FALSE]
    BY <1>1
  <2>4. u[k] = t[k] \/ u[k] = [t[k] EXCEPT !.used = FALSE]
    BY <1>1
  <2> QED BY <2>2, <2>3, <2>4
<1> QED BY <1>1, <1>2 DEF Store!ClearedFrom

LEMMA ClearedNot ==
  ASSUME NEW s
  PROVE  Store!ClearedFrom(s, s)
BY DEF Store!ClearedFrom

(* bm2 is bm with `used' cleared here or there.                            *)
Fainter(bm, bm2) ==
  /\ BlockTable(bm) /\ BlockTable(bm2)
  /\ \A b \in Block : /\ bm2[b].next_block = bm[b].next_block
                      /\ Store!ClearedFrom(bm[b].cells, bm2[b].cells)

LEMMA ClearUsedFaints ==
  ASSUME NEW bm, BlockTable(bm), \A b \in Block : Len(bm[b].cells) <= BlockCells,
         NEW numbers
  PROVE  Fainter(bm, ClearUsed(bm, numbers))
<1> DEFINE bm2 == ClearUsed(bm, numbers)
<1>1. BlockTable(bm2) /\ \A b \in Block : bm2[b].next_block = bm[b].next_block
  BY ClearTypes
<1>2. ASSUME NEW b \in Block
      PROVE  Store!ClearedFrom(bm[b].cells, bm2[b].cells)
  <2> DEFINE old == bm[b].cells
             seq == [k \in 1 .. Len(old) |->
                       IF b * BlockCells + k - 1 \in numbers
                       THEN [old[k] EXCEPT !.used = FALSE] ELSE old[k]]
  <2>1. bm2[b] = [bm[b] EXCEPT !.cells = seq]
    BY DEF ClearUsed
  <2>2. bm[b] \in [type : {EMPTY, USED}, next_block : Block \cup {None}, cells : Seq(Cell)]
    BY DEF BlockTable
  <2>3. bm2[b].cells = seq
    <3> HIDE DEF seq, bm2
    <3> QED BY <2>1, <2>2
  <2>4. Len(old) \in Nat
    BY <2>2, LenProperties
  <2>5. Len(seq) = Len(old)
    <3> HIDE DEF old
    <3> QED BY <2>4
  <2>6. \A k \in 1 .. Len(old) : seq[k] = old[k] \/ seq[k] = [old[k] EXCEPT !.used = FALSE]
    OBVIOUS
  <2> HIDE DEF seq, old, bm2
  <2>7. Store!ClearedFrom(old, seq)
    BY <2>5, <2>6 DEF Store!ClearedFrom
  <2> QED BY <2>3, <2>7 DEF old
<1> QED BY <1>1, <1>2 DEF Fainter

LEMMA FaintsTwice ==
  ASSUME NEW bm, NEW bm2, Fainter(bm, bm2), NEW bm3, Fainter(bm2, bm3)
  PROVE  Fainter(bm, bm3)
<1>1. \A b \in Block : bm[b].cells \in Seq(Cell)
  BY DEF Fainter, BlockTable
<1>2. \A b \in Block : Store!ClearedFrom(bm[b].cells, bm3[b].cells)
  BY <1>1, ClearedTwice DEF Fainter
<1> QED BY <1>2 DEF Fainter

LEMMA ContentsFaint ==
  ASSUME NEW bm, NEW bm2, Fainter(bm, bm2), NEW b, Ends(bm, b)
  PROVE  Store!ClearedFrom(Contents(bm, b), Contents(bm2, b))
<1> DEFINE T == {y \in Walk(bm, b, 0) :
                   Store!ClearedFrom(Contents(bm, y), Contents(bm2, y))}
<1>0. BlockTable(bm) /\ BlockTable(bm2) /\ Links(bm2)
  BY TablesHaveLinks DEF Fainter
<1>1. ASSUME NEW y \in Walk(bm, b, 0), bm[y].next_block = None \/ bm[y].next_block \in T
      PROVE  y \in T
  <2> DEFINE z == bm[y].next_block
  <2>1. y \in Block /\ Ends(bm, y)
    BY RestEnds
  <2>2. /\ bm2[y].next_block = z /\ Store!ClearedFrom(bm[y].cells, bm2[y].cells)
        /\ bm[y].cells \in Seq(Cell) /\ bm2[y].cells \in Seq(Cell)
    BY <2>1 DEF Fainter, BlockTable
  <2>3. \A x \in Walk(bm, y, 0) : bm2[x].next_block = bm[x].next_block
    BY WalkInBlocks DEF Fainter
  <2>4. Ends(bm2, y)
    BY <1>0, <2>1, <2>3, EndsFrame
  <2>5. /\ Contents(bm, y) = IF z = None THEN bm[y].cells ELSE bm[y].cells \o Contents(bm, z)
        /\ Contents(bm2, y) = IF z = None THEN bm2[y].cells
                              ELSE bm2[y].cells \o Contents(bm2, z)
    BY <2>1, <2>2, <2>4, ContentsStep
  <2>6. CASE z = None
    BY <2>2, <2>5, <2>6
  <2>7. CASE z # None
    <3>1. Store!ClearedFrom(Contents(bm, z), Contents(bm2, z))
      BY <1>1, <2>7
    <3>2. Ends(bm, z) /\ Ends(bm2, z)
      BY <2>1, <2>2, <2>4, <2>7, WalkSplits, LastOrNext
    <3>3. Contents(bm, z) \in Seq(Cell) /\ Contents(bm2, z) \in Seq(Cell)
      <4> HIDE DEF z
      <4> QED BY <1>0, <3>2, ContentsType
    <3>4. Store!ClearedFrom(bm[y].cells \o Contents(bm, z), bm2[y].cells \o Contents(bm2, z))
      <4> HIDE DEF z
      <4> QED BY <2>2, <3>1, <3>3, ClearedConcat
    <3> QED BY <2>5, <2>7, <3>4
  <2> QED BY <2>6, <2>7
<1>2. Walk(bm, b, 0) \subseteq T
  <2> HIDE DEF T
  <2> QED BY <1>1, FromTheEnd
<1> QED BY <1>2, WalkSplits

-----------------------------------------------------------------------------
(* The steps of InodeStore, in terms of the tables.                        *)

Holds(im, bm, i) == IF Alive(im, i) THEN Contents(bm, im[i].root_block) ELSE << >>

Refines == [Store!StoreNext]_(Store!svars)

LEMMA TablesUnchanged ==
  ASSUME UNCHANGED <<inode_map, block_map>>
  PROVE  Refines
BY DEF Refines, Store!svars, Live

LEMMA DropRefines ==
  ASSUME NEW D \in SUBSET Inode, D = {} \/ \E i \in Inode : D = {i},
         \A i \in D : Alive(inode_map, i),
         \A i \in Inode : inode_map'[i].type = IF i \in D THEN EMPTY ELSE inode_map[i].type,
         \A i \in Inode \ D :
           Store!ClearedFrom(Holds(inode_map, block_map, i), Holds(inode_map', block_map', i))
  PROVE  Refines
<1>1. \A i \in D : Holds(inode_map', block_map', i) = << >>
  BY DEF Holds, Alive
<1>2. Store!Drop(D)
  BY <1>1 DEF Store!Drop, Store!InUse, Holds, Alive, Live
<1> QED BY <1>2 DEF Refines, Store!StoreNext

LEMMA MakeRefines ==
  ASSUME NEW i \in Inode, ~ Alive(inode_map, i), NEW k \in {FILE, DIR}, NEW d \in Inode,
         d = i \/ Alive(inode_map, d), NEW c \in Cell, c.inode = i, c.used,
         \A j \in Inode : inode_map'[j].type = IF j = i THEN k ELSE inode_map[j].type,
         Holds(inode_map', block_map', d) = Append(Holds(inode_map, block_map, d), c),
         \A j \in Inode \ {d} :
           Holds(inode_map', block_map', j) = Holds(inode_map, block_map, j)
  PROVE  Refines
<1> DEFINE Kind == [j \in Inode |-> inode_map[j].type]
           Data == [j \in Inode |-> Holds(inode_map, block_map, j)]
<1>1. Kind' = [Kind EXCEPT ![i] = k]
  OBVIOUS
<1>2. Data' = [Data EXCEPT ![d] = Append(@, c)]
  OBVIOUS
<1>3. /\ Data = [j \in Inode |-> IF Live(j) THEN Contents(block_map, inode_map[j].root_block)
                                            ELSE << >>]
      /\ Data' = [j \in Inode |-> IF Live(j) THEN Contents(block_map, inode_map[j].root_block)
                                             ELSE << >>]'
  BY DEF Holds, Alive, Live
<1>4. Kind[i] = EMPTY /\ (d = i \/ Kind[d] # EMPTY)
  BY DEF Alive
<1> HIDE DEF Data
<1>5. Store!Make(i, k, d)
  BY <1>1, <1>2, <1>3, <1>4 DEF Store!Make, Store!InUse
<1> QED BY <1>5 DEF Refines, Store!StoreNext

(* A part of a sequence, cell by cell.                                     *)
LEMMA SubSeqIs ==
  ASSUME NEW s, NEW m \in Int, NEW n \in Int, \A j \in m .. n : s[j] \in Cell
  PROVE  /\ SubSeq(s, m, n) \in Seq(Cell)
         /\ Len(SubSeq(s, m, n)) = IF m <= n THEN n - m + 1 ELSE 0
         /\ \A j \in 1 .. n - m + 1 : SubSeq(s, m, n)[j] = s[m + j - 1]
<1>1. \A j \in 1 .. n - m + 1 : SubSeq(s, m, n)[j] = s[m + j - 1]
  OBVIOUS
<1> QED BY <1>1, SubSeqProperties

(* What lies behind the old cells is the data.                             *)
LEMMA Behind ==
  ASSUME NEW s \in Seq(Cell), NEW t \in Seq(Cell), NEW st, st = s \o t
  PROVE  /\ Len(s) \in Nat /\ Len(st) = Len(s) + Len(t) /\ Len(t) \in Nat
         /\ SubSeq(st, Len(s) + 1, Len(st)) = t
         /\ \A k \in Len(s) + 1 .. Len(st) : k - Len(s) \in 1 .. Len(t) /\ st[k] = t[k - Len(s)]
<1>1. Len(s) \in Nat /\ Len(t) \in Nat /\ st \in Seq(Cell)
  BY LenProperties, ConcatProperties
<1>2. /\ Len(st) = Len(s) + Len(t)
      /\ \A k \in 1 .. Len(s) + Len(t) : st[k] = IF k <= Len(s) THEN s[k] ELSE t[k - Len(s)]
  BY ConcatProperties
<1>3. \A k \in Len(s) + 1 .. Len(st) :
        k - Len(s) \in 1 .. Len(t) /\ st[k] = t[k - Len(s)] /\ st[k] \in Cell
  <2> TAKE k \in Len(s) + 1 .. Len(st)
  <2>1. k - Len(s) \in 1 .. Len(t) /\ k \in 1 .. Len(s) + Len(t) /\ ~ k <= Len(s)
    BY <1>1, <1>2
  <2>2. st[k] = t[k - Len(s)]
    BY <1>2, <2>1
  <2> QED BY <2>1, <2>2, ElementOfSeq
<1> DEFINE m == Len(s) + 1
           n == Len(st)
           sub == SubSeq(st, m, n)
<1>4. /\ sub \in Seq(Cell) /\ Len(sub) = IF m <= n THEN n - m + 1 ELSE 0
      /\ \A j \in 1 .. n - m + 1 : sub[j] = st[m + j - 1]
  <2>1. m \in Int /\ n \in Int /\ \A j \in m .. n : st[j] \in Cell
    BY <1>1, <1>2, <1>3
  <2> HIDE DEF m, n
  <2> QED BY <2>1, SubSeqIs
<1>5. Len(sub) = Len(t) /\ n - m + 1 = Len(t)
  <2>1. n - m + 1 = Len(t) /\ (m <= n <=> Len(t) > 0)
    BY <1>1, <1>2
  <2> HIDE DEF m, n, sub
  <2> QED BY <1>1, <1>4, <2>1
<1>6. \A j \in 1 .. Len(sub) : sub[j] = t[j]
  <2> TAKE j \in 1 .. Len(sub)
  <2>1. j \in 1 .. Len(t)
    BY <1>5
  <2>2. m + j - 1 \in Len(s) + 1 .. Len(st) /\ m + j - 1 - Len(s) = j
    BY <1>1, <1>2, <2>1
  <2>3. sub[j] = st[m + j - 1]
    BY <1>4, <1>5, <2>1
  <2>4. st[m + j - 1] = t[m + j - 1 - Len(s)]
    BY <1>3, <2>2
  <2> QED BY <2>2, <2>3, <2>4
<1>7. sub = t
  <2> HIDE DEF sub
  <2> QED BY <1>4, <1>5, <1>6, SeqEqual
<1> QED BY <1>1, <1>2, <1>3, <1>7

LEMMA ExtendRefines ==
  ASSUME NEW i \in Inode, Alive(inode_map, i), NEW text \in Seq(Cell),
         \A k \in 1 .. Len(text) : text[k].inode \notin Inode,
         \A j \in Inode : inode_map'[j].type = inode_map[j].type,
         Holds(inode_map, block_map, i) \in Seq(Cell),
         Holds(inode_map', block_map', i) = Holds(inode_map, block_map, i) \o text,
         \A j \in Inode \ {i} :
           Holds(inode_map', block_map', j) = Holds(inode_map, block_map, j)
  PROVE  Refines
<1> DEFINE Kind == [j \in Inode |-> inode_map[j].type]
           Data == [j \in Inode |-> Holds(inode_map, block_map, j)]
           old == Data[i]
           new == Data'[i]
<1>1. Kind' = Kind /\ Kind[i] # EMPTY
  BY DEF Alive
<1>2. old \in Seq(Cell) /\ new = old \o text
  OBVIOUS
<1>3. Data' = [Data EXCEPT ![i] = new]
  OBVIOUS
<1>4. /\ Data = [j \in Inode |-> IF Live(j) THEN Contents(block_map, inode_map[j].root_block)
                                            ELSE << >>]
      /\ Data' = [j \in Inode |-> IF Live(j) THEN Contents(block_map, inode_map[j].root_block)
                                             ELSE << >>]'
  BY DEF Holds, Alive, Live
<1> HIDE DEF Data
<1>5. /\ Len(old) \in Nat /\ Len(new) = Len(old) + Len(text) /\ Len(text) \in Nat
      /\ SubSeq(new, Len(old) + 1, Len(new)) = text
      /\ \A k \in Len(old) + 1 .. Len(new) :
           k - Len(old) \in 1 .. Len(text) /\ new[k] = text[k - Len(old)]
  <2> HIDE DEF old, new
  <2> QED BY <1>2, Behind
<1>6. Len(new) >= Len(old)
  <2> HIDE DEF old, new
  <2> QED BY <1>5
<1>7. \A c \in {new[k] : k \in Len(old) + 1 .. Len(new)} : c.inode \notin Inode
  <2> HIDE DEF old, new
  <2> QED BY <1>5
<1>8. Data' = [Data EXCEPT ![i] = @ \o SubSeq(new, Len(@) + 1, Len(new))]
  BY <1>2, <1>3, <1>5
<1>9. Store!Extend(i)
  BY <1>1, <1>4, <1>6, <1>7, <1>8 DEF Store!Extend, Store!InUse
<1> QED BY <1>9 DEF Refines, Store!StoreNext

-----------------------------------------------------------------------------
(* What the commands do to what the inodes hold.                           *)

HoldSame(im, bm, im2, bm2) == \A j \in Inode : Holds(im2, bm2, j) = Holds(im, bm, j)

(* Sizes and parents do not matter.                                        *)
LEMMA HoldsFrame ==
  ASSUME NEW im, NEW im2, NEW bm,
         \A j \in Inode : im2[j].type = im[j].type /\ im2[j].root_block = im[j].root_block
  PROVE  HoldSame(im, bm, im2, bm)
BY DEF HoldSame, Holds, Alive

LEMMA HoldsType ==
  ASSUME NEW im, NEW bm, WellLinked(im, bm), NEW i \in Inode
  PROVE  Holds(im, bm, i) \in Seq(Cell)
<1>1. CASE Alive(im, i)
  <2>1. BlockTable(bm) /\ Ends(bm, im[i].root_block)
    BY <1>1, ChainEnds DEF WellLinked
  <2> QED BY <1>1, <2>1, ContentsType DEF Holds
<1>2. CASE ~ Alive(im, i)
  <2>1. << >> \in Seq(Cell)
    OBVIOUS
  <2> QED BY <1>2, <2>1 DEF Holds
<1> QED BY <1>1, <1>2

(* A new inode holds nothing, and takes nothing from the others.           *)
LEMMA MadeHolds ==
  ASSUME NEW im, NEW bm, WellLinked(im, bm), NEW im2, NEW bm2, WellLinked(im2, bm2),
         NEW i \in Inode, ~ Alive(im, i), NEW b \in Block, ~ InUse(bm, b),
         im2[i].root_block = b, \A j \in Inode \ {i} : im2[j] = im[j],
         bm2[b] = NewBlockRec, \A c \in Block \ {b} : bm2[c] = bm[c]
  PROVE  HoldSame(im, bm, im2, bm2)
<1>1. Links(bm) /\ Links(bm2)
  BY TablesHaveLinks DEF WellLinked
<1>2. Holds(im2, bm2, i) = Holds(im, bm, i)
  <2>1. bm2[b].next_block = None /\ bm2[b].cells = << >>
    BY DEF NewBlockRec
  <2>2. Alive(im2, i) => Contents(bm2, b) = << >>
    BY <2>1, ChainEnds, ContentsStep
  <2> QED BY <2>2 DEF Holds
<1>3. ASSUME NEW j \in Inode \ {i}
      PROVE  Holds(im2, bm2, j) = Holds(im, bm, j)
  <2>1. im2[j] = im[j] /\ (Alive(im2, j) <=> Alive(im, j))
    BY DEF Alive
  <2>2. CASE Alive(im, j)
    <3> DEFINE r == im[j].root_block
    <3>1. Ends(bm, r)
      BY <2>2, ChainEnds
    <3>2. \A x \in Walk(bm, r, 0) : bm2[x] = bm[x]
      BY <2>2, WalkInUse
    <3> HIDE DEF r
    <3>3. Contents(bm2, r) = Contents(bm, r)
      BY <1>1, <3>1, <3>2, ContentsFrame
    <3> QED BY <2>1, <3>3 DEF Holds, r
  <2>3. CASE ~ Alive(im, j)
    BY <2>1, <2>3 DEF Holds
  <2> QED BY <2>2, <2>3
<1> QED BY <1>2, <1>3 DEF HoldSame

(* An append adds the data to one inode, and leaves the others alone.      *)
HoldsMore(im, bm, bm2, i, data) ==
  /\ Holds(im, bm2, i) = Holds(im, bm, i) \o data
  /\ \A j \in Inode \ {i} : Holds(im, bm2, j) = Holds(im, bm, j)

LEMMA AppendedHolds ==
  ASSUME NEW im, NEW bm, NEW i, NEW last, NEW data, NEW used, NEW n, NEW nb, NEW bm2,
         Appending(im, bm, i, last, data, used, n, nb, bm2),
         n = BlocksNeeded(bm, last, Len(data)), WellLinked(im, bm2)
  PROVE  HoldsMore(im, bm, bm2, i, data)
<1> DEFINE b == im[i].root_block
<1>0. /\ WellLinked(im, bm) /\ \A c \in Block : Len(bm[c].cells) <= BlockCells
      /\ i \in Inode /\ Alive(im, i) /\ last \in LastBlocks(bm, b)
      /\ data \in Seq(Cell) /\ n \in Nat /\ nb \in NewBlocks(bm, used, n)
      /\ bm2 = Appended(bm, last, data, nb)
  BY DEF Appending
<1>1. /\ BlockTable(bm) /\ Links(bm2) /\ Ends(bm, b) /\ Ends(bm2, b)
      /\ \A y \in Walk(bm, b, 0) : y \in Block /\ InUse(bm, y)
  BY <1>0, ChainEnds, WalkInUse, TablesHaveLinks DEF WellLinked
<1>2. last \in Block /\ InUse(bm, last)
  BY <1>1 DEF LastBlocks, Appending
<1>3. Fresh(bm, n, nb)
  BY <1>0, NewBlocksAreFree
<1>4. Room(bm, last) \in Nat /\ Len(data) \in Nat
  <2>1. Len(bm[last].cells) \in Nat /\ Len(bm[last].cells) <= BlockCells
    BY <1>0, <1>1, <1>2, LenProperties DEF BlockTable
  <2> QED BY <2>1, <1>0, LenProperties, SizesAssumption DEF Room
<1>5. Len(data) <= Upto(bm, last, n)
  <2>1. Upto(bm, last, n) >= Len(data)
    BY <1>4, BlocksSuffice
  <2>2. Upto(bm, last, n) \in Int
    <3>1. BlockCells \in Int /\ n \in Int
      BY <1>0, SizesAssumption
    <3> QED BY <3>1, <1>4 DEF Upto
  <2> QED BY <2>1, <2>2, <1>4
<1>6. BlockByBlock(bm, last, data, n, nb, bm2)
  BY <1>0, <1>1, <1>2, <1>3, AppendedAt
<1>7. AppendedTo(bm, b, last, data, n, nb, bm2)
  BY <1>0, <1>1, <1>3, <1>4, <1>5, <1>6 DEF AppendedTo
<1>8. Holds(im, bm2, i) = Holds(im, bm, i) \o data
  <2>1. Contents(bm2, b) = Contents(bm, b) \o data
    BY <1>7, AppendExtends
  <2> QED BY <2>1, <1>0 DEF Holds
<1>9. ASSUME NEW j \in Inode \ {i}
      PROVE  Holds(im, bm2, j) = Holds(im, bm, j)
  <2>1. CASE Alive(im, j)
    <3> DEFINE r == im[j].root_block
    <3>1. \A x \in Walk(bm, r, 0) : bm2[x] = bm[x]
      BY <2>1, AppendSpares
    <3>2. Ends(bm, r)
      BY <1>0, <2>1, ChainEnds
    <3> HIDE DEF r
    <3>3. Contents(bm2, r) = Contents(bm, r)
      BY <1>1, <3>1, <3>2, ContentsFrame
    <3> QED BY <3>3 DEF Holds, r
  <2>2. CASE ~ Alive(im, j)
    BY <2>2 DEF Holds
  <2> QED BY <2>1, <2>2
<1> QED BY <1>8, <1>9 DEF HoldsMore

-----------------------------------------------------------------------------
(* The commands refine InodeStore.                                         *)

(* A command that dies with bodies bm on the disk.                         *)
LEMMA DieRefines ==
  ASSUME IInv, NEW bm, Fainter(block_map, bm), Die(bm)
  PROVE  Refines
<1>1. inode_map' = inode_map /\ block_map' = bm
  BY DEF Die
<1>2. WellLinked(inode_map, block_map)
  BY DEF IInv, Consistent
<1>3. ASSUME NEW i \in Inode
      PROVE  Store!ClearedFrom(Holds(inode_map, block_map, i), Holds(inode_map', block_map', i))
  <2>1. CASE Alive(inode_map, i)
    <3>1. Store!ClearedFrom(Contents(block_map, inode_map[i].root_block),
                            Contents(bm, inode_map[i].root_block))
      BY <1>2, <2>1, ChainEnds, ContentsFaint
    <3> QED BY <3>1, <2>1, <1>1 DEF Holds
  <2>2. CASE ~ Alive(inode_map, i)
    <3>1. Store!ClearedFrom(<< >>, << >>)
      BY ClearedNot
    <3> QED BY <3>1, <2>2, <1>1 DEF Holds
  <2> QED BY <2>1, <2>2
<1> DEFINE D == {}
<1>4. /\ D \in SUBSET Inode /\ D = {}
      /\ \A i \in Inode : inode_map'[i].type = IF i \in D THEN EMPTY ELSE inode_map[i].type
  BY <1>1
<1> HIDE DEF D
<1> QED BY <1>3, <1>4, DropRefines

LEMMA DieAtOnceRefines ==
  ASSUME Die(block_map)
  PROVE  Refines
BY TablesUnchanged DEF Die

(* rm and rmdir, once they have cleared bodies to bm.                      *)
LEMMA FreeRefines ==
  ASSUME IInv, IInv', NEW i \in Inode, i # 0, Alive(inode_map, i),
         NEW bm, Fainter(block_map, bm), FreeInode(i, bm)
  PROVE  Refines
<1> DEFINE freed == FreedChain(i)
<1>1. WellLinked(inode_map, block_map) /\ BlockTable(bm) /\ Links(bm) /\ Links(block_map')
  BY TablesHaveLinks DEF IInv, Consistent, Fainter, WellLinked
<1>2. freed = Walk(block_map, inode_map[i].root_block, 0)
  BY <1>1, FreedIsWalk DEF FreedChain
<1>3. /\ block_map' = [b \in Block |-> IF b \in freed THEN FreeBlockRec ELSE bm[b]]
      /\ inode_map' = [inode_map EXCEPT ![i] = FreeInodeRec]
  BY DEF FreeInode, Released
<1> HIDE DEF freed
<1>4. /\ inode_map'[i].type = EMPTY
      /\ \A j \in Inode \ {i} : inode_map'[j] = inode_map[j]
      /\ \A b \in Block \ freed : block_map'[b] = bm[b]
  BY <1>1, <1>3 DEF WellLinked, InodeTable, FreeInodeRec
<1>5. ASSUME NEW j \in Inode \ {i}
      PROVE  Store!ClearedFrom(Holds(inode_map, block_map, j), Holds(inode_map', block_map', j))
  <2>1. CASE Alive(inode_map, j)
    <3> DEFINE r == inode_map[j].root_block
    <3>1. \A x \in Walk(block_map, r, 0) : x \in Block /\ x \notin freed
      BY <1>1, <1>2, <2>1, WalkInUse, WalksDisjoint
    <3>2. Ends(block_map, r)
      BY <1>1, <2>1, ChainEnds
    <3> HIDE DEF r
    <3>3. Store!ClearedFrom(Contents(block_map, r), Contents(bm, r))
      BY <3>2, ContentsFaint
    <3>4. Ends(bm, r) /\ Walk(bm, r, 0) = Walk(block_map, r, 0)
      <4>1. \A x \in Walk(block_map, r, 0) : bm[x].next_block = block_map[x].next_block
        BY <3>1 DEF Fainter
      <4> QED BY <4>1, <1>1, <3>2, EndsFrame
    <3>5. \A x \in Walk(bm, r, 0) : block_map'[x] = bm[x]
      BY <1>4, <3>1, <3>4
    <3>6. Contents(block_map', r) = Contents(bm, r)
      BY <1>1, <3>4, <3>5, ContentsFrame
    <3> QED BY <3>3, <3>6, <1>4, <2>1 DEF Holds, Alive, r
  <2>2. CASE ~ Alive(inode_map, j)
    <3>1. Store!ClearedFrom(<< >>, << >>)
      BY ClearedNot
    <3> QED BY <3>1, <2>2, <1>4 DEF Holds, Alive
  <2> QED BY <2>1, <2>2
<1> DEFINE D == {i}
<1>6. /\ D \in SUBSET Inode /\ \E j \in Inode : D = {j}
      /\ \A j \in D : Alive(inode_map, j)
      /\ \A j \in Inode : inode_map'[j].type = IF j \in D THEN EMPTY ELSE inode_map[j].type
  BY <1>4
<1>7. \A j \in Inode \ D :
        Store!ClearedFrom(Holds(inode_map, block_map, j), Holds(inode_map', block_map', j))
  BY <1>5
<1> HIDE DEF D
<1> QED BY <1>6, <1>7, DropRefines

LEMMA MatchesClearedFaints ==
  ASSUME IInv, NEW name, NEW type
  PROVE  Fainter(block_map, MatchesCleared(name, type))
BY ClearUsedFaints DEF IInv, Consistent, WellLinked, MatchesCleared

LEMMA RmdirRefines ==
  ASSUME IInv, IInv', NEW name \in Names, Rmdir(name)
  PROVE  Refines
<1> DEFINE bm == MatchesCleared(name, DIR)
<1>1. Fainter(block_map, bm)
  BY MatchesClearedFaints
<1> HIDE DEF bm
<1>2. CASE ReadDirDies
  BY <1>2, DieAtOnceRefines DEF ReadDirDies
<1>3. CASE Die(bm)
  BY <1>1, <1>3, DieRefines
<1>4. CASE Say("not found")
  BY <1>4, TablesUnchanged DEF Say, tables
<1>5. ASSUME NEW s \in Latest(Matches(name, DIR)), FreeInode(EntryAt(s).inode, bm)
      PROVE  Refines
  <2>1. s \in Matches(name, DIR)
    BY DEF Latest
  <2>2. /\ EntryAt(s).inode \in Inode /\ EntryAt(s).inode # 0
        /\ Alive(inode_map, EntryAt(s).inode)
    BY <2>1, FoundInode
  <2> QED BY <1>1, <1>5, <2>2, FreeRefines
<1> QED BY <1>2, <1>3, <1>4, <1>5 DEF Rmdir, bm

LEMMA RmRefines ==
  ASSUME IInv, IInv', NEW name \in Names, Rm(name)
  PROVE  Refines
<1> DEFINE bm == MatchesCleared(name, FILE)
<1>1. Fainter(block_map, bm) /\ \A b \in Block : Len(bm[b].cells) <= BlockCells
  BY MatchesClearedFaints, MatchesClearedConsistent DEF Consistent
<1> HIDE DEF bm
<1>2. CASE ReadDirDies
  BY <1>2, DieAtOnceRefines DEF ReadDirDies
<1>3. CASE Die(bm)
  BY <1>1, <1>3, DieRefines
<1>4. CASE Say("not found")
  BY <1>4, TablesUnchanged DEF Say, tables
<1>5. ASSUME NEW s \in Latest(Matches(name, FILE)), NEW numbers,
             FreeInode(EntryAt(s).inode, ClearUsed(bm, numbers))
      PROVE  Refines
  <2>1. s \in Matches(name, FILE)
    BY DEF Latest
  <2>2. /\ EntryAt(s).inode \in Inode /\ EntryAt(s).inode # 0
        /\ Alive(inode_map, EntryAt(s).inode)
    BY <2>1, FoundInode
  <2>3. BlockTable(bm)
    BY <1>1 DEF Fainter
  <2>4. Fainter(bm, ClearUsed(bm, numbers))
    BY <1>1, <2>3, ClearUsedFaints
  <2>5. Fainter(block_map, ClearUsed(bm, numbers))
    BY <1>1, <2>4, FaintsTwice
  <2> QED BY <1>5, <2>2, <2>5, FreeRefines
<1> QED BY <1>2, <1>3, <1>4, <1>5 DEF Rm, bm

(* What the user types has no inode number.                                *)
LEMMA InputsAreText ==
  ASSUME NEW data \in Inputs
  PROVE  \A k \in 1 .. Len(data) : data[k].inode \notin Inode
<1>1. PICK n \in InputLengths, t \in Texts : data = [c \in 1 .. n |-> Text(t)]
  BY DEF Inputs
<1>2. n \in Nat
  BY InputAssumption
<1>3. Len(data) = n
  BY <1>1, <1>2
<1>4. \A k \in 1 .. n : data[k] = Text(t)
  BY <1>1
<1>5. Text(t).inode \notin Inode
  BY SizesAssumption DEF Text, None, Inode
<1> QED BY <1>3, <1>4, <1>5

LEMMA WriteToRefines ==
  ASSUME IInv, IInv', NEW i \in Inode, Alive(inode_map, i),
         NEW data \in Inputs, WriteTo(i, data)
  PROVE  Refines
<1>1. PICK last \in LastBlocks(block_map, inode_map[i].root_block) :
        \/ Die(block_map)
        \/ /\ \E nb \in NewBlocks(block_map, used_block_count,
                                  BlocksNeeded(block_map, last, Len(data))) :
                block_map' = Appended(block_map, last, data, nb)
           /\ \E len \in FreedLengths \cup {Len(data)} :
                inode_map' = [inode_map EXCEPT ![i].size = @ + len]
  BY DEF WriteTo
<1>2. CASE Die(block_map)
  BY <1>2, DieAtOnceRefines
<1>3. CASE /\ \E nb \in NewBlocks(block_map, used_block_count,
                                  BlocksNeeded(block_map, last, Len(data))) :
                block_map' = Appended(block_map, last, data, nb)
           /\ \E len \in FreedLengths \cup {Len(data)} :
                inode_map' = [inode_map EXCEPT ![i].size = @ + len]
  <2> DEFINE n == BlocksNeeded(block_map, last, Len(data))
  <2>1. data \in Seq(Cell) /\ Len(data) \in Nat
    BY InputsAreCells
  <2>2. /\ WellLinked(inode_map, block_map) /\ WellLinked(inode_map', block_map')
        /\ InodeTable(inode_map) /\ BlockTable(block_map) /\ BlockTable(block_map')
        /\ \A b \in Block : Len(block_map[b].cells) <= BlockCells
    BY DEF IInv, Consistent, WellLinked
  <2>3. n \in Nat
    <3>1. inode_map[i].root_block \in Block
      BY <2>2 DEF InodeTable
    <3> QED BY <3>1, <2>1, <2>2, LastBlocksType
  <2>4. PICK nb \in NewBlocks(block_map, used_block_count, n) :
          block_map' = Appended(block_map, last, data, nb)
    BY <1>3
  <2>5. \A j \in Inode : /\ inode_map'[j].type = inode_map[j].type
                         /\ inode_map'[j].root_block = inode_map[j].root_block
    BY <1>3, <2>2 DEF InodeTable
  <2>6. WellLinked(inode_map, block_map')
    BY <2>2, <2>5, ContentsDoNotMatter
  <2>7. Appending(inode_map, block_map, i, last, data, used_block_count, n, nb, block_map')
    BY <2>1, <2>2, <2>3, <2>4 DEF Appending
  <2>8. HoldsMore(inode_map, block_map, block_map', i, data)
    BY <2>6, <2>7, AppendedHolds
  <2>9. HoldSame(inode_map, block_map', inode_map', block_map')
    BY <2>5, HoldsFrame
  <2>10. /\ Holds(inode_map', block_map', i) = Holds(inode_map, block_map, i) \o data
         /\ \A j \in Inode \ {i} :
              Holds(inode_map', block_map', j) = Holds(inode_map, block_map, j)
    BY <2>8, <2>9 DEF HoldsMore, HoldSame
  <2>11. Holds(inode_map, block_map, i) \in Seq(Cell)
    BY <2>2, HoldsType
  <2>12. \A k \in 1 .. Len(data) : data[k].inode \notin Inode
    BY InputsAreText
  <2> QED BY <2>1, <2>5, <2>10, <2>11, <2>12, ExtendRefines
<1> QED BY <1>1, <1>2, <1>3

LEMMA WriteRefines ==
  ASSUME IInv, IInv', NEW name \in Names, NEW data \in Inputs, Write(name, data)
  PROVE  Refines
<1>1. CASE Die(block_map)
  BY <1>1, DieAtOnceRefines
<1>2. CASE Say("not found")
  BY <1>2, TablesUnchanged DEF Say, tables
<1>3. ASSUME NEW s \in Latest(Matches(name, FILE)), WriteTo(EntryAt(s).inode, data)
      PROVE  Refines
  <2>1. s \in Matches(name, FILE)
    BY DEF Latest
  <2>2. EntryAt(s).inode \in Inode /\ Alive(inode_map, EntryAt(s).inode)
    BY <2>1, FoundInode DEF FILE
  <2> QED BY <1>3, <2>2, WriteToRefines
<1> QED BY <1>1, <1>2, <1>3 DEF Write, ReadDirDies

(* One cell more.                                                          *)
LEMMA OneCellMore ==
  ASSUME NEW s \in Seq(Cell), NEW c \in Cell
  PROVE  s \o <<c>> = Append(s, c)
OBVIOUS

LEMMA CreateWithRefines ==
  ASSUME IInv, IInv', InDir, NEW name \in Names, NEW type \in {FILE, DIR},
         NEW parent \in Inode \cup {None},
         NEW i \in Lowest(FreeInodes), NEW b \in Lowest(FreeBlocks(block_map, used_block_count)),
         CreateWith(name, type, parent, i, b)
  PROVE  Refines
<1> DEFINE rec == [type |-> type, root_block |-> b, parent |-> parent, size |-> 0]
           im == [inode_map EXCEPT ![i] = rec]
           bm == [block_map EXCEPT ![b] = NewBlockRec]
           used == used_block_count + 1
           e == Entry(Stored[name], i)
           data == <<e>>
<1>1. /\ i \in Inode /\ ~ Alive(inode_map, i) /\ b \in Block /\ ~ InUse(block_map, b)
      /\ current_dir \in Inode
  BY DEF Lowest, FreeInodes, FreeBlocks, Live, Alive, InUse, EMPTY, USED, InDir
<1>2. /\ Consistent(inode_map, block_map, used_inode_count, used_block_count)
      /\ WellLinked(inode_map, block_map) /\ InodeTable(inode_map) /\ BlockTable(block_map)
      /\ WellLinked(inode_map', block_map') /\ BlockTable(block_map')
  BY DEF IInv, Consistent, WellLinked
<1>3. InodeTable(im)
  BY <1>1, <1>2 DEF InodeTable
<1>4. Consistent(im, bm, used_inode_count + 1, used)
  <2>1. rec.type \in {FILE, DIR} /\ rec.root_block = b
    OBVIOUS
  <2> HIDE DEF rec
  <2> QED BY <2>1, <1>1, <1>2, <1>3, MakeConsistent
<1>5. WellLinked(im, bm) /\ BlockTable(bm) /\ \A c \in Block : Len(bm[c].cells) <= BlockCells
  BY <1>4 DEF Consistent, WellLinked
<1>6. /\ im[i].type = type /\ im[i].root_block = b
      /\ \A j \in Inode \ {i} : im[j] = inode_map[j]
      /\ bm[b] = NewBlockRec /\ \A c \in Block \ {b} : bm[c] = block_map[c]
  BY <1>1, <1>2 DEF InodeTable, BlockTable
<1>7. e \in Cell /\ e.inode = i /\ e.used /\ data \in Seq(Cell) /\ Len(data) = 1
  <2>1. i # 0
    BY <1>1, CountersInRange DEF IInv
  <2>2. Stored[name] \in Names
    BY InputAssumption
  <2>3. e \in Cell
    BY <2>1, <2>2, <1>1 DEF Entry, Cell
  <2> QED BY <2>3 DEF Entry
<1>8. CreateWith(name, type, parent, i, b) =
        \E last \in LastBlocks(bm, im[current_dir].root_block) :
          LET n == BlocksNeeded(bm, last, 1)
          IN  \/ ~ EnoughBlocks(bm, used, n) /\ Die(block_map)
              \/ /\ EnoughBlocks(bm, used, n)
                 /\ \E nb \in NewBlocks(bm, used, n) : block_map' = Appended(bm, last, data, nb)
                 /\ inode_map' = [im EXCEPT ![current_dir].size = @ + 1]
                 /\ used_inode_count' = used_inode_count + 1
                 /\ used_block_count' = used + n
                 /\ reply' = "ok"
                 /\ UNCHANGED current_dir
  BY DEF CreateWith
<1> HIDE DEF im, bm, used, rec, e, data
<1>9. PICK last \in LastBlocks(bm, im[current_dir].root_block) :
        \/ Die(block_map)
        \/ /\ \E nb \in NewBlocks(bm, used, BlocksNeeded(bm, last, 1)) :
                block_map' = Appended(bm, last, data, nb)
           /\ inode_map' = [im EXCEPT ![current_dir].size = @ + 1]
  BY <1>8
<1>10. CASE Die(block_map)
  BY <1>10, DieAtOnceRefines
<1>11. CASE /\ \E nb \in NewBlocks(bm, used, BlocksNeeded(bm, last, 1)) :
                 block_map' = Appended(bm, last, data, nb)
            /\ inode_map' = [im EXCEPT ![current_dir].size = @ + 1]
  <2> DEFINE n == BlocksNeeded(bm, last, Len(data))
  <2>1. PICK nb \in NewBlocks(bm, used, n) : block_map' = Appended(bm, last, data, nb)
    BY <1>7, <1>11
  <2>2. n \in Nat
    <3>1. im[current_dir].root_block \in Block
      BY <1>1, <1>3 DEF InodeTable
    <3> QED BY <3>1, <1>5, <1>7, LastBlocksType
  <2>3. \A j \in Inode : /\ inode_map'[j].type = im[j].type
                         /\ inode_map'[j].root_block = im[j].root_block
    BY <1>1, <1>3, <1>11 DEF InodeTable
  <2>4. PICK d \in Inode : /\ Alive(im, d) /\ im[d].root_block = im[current_dir].root_block
    <3>1. CASE Alive(im, current_dir)
      BY <3>1, <1>1
    <3>2. CASE ~ Alive(im, current_dir)
      <4>1. 0 \in Inode /\ Alive(im, 0) /\ im[0].root_block = 0
        BY <1>5, SizesAssumption DEF WellLinked, Roots, Alive, Inode, DIR, EMPTY
      <4>2. im[current_dir].root_block = 0
        BY <1>1, <1>5, <3>2 DEF WellLinked, Roots
      <4> QED BY <4>1, <4>2
    <3> QED BY <3>1, <3>2
  <2>5. WellLinked(im, block_map')
    BY <1>2, <1>3, <2>3, ContentsDoNotMatter
  <2>6. Appending(im, bm, d, last, data, used, n, nb, block_map')
    BY <1>5, <1>7, <1>9, <2>1, <2>2, <2>4 DEF Appending
  <2>7. HoldsMore(im, bm, block_map', d, data)
    BY <2>5, <2>6, AppendedHolds
  <2>8. HoldSame(im, block_map', inode_map', block_map')
    BY <2>3, HoldsFrame
  <2>9. HoldSame(inode_map, block_map, im, bm)
    BY <1>1, <1>2, <1>5, <1>6, MadeHolds
  <2>10. /\ Holds(inode_map', block_map', d) = Holds(inode_map, block_map, d) \o data
         /\ \A j \in Inode \ {d} :
              Holds(inode_map', block_map', j) = Holds(inode_map, block_map, j)
    BY <2>7, <2>8, <2>9 DEF HoldsMore, HoldSame
  <2>11. Holds(inode_map', block_map', d) = Append(Holds(inode_map, block_map, d), e)
    <3>1. Holds(inode_map, block_map, d) \in Seq(Cell)
      BY <1>2, HoldsType
    <3>2. Holds(inode_map, block_map, d) \o <<e>> = Append(Holds(inode_map, block_map, d), e)
      BY <1>7, <3>1, OneCellMore
    <3> QED BY <2>10, <3>2 DEF data
  <2>12. d = i \/ Alive(inode_map, d)
    BY <1>6, <2>4 DEF Alive
  <2>13. \A j \in Inode : inode_map'[j].type = IF j = i THEN type ELSE inode_map[j].type
    BY <1>1, <1>6, <2>3
  <2> QED BY <1>1, <1>7, <2>10, <2>11, <2>12, <2>13, MakeRefines
<1> QED BY <1>9, <1>10, <1>11

LEMMA CreateRefines ==
  ASSUME IInv, IInv', NEW name \in Names, NEW type \in {FILE, DIR},
         NEW parent, InDir => parent \in Inode \cup {None}, Create(name, type, parent)
  PROVE  Refines
<1>1. CASE Say("too long") \/ Say("no inodes") \/ Say("no blocks")
  BY <1>1, TablesUnchanged DEF Say, tables
<1>2. CASE Die(block_map)
  BY <1>2, DieAtOnceRefines
<1>3. CASE InDir /\ \E i \in Lowest(FreeInodes),
                        b \in Lowest(FreeBlocks(block_map, used_block_count)) :
                     CreateWith(name, type, parent, i, b)
  BY <1>3, CreateWithRefines
<1> QED BY <1>1, <1>2, <1>3 DEF Create

(* Commands that only look.                                                *)
LEMMA CdRefines ==
  ASSUME NEW name, Cd(name)
  PROVE  Refines
<1>1. UNCHANGED <<inode_map, block_map>>
  BY DEF Cd, CdDotDot, CdInto, ReadDirDies, Die, Say, tables
<1> QED BY <1>1, TablesUnchanged

LEMMA ReadRefines ==
  ASSUME NEW name, Read(name)
  PROVE  Refines
<1>1. UNCHANGED <<inode_map, block_map>>
  <2>1. \A i : ReadFrom(i) => UNCHANGED <<inode_map, block_map>>
    BY DEF ReadFrom, Die, Say, tables
  <2> QED BY <2>1 DEF Read, ReadDirDies, Die, Say, tables
<1> QED BY <1>1, TablesUnchanged

LEMMA NextRefines ==
  ASSUME IInv, IInv', [Next]_vars
  PROVE  Refines
<1>1. CASE UNCHANGED vars
  BY <1>1, TablesUnchanged DEF vars
<1>2. CASE Open \/ Exit \/ EndOfInput \/ Usage \/ Help \/ Ls
  <2>1. UNCHANGED <<inode_map, block_map>>
    BY <1>2 DEF Open, Exit, EndOfInput, Usage, Help, Ls, ReadDirDies, Die, Say, tables
  <2> QED BY <2>1, TablesUnchanged
<1>3. ASSUME NEW name \in Names \cup {Dot, DotDot}, Cd(name) PROVE Refines
  BY <1>3, CdRefines
<1>4. ASSUME NEW name \in Names, Mkdir(name) PROVE Refines
  <2>1. InDir => current_dir \in Inode \cup {None}
    BY DEF InDir
  <2> QED BY <1>4, <2>1, CreateRefines DEF Mkdir
<1>5. ASSUME NEW name \in Names, Touch(name) PROVE Refines
  BY <1>5, CreateRefines DEF Touch
<1>6. ASSUME NEW name \in Names, Rmdir(name) PROVE Refines
  BY <1>6, RmdirRefines
<1>7. ASSUME NEW name \in Names, Rm(name) PROVE Refines
  BY <1>7, RmRefines
<1>8. ASSUME NEW name \in Names, Read(name) PROVE Refines
  BY <1>8, ReadRefines
<1>9. ASSUME NEW name \in Names, NEW data \in Inputs, Write(name, data) PROVE Refines
  BY <1>9, WriteRefines
<1> QED BY <1>1, <1>2, <1>3, <1>4, <1>5, <1>6, <1>7, <1>8, <1>9 DEF Next

LEMMA InitRefines ==
  ASSUME Init
  PROVE  Store!StoreInit
<1>1. WellLinked(inode_map, block_map)
  BY InitIInv DEF IInv, Consistent
<1>2. /\ 0 \in Inode /\ 0 \in Block
      /\ inode_map[0].type = DIR /\ inode_map[0].root_block = 0
      /\ \A i \in Inode \ {0} : inode_map[i].type = EMPTY
      /\ block_map[0].next_block = None /\ block_map[0].cells = << >>
  BY SizesAssumption DEF Init, Inode, Block, FreeInodeRec, NewBlockRec
<1>3. Contents(block_map, inode_map[0].root_block) = << >>
  <2>1. Ends(block_map, inode_map[0].root_block)
    BY <1>1, <1>2, ChainEnds DEF Alive, DIR, EMPTY
  <2> QED BY <1>2, <2>1, ContentsStep
<1>4. [i \in Inode |-> inode_map[i].type] = [i \in Inode |-> IF i = 0 THEN DIR ELSE EMPTY]
  BY <1>2
<1>5. [i \in Inode |-> IF Live(i) THEN Contents(block_map, inode_map[i].root_block) ELSE << >>]
        = [i \in Inode |-> << >>]
  BY <1>2, <1>3 DEF Live
<1> QED BY <1>2, <1>4, <1>5 DEF Store!StoreInit

(* Whatever a user types and wherever a command dies: every inode holds    *)
(* its own sequence of cells, which only grows at its end until rm or      *)
(* rmdir drop it, and in which nothing changes but the byte `used'.  This  *)
(* is what minifs_append_data, the loops that free a chain and the free    *)
(* lists of fs.c promise to the commands of execute.c, for tables and      *)
(* blocks of any size.                                                     *)
THEOREM StoreImplemented == Spec => ImplementsInodeStore
<1>1. Init => Store!StoreInit
  BY InitRefines
<1>2. IInv /\ IInv' /\ [Next]_vars => [Store!StoreNext]_(Store!svars)
  BY NextRefines DEF Refines
<1> QED BY <1>1, <1>2, Invariance, PTL DEF Spec, ImplementsInodeStore, Store!StoreSpec
=============================================================================
