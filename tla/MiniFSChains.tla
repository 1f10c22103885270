---------------------------- MODULE MiniFSChains ----------------------------
(***************************************************************************)
(* Lemmas about the chains of MiniFS: what the loops over next_block       *)
(* visit, when two chains have no block in common, that making a chain,    *)
(* appending to one and freeing one keep all chains well linked, and       *)
(* where the append of a directory entry puts it; and what they do to the  *)
(* numbers of inodes and blocks in use.                                    *)
(* The lemmas are about any tables im and bm, not about the variables, so  *)
(* that an action which changes the tables twice can use two of them.      *)
(***************************************************************************)
EXTENDS MiniFS, FiniteSetTheorems, SequenceTheorems, TLAPS

(* A nonempty set of positions in a sequence of length n has a least one:  *)
(* among the finite sets 1 .. k, inclusion is well-founded.                *)
LEMMA LeastPosition ==
  ASSUME NEW n \in Nat, NEW K \in SUBSET (1 .. n), K # {}
  PROVE  \E m \in K : \A k \in K : m <= k
<1> DEFINE Initial == {1 .. k : k \in K}
<1>1. IsFiniteSet(1 .. n)
  BY FS_Interval
<1>2. IsWellFoundedOn(StrictSubsetOrdering(1 .. n), FiniteSubsetsOf(1 .. n))
  BY <1>1, FS_StrictSubsetOrderingWellFounded
<1>3. Initial # {} /\ Initial \subseteq FiniteSubsetsOf(1 .. n)
  <2>1. Initial # {}
    OBVIOUS
  <2>3. \A I \in Initial : I \subseteq 1 .. n
    OBVIOUS
  <2>2. FiniteSubsetsOf(1 .. n) = SUBSET (1 .. n)
    BY <1>1, FS_FiniteSubsetsOfFinite
  <2> QED BY <2>1, <2>2, <2>3
<1>4. PICK I \in Initial : \A J \in Initial : <<J, I>> \notin StrictSubsetOrdering(1 .. n)
  <2> HIDE DEF Initial
  <2> QED BY <1>2, <1>3, WFMin
<1>5. PICK m \in K : I = 1 .. m
  OBVIOUS
<1>6. \A k \in K : m <= k
  <2> SUFFICES ASSUME NEW k \in K, k < m PROVE FALSE
    OBVIOUS
  <2>1. <<1 .. k, 1 .. m>> \in StrictSubsetOrdering(1 .. n)
    <3>1. 1 .. k \subseteq 1 .. m /\ 1 .. k # 1 .. m /\ 1 .. m \subseteq 1 .. n
      OBVIOUS
    <3> QED BY <3>1 DEF StrictSubsetOrdering
  <2> QED BY <1>4, <1>5, <2>1
<1> QED BY <1>6

-----------------------------------------------------------------------------
(* Walking a chain.                                                        *)

Links(bm) == \A x \in Block : bm[x].next_block \in Block \cup {None}

(* A walk holds its first block and follows next_block down to `low'.      *)
LEMMA WalkHolds ==
  ASSUME NEW bm, Links(bm), NEW low \in {0, 1}, NEW b \in Block, b >= low
  PROVE  /\ b \in Walk(bm, b, low)
         /\ \A x \in Walk(bm, b, low) :
              bm[x].next_block >= low => bm[x].next_block \in Walk(bm, b, low)
<1>1. \A S \in Closed(bm, b, low) : b \in S
  BY DEF Closed
<1>2. ASSUME NEW x \in Walk(bm, b, low), bm[x].next_block >= low
      PROVE  bm[x].next_block \in Walk(bm, b, low)
  <2>1. x \in Block /\ \A S \in Closed(bm, b, low) : x \in S
    BY DEF Walk
  <2>2. bm[x].next_block \in Block
    BY <1>2, <2>1, SizesAssumption DEF Links, None, Block
  <2>3. \A S \in Closed(bm, b, low) : bm[x].next_block \in S
    BY <1>2, <2>1 DEF Closed
  <2> QED BY <2>2, <2>3 DEF Walk
<1> QED BY <1>1, <1>2 DEF Walk

(* Every set of blocks that does so includes the walk: how to show that    *)
(* something stays out of it.                                              *)
LEMMA WalkLeast ==
  ASSUME NEW bm, NEW b, NEW low, NEW S \in SUBSET Block,
         b >= low => b \in S,
         \A y \in S : bm[y].next_block >= low => bm[y].next_block \in S
  PROVE  Walk(bm, b, low) \subseteq S
BY DEF Walk, Closed

(* A walk never leaves the block table.                                    *)
LEMMA WalkInBlocks ==
  ASSUME NEW bm, NEW b, NEW low
  PROVE  Walk(bm, b, low) \subseteq Block
BY DEF Walk

(* A block of the walk other than the first is next_block of one.          *)
LEMMA WalkEnters ==
  ASSUME NEW bm, Links(bm), NEW b \in Block, NEW x \in Walk(bm, b, 0), x # b
  PROVE  \E p \in Walk(bm, b, 0) : bm[p].next_block = x
<1> SUFFICES ASSUME \A p \in Walk(bm, b, 0) : bm[p].next_block # x
             PROVE  FALSE
  OBVIOUS
<1> DEFINE S == Walk(bm, b, 0) \ {x}
<1>1. b >= 0
  BY SizesAssumption DEF Block
<1>2. b \in S
  BY <1>1, WalkHolds
<1>3. S \in SUBSET Block
  BY WalkInBlocks
<1>4. \A y \in S : bm[y].next_block >= 0 => bm[y].next_block \in S
  BY <1>1, WalkHolds
<1>5. Walk(bm, b, 0) \subseteq S
  <2> HIDE DEF S
  <2> QED BY <1>2, <1>3, <1>4, WalkLeast
<1> QED BY <1>5

(* The walk depends on the links of its own blocks only.                   *)
LEMMA WalkFrame ==
  ASSUME NEW bm, Links(bm), NEW bm2, Links(bm2), NEW b \in Block,
         \A x \in Walk(bm, b, 0) : bm2[x].next_block = bm[x].next_block
  PROVE  Walk(bm2, b, 0) = Walk(bm, b, 0)
<1>1. b >= 0
  BY SizesAssumption DEF Block
<1>2. Walk(bm2, b, 0) \subseteq Walk(bm, b, 0)
  <2>1. \A y \in Walk(bm, b, 0) :
          bm2[y].next_block >= 0 => bm2[y].next_block \in Walk(bm, b, 0)
    BY <1>1, WalkHolds
  <2> QED BY <1>1, <2>1, WalkHolds, WalkLeast, WalkInBlocks
<1>3. Walk(bm, b, 0) \subseteq Walk(bm2, b, 0)
  <2>1. \A y \in Walk(bm2, b, 0) :
          bm[y].next_block >= 0 => bm[y].next_block \in Walk(bm2, b, 0)
    BY <1>1, <1>2, WalkHolds
  <2> QED BY <1>1, <2>1, WalkHolds, WalkLeast, WalkInBlocks
<1> QED BY <1>2, <1>3

(* Links that are only added, at the ends of chains, make walks longer.    *)
LEMMA WalkGrows ==
  ASSUME NEW bm, NEW bm2, Links(bm2), NEW U \in SUBSET Block, NEW b \in U,
         \A y \in U : bm[y].next_block >= 0 =>
           bm[y].next_block \in U /\ bm2[y].next_block = bm[y].next_block
  PROVE  Walk(bm, b, 0) \subseteq Walk(bm2, b, 0)
<1> DEFINE S == Walk(bm2, b, 0) \cap U
<1>1. b >= 0
  BY SizesAssumption DEF Block
<1>2. b \in S
  BY <1>1, WalkHolds
<1>3. \A y \in S : bm[y].next_block >= 0 => bm[y].next_block \in S
  BY <1>1, WalkHolds
<1>4. S \in SUBSET Block
  OBVIOUS
<1>5. Walk(bm, b, 0) \subseteq S
  <2> HIDE DEF S
  <2> QED BY <1>2, <1>3, <1>4, WalkLeast
<1> QED BY <1>5

-----------------------------------------------------------------------------
(* The inductive invariant, as conditions on any inode table im and block  *)
(* table bm: a command passes through tables that are not its last.        *)

Alive(im, i) == im[i].type # EMPTY
InUse(bm, b) == bm[b].type = USED

LiveInodes(im) == {i \in Inode : Alive(im, i)}
UsedBlocks(bm) == {b \in Block : InUse(bm, b)}
Taken(nb, n)   == {nb[k] : k \in 1 .. n}
Takes(bm, bm2, nb, n) == UsedBlocks(bm2) = UsedBlocks(bm) \cup Taken(nb, n)

InodeTable(im) ==
  im \in [Inode -> [type : {EMPTY, FILE, DIR}, root_block : Block,
                    parent : Inode \cup {None}, size : Nat]]

BlockTable(bm) ==
  bm \in [Block -> [type : {EMPTY, USED}, next_block : Block \cup {None},
                    cells : Seq(Cell)]]

(* Where chains start: the root at block 0, every live inode at a block of *)
(* its own, and a dead one points to block 0.                              *)
Roots(im, bm) ==
  /\ im[0].type = DIR /\ im[0].root_block = 0
  /\ \A i \in Inode : IF Alive(im, i) THEN InUse(bm, im[i].root_block)
                                      ELSE im[i].root_block = 0
  /\ \A i, j \in Inode : Alive(im, i) /\ Alive(im, j) /\ i # j =>
       im[i].root_block # im[j].root_block

(* How they go on: no two used blocks have the same successor, and the     *)
(* first block of a chain is none.  Block 0 is no successor, or the loops  *)
(* `while (current_block > 0)' that free a chain would stop before it.     *)
Successors(im, bm) ==
  /\ \A b \in Block : InUse(bm, b) =>
       \/ bm[b].next_block = None
       \/ bm[b].next_block # 0 /\ InUse(bm, bm[b].next_block)
  /\ \A b, c \in Block :
       InUse(bm, b) /\ InUse(bm, c) /\ b # c /\ bm[b].next_block # None =>
         bm[b].next_block # bm[c].next_block
  /\ \A i \in Inode, b \in Block : Alive(im, i) /\ InUse(bm, b) =>
       bm[b].next_block # im[i].root_block

(* Which blocks they hold: all that are used; and that they end.           *)
Covered(im, bm) ==
  /\ \A b \in Block : InUse(bm, b) =>
       \E i \in Inode : Alive(im, i) /\ b \in Walk(bm, im[i].root_block, 0)
  /\ \A i \in Inode : Alive(im, i) =>
       \E x \in Walk(bm, im[i].root_block, 0) : bm[x].next_block = None

WellLinked(im, bm) ==
  /\ InodeTable(im) /\ BlockTable(bm)
  /\ Roots(im, bm) /\ Successors(im, bm) /\ Covered(im, bm)

(* The type of the block table is all that the lemmas on walks ask of it.  *)
LEMMA TablesHaveLinks ==
  ASSUME NEW bm, BlockTable(bm)
  PROVE  Links(bm)
BY DEF BlockTable, Links

(* The walk of a live inode stays in used blocks.                          *)
LEMMA WalkInUse ==
  ASSUME NEW im, NEW bm, WellLinked(im, bm), NEW i \in Inode, Alive(im, i)
  PROVE  \A x \in Walk(bm, im[i].root_block, 0) : x \in Block /\ InUse(bm, x)
<1> DEFINE U == {x \in Block : InUse(bm, x)}
<1>1. im[i].root_block \in U
  BY DEF WellLinked, Roots, InodeTable
<1>2. \A y \in U : bm[y].next_block >= 0 => bm[y].next_block \in U
  <2> SUFFICES ASSUME NEW y \in U, bm[y].next_block >= 0 PROVE bm[y].next_block \in U
    OBVIOUS
  <2>1. bm[y].next_block \in Block
    BY TablesHaveLinks, SizesAssumption DEF WellLinked, Links, Block, None
  <2> QED BY <2>1 DEF WellLinked, Successors, None
<1>3. Walk(bm, im[i].root_block, 0) \subseteq U
  <2>1. U \in SUBSET Block
    OBVIOUS
  <2> HIDE DEF U
  <2> QED BY <1>1, <1>2, <2>1, WalkLeast
<1> QED BY <1>3

(* The walks of two live inodes have no block in common.                   *)
LEMMA WalksDisjoint ==
  ASSUME NEW im, NEW bm, WellLinked(im, bm),
         NEW i \in Inode, NEW j \in Inode, Alive(im, i), Alive(im, j), i # j
  PROVE  Walk(bm, im[i].root_block, 0) \cap Walk(bm, im[j].root_block, 0) = {}
<1> DEFINE b == im[i].root_block
           c == im[j].root_block
           S == Walk(bm, b, 0) \ Walk(bm, c, 0)
<1>1. Links(bm) /\ b \in Block /\ c \in Block /\ b >= 0 /\ c >= 0
  BY TablesHaveLinks, SizesAssumption DEF WellLinked, InodeTable, Block
<1>2. /\ \A x \in Walk(bm, b, 0) : x \in Block /\ InUse(bm, x)
      /\ \A x \in Walk(bm, c, 0) : x \in Block /\ InUse(bm, x)
  BY WalkInUse
<1>3. b \in S
  <2>1. b # c
    BY DEF WellLinked, Roots
  <2>2. \A p \in Walk(bm, c, 0) : bm[p].next_block # b
    BY <1>2 DEF WellLinked, Successors
  <2>3. b \notin Walk(bm, c, 0)
    BY <1>1, <2>1, <2>2, WalkEnters
  <2> QED BY <1>1, <2>3, WalkHolds
<1>4. ASSUME NEW y \in S, bm[y].next_block >= 0
      PROVE  bm[y].next_block \in S
  <2> DEFINE z == bm[y].next_block
  <2>1. z \in Walk(bm, b, 0)
    BY <1>1, <1>4, WalkHolds
  <2>2. SUFFICES ASSUME z \in Walk(bm, c, 0) PROVE FALSE
    BY <2>1
  <2>3. z # c
    BY <1>2 DEF WellLinked, Successors
  <2>4. PICK p \in Walk(bm, c, 0) : bm[p].next_block = z
    BY <1>1, <2>2, <2>3, WalkEnters
  <2>5. p = y
    BY <1>2, <1>4, <2>4 DEF WellLinked, Successors, None
  <2> QED BY <2>4, <2>5
<1>5. Walk(bm, b, 0) \subseteq S
  <2>1. S \in SUBSET Block
    BY <1>2
  <2> HIDE DEF S, b
  <2> QED BY <1>3, <1>4, <2>1, WalkLeast
<1> QED BY <1>5

-----------------------------------------------------------------------------
(* What the commands do to the tables keeps them well linked.              *)

(* Sizes, parents, cells and the byte `used' do not matter.                *)
LEMMA ContentsDoNotMatter ==
  ASSUME NEW im, NEW bm, WellLinked(im, bm),
         NEW im2, InodeTable(im2), NEW bm2, BlockTable(bm2),
         \A i \in Inode : im2[i].type = im[i].type /\ im2[i].root_block = im[i].root_block,
         \A b \in Block : bm2[b].type = bm[b].type /\ bm2[b].next_block = bm[b].next_block
  PROVE  WellLinked(im2, bm2)
<1>1. \A i \in Inode : Walk(bm2, im[i].root_block, 0) = Walk(bm, im[i].root_block, 0)
  <2> TAKE i \in Inode
  <2>1. Links(bm) /\ Links(bm2) /\ im[i].root_block \in Block
    BY TablesHaveLinks DEF WellLinked, InodeTable
  <2> QED BY <2>1, WalkFrame, WalkInBlocks
<1>2. Roots(im2, bm2)
  <2>1. 0 \in Inode
    BY SizesAssumption DEF Inode
  <2>2. \A i \in Inode : im[i].root_block \in Block
    BY DEF WellLinked, InodeTable
  <2> QED BY <2>1, <2>2 DEF WellLinked, Roots, Alive, InUse
<1>3. Successors(im2, bm2)
  <2>1. \A b \in Block : bm[b].next_block # None => bm[b].next_block \in Block
    BY TablesHaveLinks DEF WellLinked, Links
  <2> QED BY <2>1 DEF WellLinked, Successors, Alive, InUse
<1>4. Covered(im2, bm2)
  BY <1>1, WalkInBlocks DEF WellLinked, Covered, Alive, InUse
<1> QED BY <1>2, <1>3, <1>4 DEF WellLinked

(* mkdir and touch: a new chain of one free block.                         *)
LEMMA MakeKeepsLinks ==
  ASSUME NEW im, NEW bm, WellLinked(im, bm),
         NEW i \in Inode, ~ Alive(im, i), NEW b \in Block, ~ InUse(bm, b),
         NEW rec, rec.type \in {FILE, DIR}, rec.root_block = b,
         InodeTable([im EXCEPT ![i] = rec])
  PROVE  WellLinked([im EXCEPT ![i] = rec], [bm EXCEPT ![b] = NewBlockRec])
<1> DEFINE im2 == [im EXCEPT ![i] = rec]
           bm2 == [bm EXCEPT ![b] = NewBlockRec]
<1>1. BlockTable(bm2)
  BY DEF WellLinked, BlockTable, NewBlockRec
<1>2. Links(bm) /\ Links(bm2)
  BY <1>1, TablesHaveLinks DEF WellLinked
<1>3. /\ \A j \in Inode : j # i => im2[j] = im[j]
      /\ im2[i] = rec
      /\ \A c \in Block : c # b => bm2[c] = bm[c]
      /\ bm2[b].type = USED /\ bm2[b].next_block = None
  BY DEF WellLinked, InodeTable, BlockTable, NewBlockRec
<1>4. /\ \A j \in Inode : Alive(im2, j) <=> j = i \/ Alive(im, j)
      /\ \A c \in Block : InUse(bm2, c) <=> c = b \/ InUse(bm, c)
  BY <1>3 DEF Alive, InUse, EMPTY, FILE, DIR, USED
<1>5. \A j \in Inode : im[j].root_block \in Block /\ im2[j].root_block \in Block
  BY <1>3 DEF WellLinked, InodeTable
<1>6. \A j \in Inode : Alive(im, j) => im[j].root_block # b
  BY DEF WellLinked, Roots
<1>7. \A c \in Block : InUse(bm, c) => bm[c].next_block # b
  BY SizesAssumption DEF WellLinked, Successors, None, Block
<1>8. Roots(im2, bm2)
  <2>1. 0 \in Inode /\ 0 # i
    BY SizesAssumption DEF WellLinked, Roots, Alive, Inode, DIR, EMPTY
  <2> HIDE DEF im2, bm2
  <2> QED BY <2>1, <1>3, <1>4, <1>5, <1>6 DEF WellLinked, Roots
<1>9. Successors(im2, bm2)
  <2> HIDE DEF im2, bm2
  <2>1. \A c \in Block : bm[c].next_block # None => bm[c].next_block \in Block
    BY <1>2 DEF Links
  <2>2. Successors(im, bm)
    BY DEF WellLinked
  <2>3. \A c \in Block : InUse(bm2, c) =>
          \/ bm2[c].next_block = None
          \/ bm2[c].next_block # 0 /\ InUse(bm2, bm2[c].next_block)
    BY <2>1, <2>2, <1>3, <1>4 DEF Successors
  <2>4. \A c, d \in Block :
          InUse(bm2, c) /\ InUse(bm2, d) /\ c # d /\ bm2[c].next_block # None =>
            bm2[c].next_block # bm2[d].next_block
    BY <2>2, <1>3, <1>4 DEF Successors
  <2>5. \A j \in Inode, c \in Block : Alive(im2, j) /\ InUse(bm2, c) =>
          bm2[c].next_block # im2[j].root_block
    <3>1. b # None
      BY SizesAssumption DEF Block, None
    <3>2. \A j \in Inode : im[j].root_block # None
      BY <1>5, SizesAssumption DEF Block, None
    <3> QED BY <2>2, <3>1, <3>2, <1>3, <1>4, <1>5, <1>7 DEF Successors
  <2> QED BY <2>3, <2>4, <2>5 DEF Successors
<1>10. \A j \in Inode : Alive(im, j) =>
         Walk(bm2, im2[j].root_block, 0) = Walk(bm, im[j].root_block, 0)
  <2> SUFFICES ASSUME NEW j \in Inode, Alive(im, j)
               PROVE  Walk(bm2, im2[j].root_block, 0) = Walk(bm, im[j].root_block, 0)
    OBVIOUS
  <2>1. im2[j] = im[j]
    BY <1>3
  <2>2. \A x \in Walk(bm, im[j].root_block, 0) : x \in Block /\ x # b
    BY WalkInUse
  <2> HIDE DEF im2, bm2
  <2> QED BY <2>1, <2>2, <1>2, <1>3, <1>5, WalkFrame
<1>11. b \in Walk(bm2, im2[i].root_block, 0)
  <2>1. b >= 0
    BY SizesAssumption DEF Block
  <2> HIDE DEF im2, bm2
  <2> QED BY <2>1, <1>2, <1>3, WalkHolds
<1>12. Covered(im2, bm2)
  <2>1. ASSUME NEW c \in Block, InUse(bm2, c)
        PROVE  \E j \in Inode : Alive(im2, j) /\ c \in Walk(bm2, im2[j].root_block, 0)
    <3> HIDE DEF im2, bm2
    <3>1. CASE c = b
      BY <3>1, <1>4, <1>11
    <3>2. CASE InUse(bm, c)
      <4>1. PICK j \in Inode : Alive(im, j) /\ c \in Walk(bm, im[j].root_block, 0)
        BY <3>2 DEF WellLinked, Covered
      <4> QED BY <4>1, <1>4, <1>10
    <3> QED BY <2>1, <3>1, <3>2, <1>4
  <2>2. ASSUME NEW j \in Inode, Alive(im2, j)
        PROVE  \E x \in Walk(bm2, im2[j].root_block, 0) : bm2[x].next_block = None
    <3> HIDE DEF im2, bm2
    <3>1. CASE j = i
      BY <3>1, <1>3, <1>11
    <3>2. CASE Alive(im, j)
      <4>1. PICK x \in Walk(bm, im[j].root_block, 0) : bm[x].next_block = None
        BY <3>2 DEF WellLinked, Covered
      <4>2. x # b /\ x \in Block
        BY <3>2, WalkInUse
      <4> QED BY <4>1, <4>2, <3>2, <1>3, <1>10
    <3> QED BY <2>2, <3>1, <3>2, <1>4
  <2> QED BY <2>1, <2>2 DEF Covered
<1> QED BY <1>1, <1>8, <1>9, <1>12 DEF WellLinked

(* A loop that stops at block 0 meets what one that does not would, where  *)
(* block 0 is no successor.                                                *)
LEMMA FreeLoop ==
  ASSUME NEW bm, Links(bm), NEW b \in Block, b # 0,
         \A y \in Walk(bm, b, 0) : bm[y].next_block # 0
  PROVE  Walk(bm, b, 1) = Walk(bm, b, 0)
<1>1. Links(bm) /\ b \in Block
  OBVIOUS
<1>2. b >= 0 /\ b >= 1
  BY SizesAssumption DEF Block
<1>3. \A y \in Walk(bm, b, 0) : bm[y].next_block = None \/ bm[y].next_block >= 1
  <2> TAKE y \in Walk(bm, b, 0)
  <2>1. bm[y].next_block \in Block \cup {None} /\ bm[y].next_block # 0
    BY WalkInBlocks DEF Links
  <2> QED BY <2>1, SizesAssumption DEF Block, None
<1>4. Walk(bm, b, 1) \subseteq Walk(bm, b, 0)
  <2>1. b \in Walk(bm, b, 0)
    BY <1>1, <1>2, WalkHolds
  <2>2. \A y \in Walk(bm, b, 0) :
          bm[y].next_block >= 1 => bm[y].next_block \in Walk(bm, b, 0)
    <3> TAKE y \in Walk(bm, b, 0)
    <3> HAVE bm[y].next_block >= 1
    <3>1. bm[y].next_block >= 0
      BY <1>1, <1>3, WalkInBlocks, SizesAssumption DEF Links, Block, None
    <3> QED BY <1>1, <1>2, <3>1, WalkHolds
  <2> QED BY <2>1, <2>2, WalkLeast, WalkInBlocks
<1>5. Walk(bm, b, 0) \subseteq Walk(bm, b, 1)
  <2>1. b \in Walk(bm, b, 1)
    BY <1>1, <1>2, WalkHolds
  <2>2. \A y \in Walk(bm, b, 1) :
          bm[y].next_block >= 0 => bm[y].next_block \in Walk(bm, b, 1)
    <3> TAKE y \in Walk(bm, b, 1)
    <3> HAVE bm[y].next_block >= 0
    <3>1. bm[y].next_block >= 1
      BY <1>3, <1>4 DEF None
    <3> QED BY <1>1, <1>2, <3>1, WalkHolds
  <2> QED BY <2>1, <2>2, WalkLeast, WalkInBlocks
<1> QED BY <1>4, <1>5

(* The loop that frees a chain meets all of it, unless it is the root's.   *)
LEMMA FreedIsWalk ==
  ASSUME NEW im, NEW bm, WellLinked(im, bm), NEW i \in Inode, Alive(im, i), i # 0
  PROVE  /\ im[i].root_block # 0
         /\ \A y \in Walk(bm, im[i].root_block, 0) : bm[y].next_block # 0
         /\ Walk(bm, im[i].root_block, 1) = Walk(bm, im[i].root_block, 0)
<1>1. Links(bm) /\ im[i].root_block \in Block
  BY TablesHaveLinks DEF WellLinked, InodeTable
<1>2. im[i].root_block # 0
  <2>1. 0 \in Inode /\ Alive(im, 0) /\ im[0].root_block = 0
    BY SizesAssumption DEF WellLinked, Roots, Alive, Inode, DIR, EMPTY
  <2> QED BY <2>1 DEF WellLinked, Roots
<1>3. \A y \in Walk(bm, im[i].root_block, 0) : bm[y].next_block # 0
  <2> TAKE y \in Walk(bm, im[i].root_block, 0)
  <2>1. y \in Block /\ InUse(bm, y)
    BY WalkInUse
  <2> QED BY <2>1 DEF WellLinked, Successors, None
<1> QED BY <1>1, <1>2, <1>3, FreeLoop

(* rm and rmdir: the chain of one inode goes.                              *)
LEMMA FreeKeepsLinks ==
  ASSUME NEW im, NEW bm, WellLinked(im, bm), NEW i \in Inode, Alive(im, i), i # 0,
         NEW freed, freed = Walk(bm, im[i].root_block, 0)
  PROVE  WellLinked([im EXCEPT ![i] = FreeInodeRec],
                    [b \in Block |-> IF b \in freed THEN FreeBlockRec ELSE bm[b]])
<1> DEFINE im2 == [im EXCEPT ![i] = FreeInodeRec]
           bm2 == [b \in Block |-> IF b \in freed THEN FreeBlockRec ELSE bm[b]]
<1>0. 0 \in Inode /\ 0 \in Block
  BY SizesAssumption DEF Inode, Block
<1>1. InodeTable(im2) /\ BlockTable(bm2)
  <2>1. FreeInodeRec \in [type : {EMPTY, FILE, DIR}, root_block : Block,
                          parent : Inode \cup {None}, size : Nat]
    BY <1>0 DEF FreeInodeRec
  <2>2. FreeBlockRec \in [type : {EMPTY, USED}, next_block : Block \cup {None},
                          cells : Seq(Cell)]
    BY <1>0 DEF FreeBlockRec
  <2> QED BY <2>1, <2>2 DEF WellLinked, InodeTable, BlockTable
<1>2. Links(bm) /\ Links(bm2)
  BY <1>1, TablesHaveLinks DEF WellLinked
<1>3. /\ \A j \in Inode : j # i => im2[j] = im[j]
      /\ im2[i].type = EMPTY /\ im2[i].root_block = 0
      /\ \A c \in Block : c \notin freed => bm2[c] = bm[c]
      /\ \A c \in Block : c \in freed => bm2[c].type = EMPTY
  BY DEF WellLinked, InodeTable, FreeInodeRec, FreeBlockRec
<1> HIDE DEF im2, bm2
<1>4. /\ \A j \in Inode : Alive(im2, j) <=> j # i /\ Alive(im, j)
      /\ \A c \in Block : InUse(bm2, c) <=> c \notin freed /\ InUse(bm, c)
  BY <1>3 DEF Alive, InUse, EMPTY, USED
<1>5. \A j \in Inode : im[j].root_block \in Block
  BY DEF WellLinked, InodeTable
<1>6. \A j \in Inode : Alive(im2, j) =>
        /\ \A x \in Walk(bm, im[j].root_block, 0) : x \in Block /\ InUse(bm2, x)
        /\ Walk(bm2, im2[j].root_block, 0) = Walk(bm, im[j].root_block, 0)
        /\ im[j].root_block \in Walk(bm, im[j].root_block, 0)
  <2> SUFFICES ASSUME NEW j \in Inode, j # i, Alive(im, j)
               PROVE  /\ \A x \in Walk(bm, im[j].root_block, 0) : x \in Block /\ InUse(bm2, x)
                      /\ Walk(bm2, im2[j].root_block, 0) = Walk(bm, im[j].root_block, 0)
                      /\ im[j].root_block \in Walk(bm, im[j].root_block, 0)
    BY <1>4
  <2>1. \A x \in Walk(bm, im[j].root_block, 0) : x \in Block /\ InUse(bm, x) /\ x \notin freed
    BY WalkInUse, WalksDisjoint
  <2>2. Walk(bm2, im[j].root_block, 0) = Walk(bm, im[j].root_block, 0)
    BY <2>1, <1>2, <1>3, <1>5, WalkFrame
  <2>3. im[j].root_block >= 0
    BY <1>5, SizesAssumption DEF Block
  <2>4. im[j].root_block \in Walk(bm, im[j].root_block, 0)
    BY <2>3, <1>2, <1>5, WalkHolds
  <2> QED BY <2>1, <2>2, <2>4, <1>3, <1>4
<1>7. Roots(im2, bm2)
  <2>1. Roots(im, bm)
    BY DEF WellLinked
  <2>2. \A j \in Inode : Alive(im2, j) => InUse(bm2, im2[j].root_block)
    BY <1>3, <1>4, <1>6
  <2> QED BY <2>1, <2>2, <1>0, <1>3, <1>4 DEF Roots
<1>8. Successors(im2, bm2)
  <2>1. Successors(im, bm)
    BY DEF WellLinked
  <2>2. ASSUME NEW c \in Block, InUse(bm2, c), bm2[c].next_block # None
        PROVE  InUse(bm2, bm2[c].next_block)
    <3>1. PICK j \in Inode : Alive(im, j) /\ c \in Walk(bm, im[j].root_block, 0)
      BY <2>2, <1>4 DEF WellLinked, Covered
    <3>2. j # i
      BY <2>2, <3>1, <1>4
    <3>3. bm[c].next_block \in Walk(bm, im[j].root_block, 0)
      <4>1. bm[c].next_block >= 0 /\ im[j].root_block >= 0
        BY <2>2, <1>2, <1>3, <1>4, <1>5, SizesAssumption DEF Links, Block, None
      <4> QED BY <4>1, <3>1, <1>2, <1>5, WalkHolds
    <3> QED BY <2>2, <3>1, <3>2, <3>3, <1>3, <1>4, <1>6
  <2> QED BY <2>1, <2>2, <1>3, <1>4 DEF Successors
<1>9. Covered(im2, bm2)
  <2>1. Covered(im, bm)
    BY DEF WellLinked
  <2>2. ASSUME NEW c \in Block, InUse(bm2, c)
        PROVE  \E j \in Inode : Alive(im2, j) /\ c \in Walk(bm2, im2[j].root_block, 0)
    <3>1. PICK j \in Inode : Alive(im, j) /\ c \in Walk(bm, im[j].root_block, 0)
      BY <2>1, <2>2, <1>4 DEF Covered
    <3> QED BY <2>2, <3>1, <1>4, <1>6
  <2>3. ASSUME NEW j \in Inode, Alive(im2, j)
        PROVE  \E x \in Walk(bm2, im2[j].root_block, 0) : bm2[x].next_block = None
    <3>1. PICK x \in Walk(bm, im[j].root_block, 0) : bm[x].next_block = None
      BY <2>1, <2>3, <1>4 DEF Covered
    <3> QED BY <2>3, <3>1, <1>3, <1>4, <1>6
  <2> QED BY <2>2, <2>3 DEF Covered
<1> QED BY <1>1, <1>7, <1>8, <1>9 DEF WellLinked, im2, bm2

-----------------------------------------------------------------------------
(* minifs_append_data.                                                     *)

(* A piece of the data is cells, and no more of them than it has room for. *)
LEMMA PieceFits ==
  ASSUME NEW data \in Seq(Cell), NEW from \in Nat \ {0}, NEW to \in Int, to >= from - 1
  PROVE  LET p == SubSeq(data, from, IF to < Len(data) THEN to ELSE Len(data))
         IN  p \in Seq(Cell) /\ Len(p) <= to - from + 1
<1> DEFINE last == IF to < Len(data) THEN to ELSE Len(data)
<1>1. Len(data) \in Nat /\ \A k \in 1 .. Len(data) : data[k] \in Cell
  BY LenProperties, ElementOfSeq
<1>2. last \in Int /\ last <= to /\ \A k \in from .. last : data[k] \in Cell
  BY <1>1
<1> HIDE DEF last
<1>3. /\ SubSeq(data, from, last) \in Seq(Cell)
      /\ Len(SubSeq(data, from, last)) = IF from <= last THEN last - from + 1 ELSE 0
  BY <1>2, SubSeqProperties
<1>4. Len(SubSeq(data, from, last)) <= to - from + 1
  BY <1>2, <1>3
<1> QED BY <1>3, <1>4 DEF last

(* Free blocks of bm, each taken once.                                     *)
Fresh(bm, n, nb) ==
  /\ Len(nb) = n /\ nb \in [1 .. n -> Block]
  /\ \A k \in 1 .. n : nb[k] \in Block /\ bm[nb[k]].type = EMPTY
  /\ \A j, k \in 1 .. n : j # k => nb[j] # nb[k]

(* The new blocks are free ones, each taken once.                          *)
LEMMA NewBlocksAreFree ==
  ASSUME NEW bm, NEW used, NEW n \in Nat, NEW nb \in NewBlocks(bm, used, n)
  PROVE  Fresh(bm, n, nb)
<1>1. /\ nb \in [1 .. n -> FreeBlocks(bm, used)]
      /\ \A j, k \in 1 .. n : j < k => nb[j] < nb[k]
  BY DEF NewBlocks
<1>2. \A k \in 1 .. n : nb[k] \in Block /\ bm[nb[k]].type = EMPTY
  BY <1>1 DEF FreeBlocks
<1>3. nb \in Seq(FreeBlocks(bm, used)) /\ Len(nb) = n
  BY <1>1
<1>4. ASSUME NEW j \in 1 .. n, NEW k \in 1 .. n, j # k PROVE nb[j] # nb[k]
  <2>1. nb[j] \in Int /\ nb[k] \in Int
    BY <1>2, SizesAssumption DEF Block
  <2>2. CASE j < k
    BY <2>1, <2>2, <1>1
  <2>3. CASE k < j
    BY <2>1, <2>3, <1>1
  <2> QED BY <1>4, <2>2, <2>3
<1>5. nb \in [1 .. n -> Block]
  BY <1>1, <1>2
<1> QED BY <1>2, <1>3, <1>4, <1>5 DEF Fresh

(* The part of the data that goes into one block, the room in the block    *)
(* that was the last, and where the k-th new block ends.                   *)
Piece(data, from, to) == SubSeq(data, from, IF to < Len(data) THEN to ELSE Len(data))
Room(bm, last) == BlockCells - Len(bm[last].cells)
Upto(bm, last, k) == Room(bm, last) + k * BlockCells

(* An append block by block.                                               *)
BlockByBlock(bm, last, data, n, nb, bm2) ==
  /\ bm2[last].type = USED
  /\ bm2[last].next_block = IF n = 0 THEN bm[last].next_block ELSE nb[1]
  /\ bm2[last].cells = bm[last].cells \o Piece(data, 1, Room(bm, last))
  /\ bm2[last] = [bm[last] EXCEPT
                    !.cells = @ \o Piece(data, 1, Room(bm, last)),
                    !.next_block = IF n = 0 THEN @ ELSE nb[1]]
  /\ \A k \in 1 .. n :
       bm2[nb[k]] = [type |-> USED,
                     next_block |-> IF k < n THEN nb[k + 1] ELSE None,
                     cells |-> Piece(data, Upto(bm, last, k - 1) + 1, Upto(bm, last, k))]
  /\ \A b \in Block : b # last /\ (\A k \in 1 .. n : nb[k] # b) => bm2[b] = bm[b]
  /\ bm2 = [b \in Block |-> bm2[b]]

(* Each new block gets the piece of the data that follows what is already  *)
(* written, and a link to the next one.                                    *)
LEMMA AppendedAt ==
  ASSUME NEW bm, BlockTable(bm), NEW last \in Block, InUse(bm, last), NEW data,
         NEW n \in Nat, NEW nb, Fresh(bm, n, nb),
         NEW bm2, bm2 = Appended(bm, last, data, nb)
  PROVE  BlockByBlock(bm, last, data, n, nb, bm2)
<1> DEFINE position(b) == CHOOSE j \in 1 .. n : nb[j] = b
           new(b) == \E k \in 1 .. n : nb[k] = b
           first == Piece(data, 1, Room(bm, last))
           piece(k) == Piece(data, Upto(bm, last, k - 1) + 1, Upto(bm, last, k))
<1>1. /\ Len(nb) = n
      /\ \A k \in 1 .. n : nb[k] \in Block /\ bm[nb[k]].type = EMPTY
      /\ \A j, k \in 1 .. n : j # k => nb[j] # nb[k]
  BY DEF Fresh
<1>2. ~ new(last)
  BY <1>1 DEF InUse, EMPTY, USED
<1>3. bm2 = [b \in Block |->
         IF b = last
         THEN [bm[b] EXCEPT
                 !.cells = @ \o first,
                 !.next_block = IF n = 0 THEN @ ELSE nb[1]]
         ELSE IF new(b)
         THEN [type |-> USED,
               next_block |-> IF position(b) < n THEN nb[position(b) + 1] ELSE None,
               cells |-> piece(position(b))]
         ELSE bm[b]]
  BY <1>1 DEF Appended, Piece, Room, Upto
<1>4. \A k \in 1 .. n : position(nb[k]) = k
  BY <1>1
<1> HIDE DEF piece, position, first
<1>5. bm2[last] = [bm[last] EXCEPT
                     !.cells = @ \o first,
                     !.next_block = IF n = 0 THEN @ ELSE nb[1]]
  BY <1>3
<1>6. ASSUME NEW k \in 1 .. n
      PROVE  bm2[nb[k]] = [type |-> USED,
                           next_block |-> IF k < n THEN nb[k + 1] ELSE None,
                           cells |-> piece(k)]
  <2>1. nb[k] \in Block /\ nb[k] # last /\ new(nb[k]) /\ position(nb[k]) = k
    BY <1>1, <1>2, <1>4
  <2> HIDE DEF new
  <2> QED BY <2>1, <1>3
<1>7. ASSUME NEW b \in Block, b # last, ~ new(b)
      PROVE  bm2[b] = bm[b]
  <2> HIDE DEF new
  <2> QED BY <1>7, <1>3
<1>8. /\ bm2[last].type = USED
      /\ bm2[last].next_block = IF n = 0 THEN bm[last].next_block ELSE nb[1]
      /\ bm2[last].cells = bm[last].cells \o first
  <2>1. /\ bm[last] \in [type : {EMPTY, USED}, next_block : Block \cup {None},
                         cells : Seq(Cell)]
        /\ bm[last].type = USED
    BY DEF BlockTable, InUse
  <2> QED BY <2>1, <1>5
<1>9. bm2 = [b \in Block |-> bm2[b]]
  BY <1>3
<1> QED BY <1>5, <1>6, <1>7, <1>8, <1>9 DEF first, piece, BlockByBlock

(* What an append makes of the block table: it links, and it does not      *)
(* overfill a block.                                                       *)
LEMMA AppendedBlocks ==
  ASSUME NEW bm, BlockTable(bm), \A b \in Block : Len(bm[b].cells) <= BlockCells,
         NEW last \in Block, InUse(bm, last), NEW data \in Seq(Cell),
         NEW n \in Nat, NEW nb, Fresh(bm, n, nb),
         NEW bm2, bm2 = Appended(bm, last, data, nb)
  PROVE  /\ BlockTable(bm2)
         /\ \A b \in Block : Len(bm2[b].cells) <= BlockCells
         /\ bm2[last].type = USED
         /\ bm2[last].next_block = IF n = 0 THEN bm[last].next_block ELSE nb[1]
         /\ \A k \in 1 .. n :
              /\ bm2[nb[k]].type = USED
              /\ bm2[nb[k]].next_block = IF k < n THEN nb[k + 1] ELSE None
         /\ \A b \in Block : b # last /\ (\A k \in 1 .. n : nb[k] # b) => bm2[b] = bm[b]
<1> DEFINE room == Room(bm, last)
           upto(k) == Upto(bm, last, k)
           piece(from, to) == Piece(data, from, to)
           new(b) == \E k \in 1 .. n : nb[k] = b
           Rec == [type : {EMPTY, USED}, next_block : Block \cup {None}, cells : Seq(Cell)]
<1>1. /\ Len(nb) = n
      /\ \A k \in 1 .. n : nb[k] \in Block /\ bm[nb[k]].type = EMPTY
      /\ \A j, k \in 1 .. n : j # k => nb[j] # nb[k]
  BY DEF Fresh
<1>3. room \in Nat /\ room = BlockCells - Len(bm[last].cells)
  <2>1. Len(bm[last].cells) \in Nat
    BY LenProperties DEF BlockTable
  <2> QED BY <2>1, SizesAssumption DEF Room
<1>6. piece(1, room) \in Seq(Cell) /\ Len(piece(1, room)) <= room
  <2>1. 1 \in Nat \ {0} /\ room \in Int /\ room >= 1 - 1 /\ room - 1 + 1 = room
    BY <1>3
  <2> HIDE DEF room
  <2> QED BY <2>1, PieceFits DEF Piece
<1>7. ASSUME NEW k \in 1 .. n
      PROVE  /\ piece(upto(k - 1) + 1, upto(k)) \in Seq(Cell)
             /\ Len(piece(upto(k - 1) + 1, upto(k))) <= BlockCells
  <2> DEFINE from == upto(k - 1) + 1
             to == upto(k)
  <2>1. (k - 1) * BlockCells \in Nat /\ k * BlockCells = (k - 1) * BlockCells + BlockCells
    BY SizesAssumption
  <2>2. from \in Nat \ {0} /\ to \in Int /\ to >= from - 1 /\ to - from + 1 = BlockCells
    <3>1. BlockCells \in Nat
      BY SizesAssumption
    <3> QED BY <2>1, <3>1, <1>3 DEF Upto
  <2> HIDE DEF from, to
  <2>3. piece(from, to) \in Seq(Cell) /\ Len(piece(from, to)) <= BlockCells
    BY <2>2, PieceFits DEF Piece
  <2> QED BY <2>3 DEF from, to
<1>8. /\ bm2[last].type = USED
      /\ bm2[last].next_block = IF n = 0 THEN bm[last].next_block ELSE nb[1]
      /\ bm2[last].cells = bm[last].cells \o piece(1, room)
      /\ bm2[last] = [bm[last] EXCEPT
                        !.cells = @ \o piece(1, room),
                        !.next_block = IF n = 0 THEN @ ELSE nb[1]]
      /\ \A k \in 1 .. n :
           bm2[nb[k]] = [type |-> USED,
                         next_block |-> IF k < n THEN nb[k + 1] ELSE None,
                         cells |-> piece(upto(k - 1) + 1, upto(k))]
      /\ \A b \in Block : b # last /\ ~ new(b) => bm2[b] = bm[b]
      /\ bm2 = [b \in Block |-> bm2[b]]
  <2>1. BlockByBlock(bm, last, data, n, nb, bm2)
    BY AppendedAt
  <2> QED BY <2>1 DEF BlockByBlock
<1> HIDE DEF piece, upto, room
<1>10. bm2[last] \in Rec /\ Len(bm2[last].cells) <= BlockCells
  <2>1. bm[last].cells \in Seq(Cell) /\ Len(bm[last].cells) \in Nat
    BY LenProperties DEF BlockTable
  <2>2. /\ bm[last].cells \o piece(1, room) \in Seq(Cell)
        /\ Len(bm[last].cells \o piece(1, room)) = Len(bm[last].cells) + Len(piece(1, room))
    BY <2>1, <1>6, ConcatProperties
  <2>3. Len(bm2[last].cells) <= BlockCells
    <3>1. Len(piece(1, room)) \in Nat
      BY <1>6, LenProperties
    <3>2. Len(bm2[last].cells) = Len(bm[last].cells) + Len(piece(1, room))
      BY <2>2, <1>8
    <3>3. Len(piece(1, room)) <= BlockCells - Len(bm[last].cells)
      BY <1>3, <1>6
    <3>4. BlockCells \in Int
      BY SizesAssumption
    <3>5. \A c, p \in Int : p <= BlockCells - c => c + p <= BlockCells
      BY <3>4
    <3> HIDE DEF room
    <3> QED BY <2>1, <3>1, <3>2, <3>3, <3>5
  <2>4. (IF n = 0 THEN bm[last].next_block ELSE nb[1]) \in Block \cup {None}
    BY <1>1 DEF BlockTable
  <2>5. bm2[last] \in Rec
    BY <2>2, <2>4, <1>8 DEF BlockTable
  <2> QED BY <2>3, <2>5
<1>11. \A k \in 1 .. n : bm2[nb[k]] \in Rec /\ Len(bm2[nb[k]].cells) <= BlockCells
  <2> TAKE k \in 1 .. n
  <2>1. (IF k < n THEN nb[k + 1] ELSE None) \in Block \cup {None}
    BY <1>1
  <2> DEFINE next == IF k < n THEN nb[k + 1] ELSE None
             cells == piece(upto(k - 1) + 1, upto(k))
  <2>0. bm2[nb[k]] = [type |-> USED, next_block |-> next, cells |-> cells]
    BY <1>8
  <2> HIDE DEF next, cells
  <2>2. bm2[nb[k]].type = USED /\ bm2[nb[k]].cells = cells
    BY <2>0
  <2>3. Len(bm2[nb[k]].cells) <= BlockCells
    BY <2>2, <1>7 DEF cells
  <2>4. cells \in Seq(Cell) /\ next \in Block \cup {None}
    BY <2>1, <1>7 DEF cells, next
  <2>5. bm2[nb[k]] \in Rec
    BY <2>0, <2>4
  <2> QED BY <2>3, <2>5
<1>12. \A b \in Block : bm2[b] \in Rec /\ Len(bm2[b].cells) <= BlockCells
  <2> TAKE b \in Block
  <2>1. CASE b = last
    BY <2>1, <1>10
  <2>2. CASE new(b)
    BY <2>2, <1>11
  <2>3. CASE b # last /\ ~ new(b)
    BY <2>3, <1>8 DEF BlockTable
  <2> QED BY <2>1, <2>2, <2>3
<1>13. BlockTable(bm2)
  BY <1>8, <1>12 DEF BlockTable
<1>14. \A k \in 1 .. n :
         /\ bm2[nb[k]].type = USED
         /\ bm2[nb[k]].next_block = IF k < n THEN nb[k + 1] ELSE None
  <2> TAKE k \in 1 .. n
  <2> DEFINE next == IF k < n THEN nb[k + 1] ELSE None
             cells == piece(upto(k - 1) + 1, upto(k))
  <2>1. bm2[nb[k]] = [type |-> USED, next_block |-> next, cells |-> cells]
    BY <1>8
  <2> HIDE DEF next, cells
  <2>2. bm2[nb[k]].type = USED /\ bm2[nb[k]].next_block = next
    BY <2>1
  <2> QED BY <2>2 DEF next
<1>15. \A b \in Block : b # last /\ (\A k \in 1 .. n : nb[k] # b) => bm2[b] = bm[b]
  BY <1>8
<1> QED BY <1>8, <1>12, <1>13, <1>14, <1>15

(* An append to the chain of an inode, which is the root's when the inode  *)
(* is not in use: the last block gets a chain of new ones behind it.       *)
LEMMA AppendKeepsLinks ==
  ASSUME NEW im, NEW bm, WellLinked(im, bm),
         \A b \in Block : Len(bm[b].cells) <= BlockCells,
         NEW d \in Inode, NEW last \in LastBlocks(bm, im[d].root_block),
         NEW data \in Seq(Cell), NEW n \in Nat, NEW nb, Fresh(bm, n, nb),
         NEW bm2, bm2 = Appended(bm, last, data, nb)
  PROVE  /\ WellLinked(im, bm2)
         /\ \A b \in Block : Len(bm2[b].cells) <= BlockCells
         /\ Takes(bm, bm2, nb, n)
<1> DEFINE new(b) == \E k \in 1 .. n : nb[k] = b
<1>1. 0 \in Inode /\ Alive(im, 0)
  BY SizesAssumption DEF WellLinked, Roots, Alive, Inode, DIR, EMPTY
<1>2. PICK i \in Inode : Alive(im, i) /\ im[i].root_block = im[d].root_block
  BY <1>1 DEF WellLinked, Roots
<1>3. /\ last \in Walk(bm, im[i].root_block, 0)
      /\ last \in Block /\ InUse(bm, last) /\ bm[last].next_block = None
  <2>1. last \in Walk(bm, im[i].root_block, 0) /\ bm[last].next_block < 0
    BY <1>2 DEF LastBlocks
  <2>2. last \in Block /\ InUse(bm, last)
    BY <2>1, <1>2, WalkInUse
  <2>3. bm[last].next_block = None
    BY <2>1, <2>2, TablesHaveLinks, SizesAssumption DEF WellLinked, Links, Block
  <2> QED BY <2>1, <2>2, <2>3
<1>4. /\ \A k \in 1 .. n : nb[k] \in Block /\ ~ InUse(bm, nb[k])
      /\ \A j, k \in 1 .. n : j # k => nb[j] # nb[k]
  BY DEF Fresh, InUse, EMPTY, USED
<1>5. /\ BlockTable(bm2)
      /\ \A b \in Block : Len(bm2[b].cells) <= BlockCells
      /\ InUse(bm2, last)
      /\ bm2[last].next_block = IF n = 0 THEN None ELSE nb[1]
      /\ \A k \in 1 .. n : /\ InUse(bm2, nb[k])
                           /\ bm2[nb[k]].next_block = IF k < n THEN nb[k + 1] ELSE None
      /\ \A b \in Block : b # last /\ ~ new(b) => bm2[b] = bm[b]
  <2>1. BlockTable(bm)
    BY DEF WellLinked
  <2>2. /\ BlockTable(bm2)
        /\ \A b \in Block : Len(bm2[b].cells) <= BlockCells
        /\ bm2[last].type = USED
        /\ bm2[last].next_block = IF n = 0 THEN bm[last].next_block ELSE nb[1]
        /\ \A k \in 1 .. n :
             /\ bm2[nb[k]].type = USED
             /\ bm2[nb[k]].next_block = IF k < n THEN nb[k + 1] ELSE None
        /\ \A b \in Block : b # last /\ (\A k \in 1 .. n : nb[k] # b) => bm2[b] = bm[b]
    BY <2>1, <1>3, AppendedBlocks
  <2> QED BY <2>2, <1>3 DEF InUse
<1>6. Links(bm) /\ Links(bm2)
  BY <1>5, TablesHaveLinks DEF WellLinked
<1>7. \A b \in Block : InUse(bm2, b) <=> InUse(bm, b) \/ new(b)
  BY <1>3, <1>5 DEF InUse
<1>8. \A b \in Block : InUse(bm, b) /\ b # last => bm2[b] = bm[b]
  BY <1>4, <1>5
<1>9. Roots(im, bm) /\ Successors(im, bm) /\ Covered(im, bm) /\ InodeTable(im)
  BY DEF WellLinked
<1>10. \A j \in Inode : im[j].root_block \in Block
  BY <1>9 DEF InodeTable
<1>11. Roots(im, bm2)
  BY <1>7, <1>9, <1>10 DEF Roots
<1>12. Successors(im, bm2)
  <2>1. \A b \in Block : bm[b].next_block # None => bm[b].next_block \in Block
    BY <1>6 DEF Links
  <2>2. \A k \in 1 .. n : nb[k] # 0 /\ nb[k] # None
    BY <1>1, <1>4, <1>9, SizesAssumption DEF Roots, Block, None
  \* the successors of `last' and of the new blocks are the new blocks, one by one
  <2>3. ASSUME NEW b \in Block, b = last \/ new(b), bm2[b].next_block # None
        PROVE  \E k \in 1 .. n : /\ bm2[b].next_block = nb[k]
                                 /\ IF k = 1 THEN b = last ELSE b = nb[k - 1]
    <3>1. CASE b = last
      <4>1. n # 0 /\ 1 \in 1 .. n /\ bm2[b].next_block = nb[1]
        BY <2>3, <3>1, <1>5
      <4> QED BY <4>1, <3>1
    <3>2. CASE new(b)
      <4>1. PICK k \in 1 .. n : nb[k] = b
        BY <3>2
      <4>2. k < n /\ bm2[b].next_block = nb[k + 1]
        BY <2>3, <4>1, <1>5
      <4>3. k + 1 \in 1 .. n /\ k + 1 # 1 /\ (k + 1) - 1 = k
        BY <4>2
      <4> QED BY <4>1, <4>2, <4>3
    <3> QED BY <2>3, <3>1, <3>2
  <2>4. ASSUME NEW b \in Block, InUse(bm2, b), b # last, ~ new(b)
        PROVE  /\ InUse(bm, b) /\ bm2[b].next_block = bm[b].next_block
               /\ \/ bm[b].next_block = None
                  \/ bm[b].next_block # 0 /\ InUse(bm, bm[b].next_block)
    BY <2>4, <1>7, <1>8, <1>9 DEF Successors
  <2>5. \A b \in Block : InUse(bm2, b) =>
          \/ bm2[b].next_block = None
          \/ bm2[b].next_block # 0 /\ InUse(bm2, bm2[b].next_block)
    <3> TAKE b \in Block
    <3> HAVE InUse(bm2, b)
    <3>1. CASE b = last \/ new(b)
      BY <3>1, <2>2, <2>3, <1>5
    <3>2. CASE b # last /\ ~ new(b)
      BY <3>2, <2>1, <2>4, <1>7
    <3> QED BY <3>1, <3>2
  <2>6. ASSUME NEW b \in Block, NEW c \in Block, InUse(bm2, b), InUse(bm2, c), b # c,
               bm2[b].next_block # None, bm2[b].next_block = bm2[c].next_block
        PROVE  FALSE
    <3>1. CASE (b = last \/ new(b)) /\ (c = last \/ new(c))
      <4>1. PICK k \in 1 .. n : /\ bm2[b].next_block = nb[k]
                                /\ IF k = 1 THEN b = last ELSE b = nb[k - 1]
        BY <3>1, <2>3, <2>6
      <4>2. PICK m \in 1 .. n : /\ bm2[c].next_block = nb[m]
                                /\ IF m = 1 THEN c = last ELSE c = nb[m - 1]
        BY <3>1, <2>3, <2>6
      <4>3. k = m
        BY <4>1, <4>2, <2>6, <1>4
      <4> QED BY <4>1, <4>2, <4>3, <2>6
    <3>2. CASE (b = last \/ new(b)) /\ ~ (c = last \/ new(c))
      <4>1. PICK k \in 1 .. n : bm2[b].next_block = nb[k]
        BY <3>2, <2>3, <2>6
      <4> QED BY <4>1, <3>2, <2>4, <2>6, <1>4
    <3>3. CASE ~ (b = last \/ new(b)) /\ (c = last \/ new(c))
      <4>1. PICK k \in 1 .. n : bm2[c].next_block = nb[k]
        BY <3>3, <2>3, <2>6
      <4> QED BY <4>1, <3>3, <2>4, <2>6, <1>4
    <3>4. CASE ~ (b = last \/ new(b)) /\ ~ (c = last \/ new(c))
      BY <3>4, <2>4, <2>6, <1>9 DEF Successors
    <3> QED BY <3>1, <3>2, <3>3, <3>4
  <2>7. ASSUME NEW j \in Inode, NEW b \in Block, Alive(im, j), InUse(bm2, b),
               bm2[b].next_block = im[j].root_block
        PROVE  FALSE
    <3>1. InUse(bm, im[j].root_block) /\ im[j].root_block # None
      BY <2>7, <1>9, <1>10, SizesAssumption DEF Roots, Block, None
    <3>2. CASE b = last \/ new(b)
      <4>1. PICK k \in 1 .. n : bm2[b].next_block = nb[k]
        BY <3>1, <3>2, <2>3, <2>7
      <4> QED BY <4>1, <3>1, <2>7, <1>4
    <3>3. CASE ~ (b = last \/ new(b))
      BY <3>3, <2>4, <2>7, <1>9 DEF Successors
    <3> QED BY <3>2, <3>3
  <2> QED BY <2>5, <2>6, <2>7 DEF Successors
<1>13. \A j \in Inode : Alive(im, j) =>
         Walk(bm, im[j].root_block, 0) \subseteq Walk(bm2, im[j].root_block, 0)
  <2> SUFFICES ASSUME NEW j \in Inode, Alive(im, j)
               PROVE  Walk(bm, im[j].root_block, 0) \subseteq Walk(bm2, im[j].root_block, 0)
    OBVIOUS
  <2> DEFINE U == {b \in Block : InUse(bm, b)}
  <2>1. im[j].root_block \in U /\ U \in SUBSET Block
    BY <1>9, <1>10 DEF Roots
  <2>2. \A y \in U : bm[y].next_block >= 0 =>
          bm[y].next_block \in U /\ bm2[y].next_block = bm[y].next_block
    <3> TAKE y \in U
    <3> HAVE bm[y].next_block >= 0
    <3>1. bm[y].next_block # None /\ bm[y].next_block \in Block
      BY <1>6, SizesAssumption DEF Links, None, Block
    <3> QED BY <3>1, <1>3, <1>8, <1>9 DEF Successors
  <2> HIDE DEF U
  <2> QED BY <2>1, <2>2, <1>6, WalkGrows
<1>14. ASSUME NEW j \in Inode, Alive(im, j), last \in Walk(bm, im[j].root_block, 0)
       PROVE  \A k \in 1 .. n : nb[k] \in Walk(bm2, im[j].root_block, 0)
  <2> DEFINE W == Walk(bm2, im[j].root_block, 0)
             K == {k \in 1 .. n : nb[k] \notin W}
  <2>1. SUFFICES ASSUME K # {} PROVE FALSE
    OBVIOUS
  <2>2. PICK m \in K : \A k \in K : m <= k
    <3>1. K \in SUBSET (1 .. n)
      OBVIOUS
    <3> HIDE DEF K
    <3> QED BY <2>1, <3>1, LeastPosition
  <2>3. last \in W /\ im[j].root_block >= 0
    <3>1. last \in W
      BY <1>13, <1>14
    <3>2. im[j].root_block >= 0
      BY <1>10, SizesAssumption DEF Block
    <3> QED BY <3>1, <3>2
  <2>4. \A x \in W : bm2[x].next_block >= 0 => bm2[x].next_block \in W
    BY <2>3, <1>6, <1>10, WalkHolds
  <2>5. nb[m] >= 0
    BY <1>4, SizesAssumption DEF Block
  <2>6. CASE m = 1
    <3>1. bm2[last].next_block = nb[m]
      BY <2>6, <1>5
    <3> QED BY <3>1, <2>3, <2>4, <2>5
  <2>7. CASE m # 1
    <3>1. m - 1 \in 1 .. n /\ m - 1 < m /\ m - 1 < n /\ (m - 1) + 1 = m
      BY <2>7
    <3>2. nb[m - 1] \in W
      <4>1. m - 1 \notin K
        BY <3>1, <2>2
      <4> QED BY <3>1, <4>1
    <3>3. bm2[nb[m - 1]].next_block = nb[m]
      BY <3>1, <1>5
    <3> QED BY <3>2, <3>3, <2>4, <2>5
  <2> QED BY <2>6, <2>7
<1>15. Covered(im, bm2)
  <2>1. ASSUME NEW b \in Block, InUse(bm2, b)
        PROVE  \E j \in Inode : Alive(im, j) /\ b \in Walk(bm2, im[j].root_block, 0)
    <3>1. CASE InUse(bm, b)
      BY <3>1, <1>9, <1>13 DEF Covered
    <3>2. CASE new(b)
      BY <3>2, <1>2, <1>3, <1>14
    <3> QED BY <2>1, <3>1, <3>2, <1>7
  <2>2. ASSUME NEW j \in Inode, Alive(im, j)
        PROVE  \E x \in Walk(bm2, im[j].root_block, 0) : bm2[x].next_block = None
    <3>1. PICK x \in Walk(bm, im[j].root_block, 0) : bm[x].next_block = None
      BY <2>2, <1>9 DEF Covered
    <3>2. x \in Walk(bm2, im[j].root_block, 0)
      BY <2>2, <1>13
    <3>3. CASE x # last
      <4>1. x \in Block /\ InUse(bm, x)
        BY <2>2, WalkInUse
      <4> QED BY <4>1, <3>1, <3>2, <3>3, <1>8
    <3>4. CASE x = last /\ n = 0
      BY <3>2, <3>4, <1>5
    <3>5. CASE x = last /\ n # 0
      <4>1. n \in 1 .. n /\ bm2[nb[n]].next_block = None
        BY <3>5, <1>5
      <4>2. nb[n] \in Walk(bm2, im[j].root_block, 0)
        BY <4>1, <3>5, <2>2, <1>14
      <4> QED BY <4>1, <4>2
    <3> QED BY <3>3, <3>4, <3>5
  <2> QED BY <2>1, <2>2 DEF Covered
<1>16. WellLinked(im, bm2)
  BY <1>5, <1>9, <1>11, <1>12, <1>15 DEF WellLinked
<1>17. Takes(bm, bm2, nb, n)
  BY <1>4, <1>7 DEF Takes, UsedBlocks, Taken
<1> QED BY <1>5, <1>16, <1>17

(* Tables and counters that agree.                                         *)
Consistent(im, bm, inodes, blocks) ==
  /\ WellLinked(im, bm)
  /\ \A b \in Block : Len(bm[b].cells) <= BlockCells
  /\ inodes + 1 = Cardinality(LiveInodes(im)) /\ inodes \in Int
  /\ blocks + 1 = Cardinality(UsedBlocks(bm)) /\ blocks \in Int

(* The number of blocks an append takes is a natural number: room is never *)
(* negative.                                                               *)
LEMMA BlocksNeededType ==
  ASSUME NEW bm, NEW last, Len(bm[last].cells) \in Nat,
         Len(bm[last].cells) <= BlockCells, NEW n \in Nat
  PROVE  BlocksNeeded(bm, last, n) \in Nat
<1> DEFINE room == BlockCells - Len(bm[last].cells)
<1>1. room \in Nat /\ BlockCells \in Nat \ {0}
  BY SizesAssumption
<1> HIDE DEF room
<1>2. ASSUME n > room PROVE (n - room + BlockCells - 1) \div BlockCells \in Nat
  <2>1. n - room + BlockCells - 1 \in Nat
    BY <1>1, <1>2
  <2>2. \A m \in Nat : m \div BlockCells \in Nat
    BY <1>1
  <2> QED BY <2>1, <2>2
<1>3. BlocksNeeded(bm, last, n) =
        IF n <= room THEN 0 ELSE (n - room + BlockCells - 1) \div BlockCells
  BY DEF BlocksNeeded, room
<1> QED BY <1>1, <1>2, <1>3

(* The same for an append to a chain of the block table.                   *)
LEMMA LastBlocksType ==
  ASSUME NEW bm, BlockTable(bm), \A b \in Block : Len(bm[b].cells) <= BlockCells,
         NEW b \in Block, NEW last \in LastBlocks(bm, b), NEW n \in Nat
  PROVE  BlocksNeeded(bm, last, n) \in Nat
<1>1. last \in Block
  BY WalkInBlocks DEF LastBlocks
<1>2. Len(bm[last].cells) \in Nat /\ Len(bm[last].cells) <= BlockCells
  BY <1>1, LenProperties DEF BlockTable
<1> QED BY <1>2, BlocksNeededType

(* What write appends is a sequence of cells.                              *)
LEMMA InputsAreCells ==
  ASSUME NEW data \in Inputs
  PROVE  data \in Seq(Cell) /\ Len(data) \in Nat
<1>1. PICK n \in InputLengths, t \in Texts : data = [c \in 1 .. n |-> Text(t)]
  BY DEF Inputs
<1>2. n \in Nat
  BY InputAssumption
<1>3. Text(t) \in Cell
  BY DEF Text, Cell
<1>4. data \in [1 .. n -> Cell]
  BY <1>1, <1>3
<1>5. data \in Seq(Cell)
  BY <1>2, <1>4
<1> QED BY <1>5, LenProperties

(* What a lookup finds is an inode in use, and not the root.               *)
LEMMA FoundEntry ==
  ASSUME BlockTable(block_map), NEW name, NEW type \in {FILE, DIR}, NEW s \in Matches(name, type)
  PROVE  /\ EntryAt(s).inode \in Inode /\ EntryAt(s).inode # 0
         /\ Alive(inode_map, EntryAt(s).inode)
<1>1. s \in DirSlots /\ s \notin Wild /\ inode_map[EntryAt(s).inode].type = type
  BY DEF Matches
<1>2. EntryAt(s).inode \in Inode
  BY <1>1 DEF Wild
<1>3. EntryAt(s) \in Cell
  <2>1. /\ s[1] \in Block /\ s[2] \in 1 .. BlockCells
        /\ s[2] <= Len(block_map[s[1]].cells)
    BY <1>1, WalkInBlocks DEF DirSlots, Slots
  <2>2. block_map[s[1]].cells \in Seq(Cell)
    BY <2>1 DEF BlockTable
  <2>3. s[2] \in 1 .. Len(block_map[s[1]].cells)
    BY <2>1, <2>2, LenProperties
  <2> QED BY <2>2, <2>3, ElementOfSeq DEF EntryAt, CellAt
<1>4. EntryAt(s).inode # 0
  BY <1>3 DEF Cell, None
<1>5. Alive(inode_map, EntryAt(s).inode)
  BY <1>1 DEF Alive, FILE, DIR, EMPTY
<1> QED BY <1>2, <1>4, <1>5

-----------------------------------------------------------------------------
(* Counting.                                                               *)

(* The sizes of the two tables.                                            *)
LEMMA FiniteTables ==
  /\ IsFiniteSet(Inode) /\ Cardinality(Inode) = InodeCount
  /\ IsFiniteSet(Block) /\ Cardinality(Block) = BlockCount
<1>1. /\ 0 \in Int /\ InodeCount - 1 \in Int /\ BlockCount - 1 \in Int
      /\ ~ (0 > InodeCount - 1) /\ ~ (0 > BlockCount - 1)
      /\ InodeCount - 1 - 0 + 1 = InodeCount /\ BlockCount - 1 - 0 + 1 = BlockCount
  BY SizesAssumption
<1>2. IsFiniteSet(Inode) /\ Cardinality(Inode) = InodeCount
  BY <1>1, FS_Interval DEF Inode
<1>3. IsFiniteSet(Block) /\ Cardinality(Block) = BlockCount
  BY <1>1, FS_Interval DEF Block
<1> QED BY <1>2, <1>3

(* Live inodes and used blocks are finitely many, and when they are as     *)
(* many as the table has rows the table is full.                           *)
LEMMA FiniteUse ==
  ASSUME NEW im, NEW bm
  PROVE  /\ IsFiniteSet(LiveInodes(im)) /\ Cardinality(LiveInodes(im)) <= InodeCount
         /\ Cardinality(LiveInodes(im)) \in Nat
         /\ Cardinality(LiveInodes(im)) = InodeCount => \A i \in Inode : Alive(im, i)
         /\ IsFiniteSet(UsedBlocks(bm)) /\ Cardinality(UsedBlocks(bm)) <= BlockCount
         /\ Cardinality(UsedBlocks(bm)) \in Nat
         /\ Cardinality(UsedBlocks(bm)) = BlockCount => \A b \in Block : InUse(bm, b)
<1>1. /\ LiveInodes(im) \in SUBSET Inode /\ UsedBlocks(bm) \in SUBSET Block
  BY DEF LiveInodes, UsedBlocks
<1>2. /\ IsFiniteSet(LiveInodes(im)) /\ Cardinality(LiveInodes(im)) <= InodeCount
      /\ Cardinality(LiveInodes(im)) = InodeCount => Inode = LiveInodes(im)
  BY <1>1, FiniteTables, FS_Subset
<1>3. /\ IsFiniteSet(UsedBlocks(bm)) /\ Cardinality(UsedBlocks(bm)) <= BlockCount
      /\ Cardinality(UsedBlocks(bm)) = BlockCount => Block = UsedBlocks(bm)
  BY <1>1, FiniteTables, FS_Subset
<1>4. Cardinality(LiveInodes(im)) \in Nat /\ Cardinality(UsedBlocks(bm)) \in Nat
  BY <1>2, <1>3, FS_CardinalityType
<1>5. Inode = LiveInodes(im) => \A i \in Inode : Alive(im, i)
  BY DEF LiveInodes
<1>6. Block = UsedBlocks(bm) => \A b \in Block : InUse(bm, b)
  BY DEF UsedBlocks
<1> QED BY <1>2, <1>3, <1>4, <1>5, <1>6

(* The root and its first block are in use and are not counted, so the     *)
(* counters stay below the sizes of the tables.                            *)
LEMMA CountersInRange ==
  ASSUME NEW im, NEW bm, NEW inodes, NEW blocks, Consistent(im, bm, inodes, blocks)
  PROVE  /\ inodes \in 0 .. InodeCount - 1 /\ blocks \in 0 .. BlockCount - 1
         /\ 0 \in Inode /\ 0 \in Block /\ Alive(im, 0) /\ InUse(bm, 0)
<1>1. 0 \in Inode /\ 0 \in Block /\ Alive(im, 0) /\ InUse(bm, 0)
  <2>1. 0 \in Inode /\ 0 \in Block
    BY SizesAssumption DEF Inode, Block
  <2> QED BY <2>1 DEF Consistent, WellLinked, Roots, Alive, DIR, EMPTY
<1>2. Cardinality(LiveInodes(im)) # 0 /\ Cardinality(UsedBlocks(bm)) # 0
  <2>1. LiveInodes(im) # {} /\ UsedBlocks(bm) # {}
    BY <1>1 DEF LiveInodes, UsedBlocks
  <2> QED BY <2>1, FiniteUse, FS_EmptySet
<1>3. /\ Cardinality(LiveInodes(im)) \in Nat /\ Cardinality(LiveInodes(im)) <= InodeCount
      /\ Cardinality(UsedBlocks(bm)) \in Nat /\ Cardinality(UsedBlocks(bm)) <= BlockCount
  BY FiniteUse
<1>4. /\ inodes + 1 = Cardinality(LiveInodes(im)) /\ inodes \in Int
      /\ blocks + 1 = Cardinality(UsedBlocks(bm)) /\ blocks \in Int
  BY DEF Consistent
<1>5. inodes \in 0 .. InodeCount - 1 /\ blocks \in 0 .. BlockCount - 1
  BY <1>2, <1>3, <1>4, SizesAssumption
<1> QED BY <1>1, <1>5

-----------------------------------------------------------------------------
(* The commands' changes to the tables keep them consistent.               *)

(* A change that leaves types, root blocks and next blocks alone, such as  *)
(* a new size or new contents, keeps the tables consistent.                *)
LEMMA ContentsConsistent ==
  ASSUME NEW im, NEW bm, NEW inodes, NEW blocks, Consistent(im, bm, inodes, blocks),
         NEW im2, InodeTable(im2), NEW bm2, BlockTable(bm2),
         \A b \in Block : Len(bm2[b].cells) <= BlockCells,
         \A i \in Inode : im2[i].type = im[i].type /\ im2[i].root_block = im[i].root_block,
         \A b \in Block : bm2[b].type = bm[b].type /\ bm2[b].next_block = bm[b].next_block
  PROVE  Consistent(im2, bm2, inodes, blocks)
<1>1. WellLinked(im2, bm2)
  BY ContentsDoNotMatter DEF Consistent
<1>2. LiveInodes(im2) = LiveInodes(im) /\ UsedBlocks(bm2) = UsedBlocks(bm)
  BY DEF LiveInodes, UsedBlocks, Alive, InUse
<1> QED BY <1>1, <1>2 DEF Consistent

(* mkdir and touch take a free inode and a free block, and count both.     *)
LEMMA MakeConsistent ==
  ASSUME NEW im, NEW bm, NEW inodes, NEW blocks, Consistent(im, bm, inodes, blocks),
         NEW i \in Inode, ~ Alive(im, i), NEW b \in Block, ~ InUse(bm, b),
         NEW rec, rec.type \in {FILE, DIR}, rec.root_block = b,
         InodeTable([im EXCEPT ![i] = rec])
  PROVE  Consistent([im EXCEPT ![i] = rec], [bm EXCEPT ![b] = NewBlockRec],
                    inodes + 1, blocks + 1)
<1> DEFINE im2 == [im EXCEPT ![i] = rec]
           bm2 == [bm EXCEPT ![b] = NewBlockRec]
<1>1. WellLinked(im2, bm2)
  BY MakeKeepsLinks DEF Consistent
<1>2. \A c \in Block : Len(bm2[c].cells) <= BlockCells
  BY SizesAssumption DEF Consistent, WellLinked, BlockTable, NewBlockRec
<1>3. LiveInodes(im2) = LiveInodes(im) \cup {i} /\ i \notin LiveInodes(im)
  BY DEF LiveInodes, Alive, Consistent, WellLinked, InodeTable, EMPTY, FILE, DIR
<1>4. UsedBlocks(bm2) = UsedBlocks(bm) \cup {b} /\ b \notin UsedBlocks(bm)
  BY DEF UsedBlocks, InUse, Consistent, WellLinked, BlockTable, NewBlockRec
<1>5. /\ Cardinality(LiveInodes(im2)) = Cardinality(LiveInodes(im)) + 1
      /\ Cardinality(UsedBlocks(bm2)) = Cardinality(UsedBlocks(bm)) + 1
  BY <1>3, <1>4, FiniteUse, FS_AddElement
<1> QED BY <1>1, <1>2, <1>5 DEF Consistent

(* The new blocks are n.                                                   *)
LEMMA TakenCount ==
  ASSUME NEW bm, NEW n \in Nat, NEW nb, Fresh(bm, n, nb),
         NEW bm2, Takes(bm, bm2, nb, n)
  PROVE  Cardinality(UsedBlocks(bm2)) = Cardinality(UsedBlocks(bm)) + n
<1> DEFINE S == Taken(nb, n)
<1>1. IsFiniteSet(S) /\ Cardinality(S) = n
  <2>1. nb \in Bijection(1 .. n, S)
    <3>1. \A k \in 1 .. n : nb[k] \in S
      BY DEF Taken
    <3>2. nb \in [1 .. n -> S]
      <4>1. nb = [k \in 1 .. n |-> nb[k]]
        BY DEF Fresh
      <4> HIDE DEF S
      <4> QED BY <3>1, <4>1
    <3>3. \A y \in S : \E k \in 1 .. n : nb[k] = y
      BY DEF Taken
    <3> HIDE DEF S
    <3> QED BY <3>2, <3>3 DEF Fresh, Bijection, Injection, Surjection, IsInjective
  <2>2. IsFiniteSet(1 .. n) /\ Cardinality(1 .. n) = n
    BY FS_Interval
  <2> HIDE DEF S
  <2> QED BY <2>1, <2>2, FS_Bijection DEF ExistsBijection
<1>2. UsedBlocks(bm2) = UsedBlocks(bm) \cup S /\ UsedBlocks(bm) \cap S = {}
  BY DEF Fresh, Takes, UsedBlocks, InUse, Taken, EMPTY, USED
<1> HIDE DEF S
<1>3. Cardinality(UsedBlocks(bm) \cup S)
        = Cardinality(UsedBlocks(bm)) + Cardinality(S) - Cardinality(UsedBlocks(bm) \cap S)
  BY <1>1, FiniteUse, FS_Union
<1>4. Cardinality(UsedBlocks(bm) \cap S) = 0
  BY <1>2, FS_EmptySet
<1>5. Cardinality(UsedBlocks(bm)) \in Nat
  BY FiniteUse
<1> QED BY <1>1, <1>2, <1>3, <1>4, <1>5

(* minifs_append_data takes n free blocks for a chain and counts n.        *)
LEMMA AppendConsistent ==
  ASSUME NEW im, NEW bm, NEW inodes, NEW blocks, Consistent(im, bm, inodes, blocks),
         NEW d \in Inode, NEW last \in LastBlocks(bm, im[d].root_block),
         NEW data \in Seq(Cell), NEW n \in Nat, NEW nb, Fresh(bm, n, nb)
  PROVE  Consistent(im, Appended(bm, last, data, nb), inodes, blocks + n)
<1> DEFINE bm2 == Appended(bm, last, data, nb)
<1>1. /\ WellLinked(im, bm2)
      /\ \A b \in Block : Len(bm2[b].cells) <= BlockCells
      /\ Takes(bm, bm2, nb, n)
  <2>1. WellLinked(im, bm) /\ \A b \in Block : Len(bm[b].cells) <= BlockCells
    BY DEF Consistent
  <2>2. bm2 = Appended(bm, last, data, nb)
    OBVIOUS
  <2> HIDE DEF bm2
  <2>3. WellLinked(im, bm2)
    BY <2>1, <2>2, AppendKeepsLinks, Zenon
  <2>4. \A b \in Block : Len(bm2[b].cells) <= BlockCells
    BY <2>1, <2>2, AppendKeepsLinks, Zenon
  <2>5. Takes(bm, bm2, nb, n)
    BY <2>1, <2>2, AppendKeepsLinks, Zenon
  <2> QED BY <2>3, <2>4, <2>5
<1>2. Cardinality(UsedBlocks(bm2)) = Cardinality(UsedBlocks(bm)) + n
  BY <1>1, TakenCount
<1>3. Cardinality(UsedBlocks(bm)) \in Nat
  BY FiniteUse
<1> HIDE DEF bm2
<1>4. Consistent(im, bm2, inodes, blocks + n)
  BY <1>1, <1>2, <1>3 DEF Consistent
<1> QED BY <1>4 DEF bm2

(* The loop of rm and rmdir frees one whole chain, and counts each block   *)
(* of it and the inode.                                                    *)
LEMMA FreeConsistent ==
  ASSUME NEW im, NEW bm, NEW inodes, NEW blocks, Consistent(im, bm, inodes, blocks),
         NEW i \in Inode, Alive(im, i), i # 0,
         NEW freed, freed = Walk(bm, im[i].root_block, 0)
  PROVE  Consistent([im EXCEPT ![i] = FreeInodeRec],
                    [b \in Block |-> IF b \in freed THEN FreeBlockRec ELSE bm[b]],
                    inodes - 1, blocks - Cardinality(freed))
<1> DEFINE im2 == [im EXCEPT ![i] = FreeInodeRec]
           bm2 == [b \in Block |-> IF b \in freed THEN FreeBlockRec ELSE bm[b]]
<1>1. WellLinked(im2, bm2)
  <2>1. WellLinked(im, bm)
    BY DEF Consistent
  <2> QED BY <2>1, FreeKeepsLinks
<1>2. \A b \in Block : Len(bm2[b].cells) <= BlockCells
  BY SizesAssumption DEF Consistent, FreeBlockRec
<1>3. LiveInodes(im2) = LiveInodes(im) \ {i} /\ i \in LiveInodes(im)
  BY DEF LiveInodes, Alive, Consistent, WellLinked, InodeTable, FreeInodeRec
<1>4. UsedBlocks(bm2) = UsedBlocks(bm) \ freed /\ UsedBlocks(bm) \cap freed = freed
  <2>1. \A b \in freed : b \in Block /\ InUse(bm, b)
    BY WalkInUse DEF Consistent
  <2> QED BY <2>1 DEF UsedBlocks, InUse, FreeBlockRec, EMPTY, USED
<1>5. Cardinality(LiveInodes(im2)) = Cardinality(LiveInodes(im)) - 1
  BY <1>3, FiniteUse, FS_RemoveElement
<1>6. /\ Cardinality(UsedBlocks(bm2)) = Cardinality(UsedBlocks(bm)) - Cardinality(freed)
      /\ Cardinality(freed) \in Nat
  <2>1. IsFiniteSet(freed)
    BY <1>4, FiniteUse, FS_Intersection
  <2> QED BY <2>1, <1>4, FiniteUse, FS_Difference, FS_CardinalityType
<1>7. Cardinality(LiveInodes(im)) \in Nat /\ Cardinality(UsedBlocks(bm)) \in Nat
  BY FiniteUse
<1> HIDE DEF im2, bm2
<1>8. Consistent(im2, bm2, inodes - 1, blocks - Cardinality(freed))
  BY <1>1, <1>2, <1>5, <1>6, <1>7 DEF Consistent
<1> QED BY <1>8 DEF im2, bm2

(* minifs_remove_from_dir changes neither types nor links.                 *)
LEMMA ClearTypes ==
  ASSUME NEW bm, BlockTable(bm), \A b \in Block : Len(bm[b].cells) <= BlockCells,
         NEW numbers
  PROVE  /\ BlockTable(ClearUsed(bm, numbers))
         /\ \A b \in Block :
              /\ Len(ClearUsed(bm, numbers)[b].cells) <= BlockCells
              /\ ClearUsed(bm, numbers)[b].type = bm[b].type
              /\ ClearUsed(bm, numbers)[b].next_block = bm[b].next_block
<1> DEFINE bm2 == ClearUsed(bm, numbers)
<1>1. BlockTable(bm) /\ \A b \in Block : Len(bm[b].cells) <= BlockCells
  OBVIOUS
<1>2. ASSUME NEW b \in Block
      PROVE  /\ bm2[b].type = bm[b].type /\ bm2[b].next_block = bm[b].next_block
             /\ bm2[b] \in [type : {EMPTY, USED}, next_block : Block \cup {None},
                            cells : Seq(Cell)]
             /\ Len(bm2[b].cells) <= BlockCells
  <2> DEFINE old == bm[b].cells
             seq == [k \in 1 .. Len(old) |->
                       IF b * BlockCells + k - 1 \in numbers
                       THEN [old[k] EXCEPT !.used = FALSE] ELSE old[k]]
  <2>1. bm2[b] = [bm[b] EXCEPT !.cells = seq]
    BY DEF ClearUsed
  <2>2. old \in Seq(Cell) /\ Len(old) \in Nat /\ \A k \in 1 .. Len(old) : old[k] \in Cell
    BY <1>1, LenProperties, ElementOfSeq DEF BlockTable
  <2>3. \A k \in 1 .. Len(old) : seq[k] \in Cell
    <3> TAKE k \in 1 .. Len(old)
    <3> HIDE DEF old
    <3>1. old[k] \in Cell
      BY <2>2
    <3>2. [old[k] EXCEPT !.used = FALSE] \in Cell
      BY <3>1 DEF Cell
    <3> QED BY <3>1, <3>2
  <2>4. seq \in Seq(Cell) /\ Len(seq) = Len(old)
    <3>1. seq \in [1 .. Len(old) -> Cell]
      BY <2>3
    <3> HIDE DEF seq, old
    <3> QED BY <2>2, <3>1
  <2>5. bm[b] \in [type : {EMPTY, USED}, next_block : Block \cup {None}, cells : Seq(Cell)]
    BY <1>1 DEF BlockTable
  <2>6. Len(old) <= BlockCells
    BY <1>1
  <2> HIDE DEF seq, old, bm2
  <2> QED BY <2>1, <2>4, <2>5, <2>6
<1>3. BlockTable(bm2)
  BY <1>2 DEF BlockTable, ClearUsed
<1> QED BY <1>2, <1>3

(* So the tables stay consistent.                                          *)
LEMMA ClearConsistent ==
  ASSUME NEW im, NEW bm, NEW inodes, NEW blocks, Consistent(im, bm, inodes, blocks),
         NEW numbers
  PROVE  /\ Consistent(im, ClearUsed(bm, numbers), inodes, blocks)
         /\ \A b \in Block : ClearUsed(bm, numbers)[b].next_block = bm[b].next_block
<1>1. InodeTable(im) /\ BlockTable(bm) /\ \A b \in Block : Len(bm[b].cells) <= BlockCells
  BY DEF Consistent, WellLinked
<1> QED BY <1>1, ClearTypes, ContentsConsistent

(* A new file system holds the root, with one empty block.                 *)
LEMMA InitConsistent ==
  ASSUME Init
  PROVE  Consistent(inode_map, block_map, used_inode_count, used_block_count)
<1>1. 0 \in Inode /\ 0 \in Block
  BY SizesAssumption DEF Inode, Block
<1>2. InodeTable(inode_map) /\ BlockTable(block_map)
  <2>1. InodeTable(inode_map)
    BY <1>1 DEF Init, InodeTable, FreeInodeRec, EMPTY, FILE, DIR
  <2>2. NewBlockRec.cells \in Seq(Cell) /\ FreeBlockRec.cells \in Seq(Cell)
    BY DEF NewBlockRec, FreeBlockRec
  <2>3. BlockTable(block_map)
    BY <1>1, <2>2 DEF Init, BlockTable, NewBlockRec, FreeBlockRec, EMPTY, USED, None
  <2> QED BY <2>1, <2>3
<1>3. \A i \in Inode : Alive(inode_map, i) <=> i = 0
  BY <1>1 DEF Init, Alive, FreeInodeRec, EMPTY, DIR
<1>4. \A b \in Block : InUse(block_map, b) <=> b = 0
  BY <1>1 DEF Init, InUse, NewBlockRec, FreeBlockRec, EMPTY, USED
<1>5. LiveInodes(inode_map) = {0} /\ UsedBlocks(block_map) = {0}
  BY <1>1, <1>3, <1>4 DEF LiveInodes, UsedBlocks
<1>6. Cardinality({0}) = 1
  BY FS_Singleton
<1>7. WellLinked(inode_map, block_map)
  <2>1. inode_map[0].type = DIR /\ inode_map[0].root_block = 0
    BY <1>1 DEF Init, FreeInodeRec
  <2>2. block_map[0].next_block = None
    BY <1>1 DEF Init, NewBlockRec
  <2>3. Roots(inode_map, block_map)
    <3>1. \A i \in Inode : inode_map[i].root_block = 0
      BY <1>1 DEF Init, FreeInodeRec
    <3> QED BY <3>1, <1>1, <1>3, <1>4, <2>1 DEF Roots
  <2>4. Successors(inode_map, block_map)
    BY <1>1, <1>3, <1>4, <2>1, <2>2 DEF Successors, None
  <2>5. 0 \in Walk(block_map, 0, 0)
    <3>1. Links(block_map) /\ 0 >= 0
      BY <1>2, TablesHaveLinks
    <3> QED BY <3>1, <1>1, WalkHolds
  <2>6. Covered(inode_map, block_map)
    BY <1>1, <1>3, <1>4, <2>1, <2>2, <2>5 DEF Covered
  <2> QED BY <1>2, <2>3, <2>4, <2>6 DEF WellLinked
<1>8. \A b \in Block : Len(block_map[b].cells) <= BlockCells
  BY SizesAssumption DEF Init, NewBlockRec, FreeBlockRec
<1>9. used_inode_count = 0 /\ used_block_count = 0 /\ 0 + 1 = 1
  BY DEF Init
<1> QED BY <1>5, <1>6, <1>7, <1>8, <1>9 DEF Consistent

-----------------------------------------------------------------------------
(* The slots of a chain, and one entry more at the end of a directory.     *)

(* The slots of a chain depend on its blocks only.                         *)
LEMMA SlotsFrame ==
  ASSUME NEW bm, Links(bm), NEW bm2, Links(bm2), NEW b \in Block,
         \A x \in Walk(bm, b, 0) :
           /\ bm2[x].next_block = bm[x].next_block
           /\ Len(bm2[x].cells) = Len(bm[x].cells)
           /\ \A k \in 1 .. BlockCells : k <= Len(bm[x].cells) =>
                bm2[x].cells[k].inode = bm[x].cells[k].inode
  PROVE  /\ Slots(bm2, b) = Slots(bm, b)
         /\ \A s \in Slots(bm, b) : CellAt(bm2, s).inode = CellAt(bm, s).inode
<1>1. Walk(bm2, b, 0) = Walk(bm, b, 0)
  BY WalkFrame
<1>2. Slots(bm2, b) = Slots(bm, b)
  BY <1>1 DEF Slots
<1>3. ASSUME NEW s \in Slots(bm, b)
      PROVE  CellAt(bm2, s).inode = CellAt(bm, s).inode
  <2>1. s[1] \in Walk(bm, b, 0) /\ s[2] \in 1 .. BlockCells /\ s[2] <= Len(bm[s[1]].cells)
    BY DEF Slots
  <2> QED BY <2>1 DEF CellAt
<1> QED BY <1>2, <1>3

(* From every block of a chain its end is reached.                         *)
LEMMA ReachesEnd ==
  ASSUME NEW bm, Links(bm), NEW b \in Block,
         NEW last \in Walk(bm, b, 0), bm[last].next_block < 0
  PROVE  \A x \in Walk(bm, b, 0) : last \in Walk(bm, x, 0)
<1> DEFINE S == {x \in Walk(bm, b, 0) : last \in Walk(bm, x, 0)}
<1>1. \A x \in Block : x >= 0
  BY SizesAssumption DEF Block
<1>2. Walk(bm, b, 0) \subseteq Block
  BY WalkInBlocks
<1>3. b \in S
  BY <1>1, WalkHolds
<1>4. ASSUME NEW y \in S, bm[y].next_block >= 0
      PROVE  bm[y].next_block \in S
  <2> DEFINE z == bm[y].next_block
             T == {y} \cup Walk(bm, z, 0)
  <2>1. z \in Walk(bm, b, 0) /\ z \in Block /\ y \in Block
    BY <1>1, <1>2, <1>4, WalkHolds
  <2>2. y # last
    <3>1. z \in Int /\ z >= 0
      BY <1>4, <2>1, SizesAssumption DEF Block
    <3> QED BY <3>1
  <2>3. Walk(bm, y, 0) \subseteq T
    <3>1. z \in T /\ y \in T
      BY <2>1, <1>1, WalkHolds
    <3>2. T \in SUBSET Block
      BY <2>1, WalkInBlocks
    <3>3. \A v \in T : bm[v].next_block >= 0 => bm[v].next_block \in T
      BY <3>1, <2>1, <1>1, WalkHolds
    <3> HIDE DEF T
    <3> QED BY <3>1, <3>2, <3>3, WalkLeast
  <2> QED BY <2>1, <2>2, <2>3, <1>4
<1>5. Walk(bm, b, 0) \subseteq S
  <2>1. S \in SUBSET Block
    BY <1>2
  <2> HIDE DEF S
  <2> QED BY <1>3, <1>4, <2>1, WalkLeast
<1> QED BY <1>5

(* An entry needs a new block only when the last one is full.              *)
LEMMA EntryNeeds ==
  ASSUME NEW bm, NEW last, Len(bm[last].cells) \in Nat, Len(bm[last].cells) <= BlockCells
  PROVE  BlocksNeeded(bm, last, 1) = IF Len(bm[last].cells) < BlockCells THEN 0 ELSE 1
<1> DEFINE room == BlockCells - Len(bm[last].cells)
<1>1. room \in Nat /\ BlockCells \in Nat \ {0} /\ (room = 0 <=> ~ Len(bm[last].cells) < BlockCells)
  BY SizesAssumption
<1> HIDE DEF room
<1>2. BlocksNeeded(bm, last, 1) = IF 1 <= room THEN 0 ELSE (1 - room + BlockCells - 1) \div BlockCells
  BY DEF BlocksNeeded, room
<1>3. CASE room = 0
  <2>1. 1 - room + BlockCells - 1 = BlockCells
    BY <1>1, <1>3
  <2>2. BlockCells \div BlockCells = 1
    BY <1>1
  <2> QED BY <1>1, <1>2, <1>3, <2>1, <2>2
<1>4. CASE room # 0
  BY <1>1, <1>2, <1>4
<1> QED BY <1>3, <1>4

(* minifs_append_data on the chain of inode i; with an entry; and where    *)
(* the entry is then, in the last block or alone in a new one.             *)
Appending(im, bm, i, last, data, used, n, nb, bm2) ==
  /\ WellLinked(im, bm) /\ \A b \in Block : Len(bm[b].cells) <= BlockCells
  /\ i \in Inode /\ Alive(im, i) /\ last \in LastBlocks(bm, im[i].root_block)
  /\ data \in Seq(Cell) /\ n \in Nat /\ nb \in NewBlocks(bm, used, n)
  /\ bm2 = Appended(bm, last, data, nb)

Entering(im, bm, d, last, e, used, nb, bm2) ==
  /\ e \in Cell
  /\ Appending(im, bm, d, last, <<e>>, used, BlocksNeeded(bm, last, 1), nb, bm2)

Landed(bm, last, e, nb, bm2) ==
  \/ /\ BlocksNeeded(bm, last, 1) = 0
     /\ Len(bm[last].cells) < BlockCells
     /\ bm2[last].cells = bm[last].cells \o <<e>>
  \/ /\ BlocksNeeded(bm, last, 1) = 1
     /\ bm2[last].cells = bm[last].cells
     /\ bm2[nb[1]].cells = <<e>>

(* A sequence with one more element.                                       *)
LEMMA OneMore ==
  ASSUME NEW s \in Seq(Cell), NEW e \in Cell, NEW new, new = s \o <<e>>
  PROVE  /\ Len(new) = Len(s) + 1 /\ new[Len(s) + 1] = e
         /\ \A k \in 1 .. Len(s) : new[k] = s[k]
<1> DEFINE one == <<e>>
<1>1. one \in Seq(Cell) /\ Len(one) = 1 /\ one[1] = e /\ Len(s) \in Nat
  BY LenProperties
<1> HIDE DEF one
<1>2. /\ Len(s \o one) = Len(s) + Len(one)
      /\ \A k \in 1 .. Len(s) + Len(one) :
           (s \o one)[k] = IF k <= Len(s) THEN s[k] ELSE one[k - Len(s)]
  BY <1>1, ConcatProperties
<1>3. new = s \o one
  BY DEF one
<1> QED BY <1>1, <1>2, <1>3

(* The whole of a sequence of one.                                         *)
LEMMA SubSeqOfOne ==
  ASSUME NEW e
  PROVE  SubSeq(<<e>>, 1, 1) = <<e>>
<1>1. /\ SubSeq(<<e>>, 1, 1) \in Seq({e})
      /\ Len(SubSeq(<<e>>, 1, 1)) = 1
      /\ SubSeq(<<e>>, 1, 1)[1] = e
  <2>1. 1 \in Int /\ \A k \in 1 .. 1 : <<e>>[k] \in {e}
    OBVIOUS
  <2> QED BY <2>1, SubSeqProperties
<1>2. <<e>> \in Seq({e}) /\ Len(<<e>>) = 1 /\ <<e>>[1] = e
  OBVIOUS
<1> DEFINE sub == SubSeq(<<e>>, 1, 1)
           one == <<e>>
<1>3. sub \in Seq({e}) /\ one \in Seq({e}) /\ Len(sub) = Len(one)
      /\ \A k \in 1 .. Len(sub) : sub[k] = one[k]
  BY <1>1, <1>2
<1> HIDE DEF sub, one
<1>4. sub = one
  BY <1>3, SeqEqual
<1> QED BY <1>4 DEF sub, one

(* The append puts the entry there.                                        *)
LEMMA EntryAppended ==
  ASSUME NEW im, NEW bm, NEW d, NEW last, NEW e, NEW used, NEW nb, NEW bm2,
         Entering(im, bm, d, last, e, used, nb, bm2)
  PROVE  Landed(bm, last, e, nb, bm2)
<1> DEFINE n == BlocksNeeded(bm, last, 1)
           old == bm[last].cells
           room == BlockCells - Len(old)
           upto(k) == room + k * BlockCells
           piece(from, to) ==
             SubSeq(<<e>>, from, IF to < Len(<<e>>) THEN to ELSE Len(<<e>>))
           position(b) == CHOOSE j \in 1 .. n : nb[j] = b
<1>0. /\ BlockTable(bm) /\ \A c \in Block : Len(bm[c].cells) <= BlockCells
      /\ last \in Block /\ InUse(bm, last)
      /\ e \in Cell /\ n \in Nat /\ nb \in NewBlocks(bm, used, n)
      /\ bm2 = Appended(bm, last, <<e>>, nb)
  BY WalkInUse DEF Entering, Appending, LastBlocks, WellLinked
<1>1. old \in Seq(Cell) /\ Len(old) \in Nat /\ Len(old) <= BlockCells
      /\ BlockCells \in Nat \ {0}
      /\ bm[last] \in [type : {EMPTY, USED}, next_block : Block \cup {None}, cells : Seq(Cell)]
  BY <1>0, LenProperties, SizesAssumption DEF BlockTable
<1>2. n = IF Len(old) < BlockCells THEN 0 ELSE 1
  BY <1>1, EntryNeeds
<1>3. n \in Nat /\ Len(<<e>>) = 1
  BY <1>2
<1>4. Len(nb) = n /\ \A k \in 1 .. n : nb[k] \in Block /\ nb[k] # last
  BY <1>0, <1>3, NewBlocksAreFree DEF Fresh, InUse, EMPTY, USED
<1>5. bm2[last].cells = old \o piece(1, room)
  <2>1. bm2[last] = [bm[last] EXCEPT
                      !.cells = @ \o piece(1, room),
                      !.next_block = IF Len(nb) = 0 THEN @ ELSE nb[1]]
    BY <1>0 DEF Appended
  <2> HIDE DEF piece, room
  <2> QED BY <2>1, <1>1
<1>6. CASE Len(old) < BlockCells
  <2>1. room \in Nat /\ room >= 1
    BY <1>1, <1>6
  <2>2. piece(1, room) = <<e>>
    <3>1. (IF room < Len(<<e>>) THEN room ELSE Len(<<e>>)) = 1
      BY <2>1, <1>3
    <3>2. SubSeq(<<e>>, 1, 1) = <<e>>
      BY SubSeqOfOne
    <3> QED BY <3>1, <3>2
  <2> QED BY <1>2, <1>5, <1>6, <2>2 DEF Landed
<1>7. CASE ~ Len(old) < BlockCells
  <2>1. room = 0 /\ n = 1
    BY <1>1, <1>2, <1>7
  <2>2. piece(1, room) = << >>
    <3>1. (IF room < Len(<<e>>) THEN room ELSE Len(<<e>>)) = 0
      BY <2>1, <1>3
    <3>2. SubSeq(<<e>>, 1, 0) = << >>
      OBVIOUS
    <3> QED BY <3>1, <3>2
  <2>3. old \o << >> = old
    BY <1>1
  <2>4. nb[1] \in Block /\ nb[1] # last /\ Len(nb) = 1
    BY <1>4, <2>1
  <2>5. position(nb[1]) = 1
    BY <2>1
  <2>6. bm2[nb[1]] = [type |-> USED, next_block |-> None,
                      cells |-> piece(upto(0) + 1, upto(1))]
    <3>1. bm2[nb[1]] = [type |-> USED,
                        next_block |-> IF position(nb[1]) < n THEN nb[position(nb[1]) + 1]
                                                              ELSE None,
                        cells |-> piece(upto(position(nb[1]) - 1) + 1, upto(position(nb[1])))]
      <4>1. \E k \in 1 .. n : nb[k] = nb[1]
        BY <2>1
      <4>2. Len(nb) = n
        BY <1>4
      <4> HIDE DEF n
      <4> QED BY <4>1, <4>2, <2>4, <1>0 DEF Appended
    <3>2. 1 - 1 = 0 /\ ~ 1 < n
      BY <2>1
    <3> HIDE DEF piece, upto, position
    <3> QED BY <3>1, <3>2, <2>5
  <2>7. piece(upto(0) + 1, upto(1)) = <<e>>
    <3>1. upto(0) = 0 /\ upto(1) = BlockCells
      BY <2>1, <1>1
    <3>2. (IF BlockCells < Len(<<e>>) THEN BlockCells ELSE Len(<<e>>)) = 1
      BY <1>1, <1>3
    <3>3. SubSeq(<<e>>, 1, 1) = <<e>>
      BY SubSeqOfOne
    <3> QED BY <3>1, <3>2, <3>3
  <2>8. bm2[nb[1]].cells = <<e>>
    <3> HIDE DEF piece, upto
    <3> QED BY <2>6, <2>7
  <2> QED BY <1>5, <2>1, <2>2, <2>3, <2>8 DEF Landed
<1> QED BY <1>6, <1>7 DEF Landed

(* The directory lists the new entry after all others, which stay as they  *)
(* were.                                                                   *)
LEMMA EntryComesLast ==
  ASSUME NEW im, NEW bm, NEW d, NEW last, NEW e, NEW used, NEW nb, NEW bm2,
         Entering(im, bm, d, last, e, used, nb, bm2)
  PROVE  \E s : /\ s \notin Slots(bm, im[d].root_block)
                /\ Slots(bm2, im[d].root_block) = Slots(bm, im[d].root_block) \cup {s}
                /\ CellAt(bm2, s) = e
                /\ \A t \in Slots(bm, im[d].root_block) :
                     CellAt(bm2, t) = CellAt(bm, t) /\ Precedes(bm2, t, s)
<1> DEFINE n == BlocksNeeded(bm, last, 1)
           b == im[d].root_block
           W == Walk(bm, b, 0)
           W2 == Walk(bm2, b, 0)
           old == bm[last].cells
<1>0. /\ WellLinked(im, bm) /\ \A c \in Block : Len(bm[c].cells) <= BlockCells
      /\ d \in Inode /\ Alive(im, d) /\ last \in LastBlocks(bm, im[d].root_block)
      /\ e \in Cell /\ n \in Nat /\ nb \in NewBlocks(bm, used, n)
      /\ bm2 = Appended(bm, last, <<e>>, nb)
  BY DEF Entering, Appending
<1>1. /\ BlockTable(bm) /\ Links(bm) /\ b \in Block /\ b >= 0 /\ W \subseteq Block
      /\ \A x \in W : InUse(bm, x)
  BY <1>0, WalkInUse, TablesHaveLinks, WalkInBlocks, SizesAssumption
  DEF WellLinked, InodeTable, Block
<1>2. last \in W /\ last \in Block /\ InUse(bm, last) /\ bm[last].next_block = None
  <2>1. last \in W /\ bm[last].next_block < 0
    BY <1>0 DEF LastBlocks
  <2> QED BY <1>1, <2>1, SizesAssumption DEF Links, Block
<1>3. /\ n \in Nat /\ (n = 0 \/ n = 1)
      /\ old \in Seq(Cell) /\ Len(old) \in Nat /\ Len(old) <= BlockCells
      /\ BlockCells \in Nat \ {0}
  <2>1. old \in Seq(Cell) /\ Len(old) \in Nat /\ Len(old) <= BlockCells
    BY <1>0, <1>1, <1>2, LenProperties DEF BlockTable
  <2>2. n = 0 \/ n = 1
    BY <2>1, EntryNeeds
  <2> QED BY <2>1, <2>2, SizesAssumption
<1> DEFINE data == <<e>>
<1>4. data \in Seq(Cell) /\ Len(data) = 1 /\ data[1] = e
  BY <1>0
<1> HIDE DEF n, data
<1>5. /\ BlockTable(bm2)
      /\ bm2[last].next_block = IF n = 0 THEN None ELSE nb[1]
      /\ \A k \in 1 .. n : bm2[nb[k]].next_block = IF k < n THEN nb[k + 1] ELSE None
      /\ \A c \in Block : c # last /\ (\A k \in 1 .. n : nb[k] # c) => bm2[c] = bm[c]
      /\ \A k \in 1 .. n : nb[k] \in Block /\ ~ InUse(bm, nb[k])
  <2>1. nb \in NewBlocks(bm, used, n) /\ bm2 = Appended(bm, last, data, nb)
    BY <1>0 DEF n, data
  <2>2. /\ BlockTable(bm2)
        /\ bm2[last].next_block = IF n = 0 THEN bm[last].next_block ELSE nb[1]
        /\ \A k \in 1 .. n :
             /\ bm2[nb[k]].type = USED
             /\ bm2[nb[k]].next_block = IF k < n THEN nb[k + 1] ELSE None
        /\ \A c \in Block : c # last /\ (\A k \in 1 .. n : nb[k] # c) => bm2[c] = bm[c]
    BY <1>0, <1>1, <1>2, <1>3, <1>4, <2>1, AppendedBlocks, NewBlocksAreFree
  <2>3. \A k \in 1 .. n : nb[k] \in Block /\ bm[nb[k]].type = EMPTY
    BY <1>3, <2>1, NewBlocksAreFree DEF Fresh
  <2> QED BY <1>2, <2>2, <2>3 DEF InUse, EMPTY, USED
<1>6. \/ /\ n = 0 /\ Len(old) < BlockCells
         /\ bm2[last].cells = old \o data
      \/ /\ n = 1 /\ bm2[last].cells = old /\ bm2[nb[1]].cells = data
  <2>1. Landed(bm, last, e, nb, bm2)
    BY EntryAppended
  <2> QED BY <2>1 DEF Landed, n, data
<1>7. Links(bm2)
  BY <1>5, TablesHaveLinks
<1>8. \A y \in W : y # last => bm2[y] = bm[y]
  BY <1>1, <1>5
<1>9. CASE n = 0
  <2> DEFINE s == <<last, Len(old) + 1>>
  <2>1. W2 = W
    <3>1. \A y \in W : bm2[y].next_block = bm[y].next_block
      BY <1>2, <1>5, <1>8, <1>9
    <3> QED BY <3>1, <1>1, <1>7, WalkFrame
  <2>2. /\ Len(old) < BlockCells
        /\ Len(bm2[last].cells) = Len(old) + 1
        /\ bm2[last].cells[Len(old) + 1] = e
        /\ \A k \in 1 .. Len(old) : bm2[last].cells[k] = old[k]
    <3>1. bm2[last].cells = old \o <<e>> /\ Len(old) < BlockCells
      BY <1>6, <1>9 DEF data
    <3> HIDE DEF old
    <3>2. old \in Seq(Cell) /\ e \in Cell
      BY <1>0, <1>3
    <3> QED BY <3>1, <3>2, OneMore
  <2>3. s \notin Slots(bm, b) /\ CellAt(bm2, s) = e
    BY <1>3, <2>2 DEF Slots, CellAt
  <2>4. Slots(bm2, b) = Slots(bm, b) \cup {s}
    <3>1. ASSUME NEW t \in W \X (1 .. BlockCells)
          PROVE  t[2] <= Len(bm2[t[1]].cells) <=> t[2] <= Len(bm[t[1]].cells) \/ t = s
      <4>1. CASE t[1] = last
        BY <1>3, <2>2, <4>1
      <4>2. CASE t[1] # last
        BY <1>8, <4>2
      <4> QED BY <4>1, <4>2
    <3>2. s \in W \X (1 .. BlockCells)
      BY <1>2, <1>3, <2>2
    <3> HIDE DEF s
    <3> QED BY <2>1, <3>1, <3>2 DEF Slots
  <2>5. ASSUME NEW t \in Slots(bm, b)
        PROVE  CellAt(bm2, t) = CellAt(bm, t) /\ Precedes(bm2, t, s)
    <3>1. t[1] \in W /\ t[2] \in 1 .. BlockCells /\ t[2] <= Len(bm[t[1]].cells)
      BY DEF Slots
    <3>2. CASE t[1] = last
      <4>1. t[2] \in 1 .. Len(old) /\ t[2] < Len(old) + 1
        BY <1>3, <3>1, <3>2
      <4>2. bm2[last].cells[t[2]] = old[t[2]]
        BY <2>2, <4>1
      <4>3. CellAt(bm2, t) = CellAt(bm, t)
        BY <3>2, <4>2 DEF CellAt
      <4> QED BY <3>2, <4>1, <4>3 DEF Precedes
    <3>3. CASE t[1] # last
      <4>1. last \in Walk(bm2, t[1], 0)
        <5>1. last \in W2 /\ t[1] \in W2 /\ bm2[last].next_block < 0
          BY <1>2, <1>5, <1>9, <2>1, <3>1 DEF None
        <5> QED BY <5>1, <1>1, <1>7, ReachesEnd
      <4>2. CellAt(bm2, t) = CellAt(bm, t)
        BY <1>8, <3>1, <3>3 DEF CellAt
      <4> QED BY <3>3, <4>1, <4>2 DEF Precedes
    <3> QED BY <3>2, <3>3
  <2> QED BY <2>3, <2>4, <2>5
<1>10. CASE n = 1
  <2> DEFINE c == nb[1]
             s == <<c, 1>>
  <2>1. /\ c \in Block /\ c \notin W /\ c >= 0 /\ bm2[c].next_block = None
        /\ bm2[last].next_block = c
        /\ bm2[last].cells = old /\ bm2[c].cells = data
    BY <1>1, <1>5, <1>6, <1>10, SizesAssumption DEF Block
  <2>2. W2 = W \cup {c}
    <3>1. W \subseteq W2
      <4>1. \A y \in W : bm[y].next_block >= 0 =>
              bm[y].next_block \in W /\ bm2[y].next_block = bm[y].next_block
        BY <1>1, <1>2, <1>8, WalkHolds DEF None
      <4>2. b \in W
        BY <1>1, WalkHolds
      <4> HIDE DEF b
      <4> QED BY <4>1, <4>2, <1>1, <1>7, WalkGrows
    <3>2. c \in W2
      BY <3>1, <2>1, <1>1, <1>2, <1>7, WalkHolds
    <3>3. W2 \subseteq W \cup {c}
      <4>1. \A y \in W \cup {c} : bm2[y].next_block >= 0 => bm2[y].next_block \in W \cup {c}
        <5> TAKE y \in W \cup {c}
        <5>1. CASE y = c
          BY <5>1, <2>1 DEF None
        <5>2. CASE y = last
          BY <5>2, <2>1
        <5>3. CASE y \in W /\ y # last
          BY <5>3, <1>1, <1>8, WalkHolds
        <5> QED BY <5>1, <5>2, <5>3
      <4>2. b \in W \cup {c} /\ W \cup {c} \in SUBSET Block
        BY <1>1, <2>1, WalkHolds
      <4> HIDE DEF c, W, b
      <4> QED BY <4>1, <4>2, WalkLeast
    <3> QED BY <3>1, <3>2, <3>3
  <2>3. s \notin Slots(bm, b) /\ CellAt(bm2, s) = e
    BY <1>4, <2>1 DEF Slots, CellAt
  <2>4. Slots(bm2, b) = Slots(bm, b) \cup {s}
    <3>1. \A y \in W : bm2[y].cells = bm[y].cells
      BY <1>8, <2>1
    <3>2. \A k \in 1 .. BlockCells : k <= Len(bm2[c].cells) <=> k = 1
      <4>1. Len(bm2[c].cells) = 1
        BY <1>4, <2>1
      <4>2. \A k \in 1 .. BlockCells : k <= 1 <=> k = 1
        BY SizesAssumption
      <4> HIDE DEF c
      <4> QED BY <4>1, <4>2
    <3>3. 1 \in 1 .. BlockCells
      BY <1>3
    <3> HIDE DEF c
    <3> QED BY <2>2, <3>1, <3>2, <3>3 DEF Slots
  <2>5. ASSUME NEW t \in Slots(bm, b)
        PROVE  CellAt(bm2, t) = CellAt(bm, t) /\ Precedes(bm2, t, s)
    <3>1. t[1] \in W
      BY DEF Slots
    <3>2. CellAt(bm2, t) = CellAt(bm, t)
      BY <1>8, <2>1, <3>1 DEF CellAt
    <3>3. c \in Walk(bm2, t[1], 0)
      <4>1. c \in W2 /\ t[1] \in W2 /\ bm2[c].next_block < 0
        BY <2>1, <2>2, <3>1 DEF None
      <4> HIDE DEF c
      <4> QED BY <4>1, <1>1, <1>7, ReachesEnd
    <3> QED BY <2>1, <3>1, <3>2, <3>3 DEF Precedes
  <2> QED BY <2>3, <2>4, <2>5
<1> QED BY <1>3, <1>9, <1>10

(* The blocks of other inodes an append leaves alone.                      *)
LEMMA AppendSpares ==
  ASSUME NEW im, NEW bm, NEW i, NEW last, NEW data, NEW used, NEW n, NEW nb, NEW bm2,
         Appending(im, bm, i, last, data, used, n, nb, bm2),
         NEW j \in Inode, Alive(im, j), j # i
  PROVE  \A x \in Walk(bm, im[j].root_block, 0) : bm2[x] = bm[x]
<1>0. /\ WellLinked(im, bm) /\ \A c \in Block : Len(bm[c].cells) <= BlockCells
      /\ i \in Inode /\ Alive(im, i) /\ last \in LastBlocks(bm, im[i].root_block)
      /\ data \in Seq(Cell) /\ n \in Nat /\ nb \in NewBlocks(bm, used, n)
      /\ bm2 = Appended(bm, last, data, nb)
  BY DEF Appending
<1>1. last \in Walk(bm, im[i].root_block, 0)
  BY <1>0 DEF LastBlocks
<1>2. last \in Block /\ InUse(bm, last)
  BY <1>0, <1>1, WalkInUse
<1>3. \A b \in Block : b # last /\ (\A k \in 1 .. n : nb[k] # b) => bm2[b] = bm[b]
  <2>1. BlockTable(bm) /\ Fresh(bm, n, nb)
    BY <1>0, NewBlocksAreFree DEF WellLinked
  <2> QED BY <2>1, <1>0, <1>2, AppendedBlocks
<1>4. \A k \in 1 .. n : ~ InUse(bm, nb[k])
  BY <1>0, NewBlocksAreFree DEF Fresh, InUse, EMPTY, USED
<1>5. \A x \in Walk(bm, im[j].root_block, 0) : x \in Block /\ InUse(bm, x) /\ x # last
  BY <1>0, <1>1, WalkInUse, WalksDisjoint
<1> QED BY <1>3, <1>4, <1>5
=============================================================================
