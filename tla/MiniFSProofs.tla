---------------------------- MODULE MiniFSProofs ----------------------------
(***************************************************************************)
(* The inductive invariant of MiniFS, and what follows from it for every   *)
(* number of inodes and blocks, every block size and all the names and     *)
(* texts a user may type.  The second half is about the tree of            *)
(* directories, which only a user who removes leaves keeps.                *)
(***************************************************************************)
EXTENDS MiniFSChains

Shell == current_dir \in Inode \cup {None} /\ reply \in Replies

IInv ==
  /\ Consistent(inode_map, block_map, used_inode_count, used_block_count)
  /\ Shell
  /\ RefusedOnlyWhenFull

-----------------------------------------------------------------------------
(* Commands.                                                               *)

(* What a lookup finds is an inode in use, and not the root.               *)
LEMMA FoundInode ==
  ASSUME IInv, NEW name, NEW type \in {FILE, DIR}, NEW s \in Matches(name, type)
  PROVE  /\ EntryAt(s).inode \in Inode /\ EntryAt(s).inode # 0
         /\ Alive(inode_map, EntryAt(s).inode)
BY FoundEntry DEF IInv, Consistent, WellLinked

Quiet == {"no inodes", "no blocks"}

(* What has to be shown of a command that does not refuse for want of      *)
(* room.                                                                   *)
LEMMA TablesKept ==
  ASSUME Consistent(inode_map', block_map', used_inode_count', used_block_count'),
         current_dir' \in Inode \cup {None}, reply' \in Replies \ Quiet
  PROVE  IInv'
BY DEF IInv, Shell, RefusedOnlyWhenFull, Quiet

(* A command that changes neither table keeps the invariant.               *)
LEMMA NothingChanged ==
  ASSUME IInv, UNCHANGED tables,
         current_dir' \in Inode \cup {None}, reply' \in Replies \ Quiet
  PROVE  IInv'
BY TablesKept DEF IInv, tables

(* So does one that only prints.                                           *)
LEMMA SaidSomething ==
  ASSUME IInv, NEW r \in Replies \ Quiet, Say(r)
  PROVE  IInv'
BY NothingChanged DEF Say, IInv, Shell

(* A command that dies leaves the tables of the disk with bodies bm.       *)
LEMMA Died ==
  ASSUME IInv, NEW bm, Die(bm),
         Consistent(inode_map, bm, used_inode_count, used_block_count)
  PROVE  IInv'
BY TablesKept DEF Die, IInv, Shell, Replies, Stopped, Quiet

(* A command may die before it has written any body.                       *)
LEMMA DiedAtOnce ==
  ASSUME IInv, Die(block_map)
  PROVE  IInv'
BY Died DEF IInv

(* mkdir and touch, once they have an inode and a block: the records are   *)
(* written, the entry is appended, the directory grows.                    *)
LEMMA CreateStep ==
  ASSUME IInv, InDir, NEW name \in Names, NEW type \in {FILE, DIR},
         NEW parent \in Inode \cup {None},
         NEW i \in Lowest(FreeInodes), NEW b \in Lowest(FreeBlocks(block_map, used_block_count)),
         CreateWith(name, type, parent, i, b)
  PROVE  IInv'
<1> DEFINE rec == [type |-> type, root_block |-> b, parent |-> parent, size |-> 0]
           im == [inode_map EXCEPT ![i] = rec]
           bm == [block_map EXCEPT ![b] = NewBlockRec]
           used == used_block_count + 1
<1>1. i \in Inode /\ ~ Alive(inode_map, i)
  BY DEF Lowest, FreeInodes, Live, Alive
<1>2. b \in Block /\ ~ InUse(block_map, b)
  BY DEF Lowest, FreeBlocks, InUse, EMPTY, USED
<1>3. InodeTable(inode_map)
  BY DEF IInv, Consistent, WellLinked
<1>4. InodeTable(im)
  BY <1>2, <1>3 DEF InodeTable
<1>5. Consistent(im, bm, used_inode_count + 1, used)
  <2>1. rec.type \in {FILE, DIR} /\ rec.root_block = b
    OBVIOUS
  <2>2. Consistent(inode_map, block_map, used_inode_count, used_block_count)
    BY DEF IInv
  <2> HIDE DEF rec
  <2> QED BY <2>1, <2>2, <1>1, <1>2, <1>4, MakeConsistent
<1>6. CreateWith(name, type, parent, i, b) =
        \E last \in LastBlocks(bm, im[current_dir].root_block) :
          LET n == BlocksNeeded(bm, last, 1)
          IN  \/ ~ EnoughBlocks(bm, used, n) /\ Die(block_map)
              \/ /\ EnoughBlocks(bm, used, n)
                 /\ \E nb \in NewBlocks(bm, used, n) :
                      block_map' = Appended(bm, last, <<Entry(Stored[name], i)>>, nb)
                 /\ inode_map' = [im EXCEPT ![current_dir].size = @ + 1]
                 /\ used_inode_count' = used_inode_count + 1
                 /\ used_block_count' = used + n
                 /\ reply' = "ok"
                 /\ UNCHANGED current_dir
  BY DEF CreateWith
<1> HIDE DEF im, bm, used
<1>7. PICK last \in LastBlocks(bm, im[current_dir].root_block) :
        \/ Die(block_map)
        \/ /\ \E nb \in NewBlocks(bm, used, BlocksNeeded(bm, last, 1)) :
                block_map' = Appended(bm, last, <<Entry(Stored[name], i)>>, nb)
           /\ inode_map' = [im EXCEPT ![current_dir].size = @ + 1]
           /\ used_inode_count' = used_inode_count + 1
           /\ used_block_count' = used + BlocksNeeded(bm, last, 1)
           /\ reply' = "ok"
           /\ UNCHANGED current_dir
  BY <1>6
<1>8. CASE Die(block_map)
  BY <1>8, DiedAtOnce
<1>9. CASE /\ \E nb \in NewBlocks(bm, used, BlocksNeeded(bm, last, 1)) :
                block_map' = Appended(bm, last, <<Entry(Stored[name], i)>>, nb)
           /\ inode_map' = [im EXCEPT ![current_dir].size = @ + 1]
           /\ used_inode_count' = used_inode_count + 1
           /\ used_block_count' = used + BlocksNeeded(bm, last, 1)
           /\ reply' = "ok"
           /\ UNCHANGED current_dir
  <2> DEFINE n == BlocksNeeded(bm, last, 1)
             data == <<Entry(Stored[name], i)>>
  <2>1. current_dir \in Inode
    BY DEF InDir
  <2>2. data \in Seq(Cell)
    <3>1. i # 0
      BY <1>1, CountersInRange DEF IInv
    <3>2. Stored[name] \in Names
      BY InputAssumption
    <3>3. Entry(Stored[name], i) \in Cell
      BY <3>1, <3>2, <1>1 DEF Entry, Cell
    <3> QED BY <3>3
  <2>3. n \in Nat
    <3>1. BlockTable(bm) /\ \A c \in Block : Len(bm[c].cells) <= BlockCells
      BY <1>5 DEF Consistent, WellLinked
    <3>2. im[current_dir].root_block \in Block
      BY <1>4, <2>1 DEF InodeTable
    <3> QED BY <3>1, <3>2, LastBlocksType
  <2>4. PICK nb \in NewBlocks(bm, used, n) : block_map' = Appended(bm, last, data, nb)
    BY <1>9
  <2> HIDE DEF n, data
  <2>5. Consistent(im, block_map', used_inode_count + 1, used + n)
    BY <2>1, <2>2, <2>3, <2>4, <1>5, AppendConsistent, NewBlocksAreFree, Zenon
  <2>6. InodeTable(inode_map')
    BY <2>1, <1>4, <1>9 DEF InodeTable
  <2>7. \A j \in Inode : /\ inode_map'[j].type = im[j].type
                         /\ inode_map'[j].root_block = im[j].root_block
    BY <2>1, <1>4, <1>9 DEF InodeTable
  <2>8. BlockTable(block_map') /\ \A c \in Block : Len(block_map'[c].cells) <= BlockCells
    BY <2>5 DEF Consistent, WellLinked
  <2>9. Consistent(inode_map', block_map', used_inode_count + 1, used + n)
    BY <2>5, <2>6, <2>7, <2>8, ContentsConsistent
  <2>10. Consistent(inode_map', block_map', used_inode_count', used_block_count')
    BY <2>9, <1>9 DEF n
  <2>11. current_dir' \in Inode \cup {None} /\ reply' \in Replies \ Quiet
    BY <2>1, <1>9 DEF Replies, Quiet
  <2> QED BY <2>10, <2>11, TablesKept
<1> QED BY <1>7, <1>8, <1>9

(* The refusals of mkdir and touch are justified: the counters are below   *)
(* the sizes of the tables, so only a full table makes a search fail.      *)
LEMMA CreateKeeps ==
  ASSUME IInv, NEW name \in Names, NEW type \in {FILE, DIR},
         NEW parent, InDir => parent \in Inode \cup {None},
         Create(name, type, parent)
  PROVE  IInv'
<1> DEFINE free == FreeBlocks(block_map, used_block_count)
<1>1. used_inode_count \in 0 .. InodeCount - 1 /\ used_block_count \in 0 .. BlockCount - 1
  BY CountersInRange DEF IInv
<1>2. CASE Say("too long")
  BY <1>2, SaidSomething DEF Replies, Refusals, Quiet
<1>3. CASE FreeInodes = {} /\ Say("no inodes")
  <2>1. \A i \in Inode : Live(i)
    BY <1>1, <1>3 DEF FreeInodes
  <2> QED BY <1>3, <2>1 DEF IInv, Shell, RefusedOnlyWhenFull, Say, tables, Live,
                          Replies, Refusals
<1>4. CASE free = {} /\ Say("no blocks")
  <2>1. \A b \in Block : block_map[b].type = USED
    <3>1. \A b \in Block : block_map[b].type # EMPTY
      BY <1>1, <1>4 DEF FreeBlocks
    <3>2. \A b \in Block : block_map[b].type \in {EMPTY, USED}
      BY DEF IInv, Consistent, WellLinked, BlockTable
    <3> QED BY <3>1, <3>2
  <2> QED BY <1>4, <2>1 DEF IInv, Shell, RefusedOnlyWhenFull, Say, tables,
                          Replies, Refusals
<1>5. CASE Die(block_map)
  BY <1>5, DiedAtOnce
<1>6. CASE InDir /\ \E i \in Lowest(FreeInodes), b \in Lowest(free) :
                     CreateWith(name, type, parent, i, b)
  BY <1>6, CreateStep
<1> QED BY <1>2, <1>3, <1>4, <1>5, <1>6 DEF Create

(* rm and rmdir free an inode they have found.                             *)
LEMMA FreeStep ==
  ASSUME IInv, NEW i \in Inode, i # 0, Alive(inode_map, i),
         NEW bm, Consistent(inode_map, bm, used_inode_count, used_block_count),
         \A b \in Block : bm[b].next_block = block_map[b].next_block,
         FreeInode(i, bm)
  PROVE  IInv'
<1> DEFINE freed == FreedChain(i)
<1>1. WellLinked(inode_map, block_map) /\ WellLinked(inode_map, bm)
  BY DEF IInv, Consistent
<1>2. inode_map[i].root_block \in Block /\ Links(block_map) /\ Links(bm)
  BY <1>1, TablesHaveLinks DEF WellLinked, InodeTable
<1>3. freed = Walk(block_map, inode_map[i].root_block, 0)
  BY <1>1, FreedIsWalk DEF FreedChain
<1>4. freed = Walk(bm, inode_map[i].root_block, 0)
  BY <1>2, <1>3, WalkFrame, WalkInBlocks
<1>5. Released(i, bm, freed, 1, Cardinality(freed))
  BY DEF FreeInode
<1> HIDE DEF freed
<1>6. Consistent([inode_map EXCEPT ![i] = FreeInodeRec],
                 [b \in Block |-> IF b \in freed THEN FreeBlockRec ELSE bm[b]],
                 used_inode_count - 1, used_block_count - Cardinality(freed))
  BY <1>4, FreeConsistent
<1>7. Consistent(inode_map', block_map', used_inode_count', used_block_count')
  BY <1>5, <1>6 DEF Released
<1>8. current_dir' \in Inode \cup {None} /\ reply' \in Replies \ Quiet
  BY <1>5 DEF Released, IInv, Shell, Replies, Quiet
<1> QED BY <1>7, <1>8, TablesKept

(* The loop of rm and rmdir that clears every match.                       *)
LEMMA MatchesClearedConsistent ==
  ASSUME IInv, NEW name, NEW type
  PROVE  /\ Consistent(inode_map, MatchesCleared(name, type),
                       used_inode_count, used_block_count)
         /\ \A b \in Block : MatchesCleared(name, type)[b].next_block = block_map[b].next_block
BY ClearConsistent DEF IInv, MatchesCleared

(* A command that cannot read the current directory changes nothing.       *)
LEMMA ReadDirDiesKeeps ==
  ASSUME IInv, ReadDirDies
  PROVE  IInv'
BY DiedAtOnce DEF ReadDirDies

(* rmdir: dies, finds nothing, or frees what it found last.                *)
LEMMA RmdirKeeps ==
  ASSUME IInv, NEW name \in Names, Rmdir(name)
  PROVE  IInv'
<1>1. CASE ReadDirDies
  BY <1>1, ReadDirDiesKeeps
<1>2. CASE Die(MatchesCleared(name, DIR))
  BY <1>2, MatchesClearedConsistent, Died
<1>3. CASE Say("not found")
  BY <1>3, SaidSomething DEF Replies, Refusals, Quiet
<1>4. ASSUME NEW s \in Latest(Matches(name, DIR)),
             FreeInode(EntryAt(s).inode, MatchesCleared(name, DIR))
      PROVE  IInv'
  <2>1. s \in Matches(name, DIR)
    BY DEF Latest
  <2>2. /\ EntryAt(s).inode \in Inode /\ EntryAt(s).inode # 0
        /\ Alive(inode_map, EntryAt(s).inode)
    BY <2>1, FoundInode
  <2> QED BY <1>4, <2>2, MatchesClearedConsistent, FreeStep
<1> QED BY <1>1, <1>2, <1>3, <1>4 DEF Rmdir

(* rm: the same, after minifs_remove_from_dir with whatever index.         *)
LEMMA RmKeeps ==
  ASSUME IInv, NEW name \in Names, Rm(name)
  PROVE  IInv'
<1> DEFINE bm == MatchesCleared(name, FILE)
<1>0. /\ Consistent(inode_map, bm, used_inode_count, used_block_count)
      /\ \A b \in Block : bm[b].next_block = block_map[b].next_block
  BY MatchesClearedConsistent
<1> HIDE DEF bm
<1>1. CASE ReadDirDies
  BY <1>1, ReadDirDiesKeeps
<1>2. CASE Die(bm)
  BY <1>0, <1>2, Died
<1>3. CASE Say("not found")
  BY <1>3, SaidSomething DEF Replies, Refusals, Quiet
<1>4. ASSUME NEW s \in Latest(Matches(name, FILE)), NEW numbers,
             FreeInode(EntryAt(s).inode, ClearUsed(bm, numbers))
      PROVE  IInv'
  <2>1. s \in Matches(name, FILE)
    BY DEF Latest
  <2>2. /\ EntryAt(s).inode \in Inode /\ EntryAt(s).inode # 0
        /\ Alive(inode_map, EntryAt(s).inode)
    BY <2>1, FoundInode
  <2>3. /\ Consistent(inode_map, ClearUsed(bm, numbers), used_inode_count, used_block_count)
        /\ \A b \in Block : ClearUsed(bm, numbers)[b].next_block = block_map[b].next_block
    BY <1>0, ClearConsistent
  <2> QED BY <1>4, <2>2, <2>3, FreeStep
<1> QED BY <1>1, <1>2, <1>3, <1>4 DEF Rm, bm
(* write appends to the chain of a live inode and changes the size of that *)
(* inode only.                                                             *)
LEMMA WriteToKeeps ==
  ASSUME IInv, NEW i \in Inode, NEW data \in Inputs, WriteTo(i, data)
  PROVE  IInv'
<1>1. PICK last \in LastBlocks(block_map, inode_map[i].root_block) :
        \/ Die(block_map)
        \/ /\ \E nb \in NewBlocks(block_map, used_block_count,
                                  BlocksNeeded(block_map, last, Len(data))) :
                block_map' = Appended(block_map, last, data, nb)
           /\ used_block_count' =
                used_block_count + BlocksNeeded(block_map, last, Len(data))
           /\ \E len \in FreedLengths \cup {Len(data)} :
                inode_map' = [inode_map EXCEPT ![i].size = @ + len]
           /\ reply' = "ok"
           /\ UNCHANGED <<used_inode_count, current_dir>>
  BY DEF WriteTo
<1>2. CASE Die(block_map)
  BY <1>2, DiedAtOnce
<1>3. CASE /\ \E nb \in NewBlocks(block_map, used_block_count,
                                  BlocksNeeded(block_map, last, Len(data))) :
                block_map' = Appended(block_map, last, data, nb)
           /\ used_block_count' =
                used_block_count + BlocksNeeded(block_map, last, Len(data))
           /\ \E len \in FreedLengths \cup {Len(data)} :
                inode_map' = [inode_map EXCEPT ![i].size = @ + len]
           /\ reply' = "ok"
           /\ UNCHANGED <<used_inode_count, current_dir>>
  <2> DEFINE n == BlocksNeeded(block_map, last, Len(data))
  <2>1. data \in Seq(Cell) /\ Len(data) \in Nat
    BY InputsAreCells
  <2>2. /\ InodeTable(inode_map) /\ BlockTable(block_map)
        /\ \A b \in Block : Len(block_map[b].cells) <= BlockCells
    BY DEF IInv, Consistent, WellLinked
  <2>3. n \in Nat
    <3>1. inode_map[i].root_block \in Block
      BY <2>2 DEF InodeTable
    <3> QED BY <3>1, <2>1, <2>2, LastBlocksType
  <2>4. PICK nb \in NewBlocks(block_map, used_block_count, n) :
          block_map' = Appended(block_map, last, data, nb)
    BY <1>3
  <2> HIDE DEF n
  <2>5. Consistent(inode_map, block_map', used_inode_count, used_block_count + n)
    <3>1. Consistent(inode_map, block_map, used_inode_count, used_block_count)
      BY DEF IInv
    <3> QED BY <3>1, <2>1, <2>3, <2>4, AppendConsistent, NewBlocksAreFree, Zenon
  <2>6. PICK len \in FreedLengths \cup {Len(data)} :
          inode_map' = [inode_map EXCEPT ![i].size = @ + len]
    BY <1>3
  <2>7. len \in Nat
    BY <2>1, InputAssumption
  <2>8. InodeTable(inode_map')
    BY <2>2, <2>6, <2>7 DEF InodeTable
  <2>9. \A j \in Inode : /\ inode_map'[j].type = inode_map[j].type
                         /\ inode_map'[j].root_block = inode_map[j].root_block
    BY <2>2, <2>6 DEF InodeTable
  <2>10. BlockTable(block_map') /\ \A c \in Block : Len(block_map'[c].cells) <= BlockCells
    BY <2>5 DEF Consistent, WellLinked
  <2>11. Consistent(inode_map', block_map', used_inode_count, used_block_count + n)
    BY <2>5, <2>8, <2>9, <2>10, ContentsConsistent
  <2>12. Consistent(inode_map', block_map', used_inode_count', used_block_count')
    BY <2>11, <1>3 DEF n
  <2>13. current_dir' \in Inode \cup {None} /\ reply' \in Replies \ Quiet
    BY <1>3 DEF IInv, Shell, Replies, Quiet
  <2> QED BY <2>12, <2>13, TablesKept
<1> QED BY <1>1, <1>2, <1>3

(* write: dies, finds nothing, or appends to what it found last.           *)
LEMMA WriteKeeps ==
  ASSUME IInv, NEW name \in Names, NEW data \in Inputs, Write(name, data)
  PROVE  IInv'
<1>1. CASE ReadDirDies
  BY <1>1, ReadDirDiesKeeps
<1>2. CASE Die(block_map)
  BY <1>2, DiedAtOnce
<1>3. CASE Say("not found")
  BY <1>3, SaidSomething DEF Replies, Refusals, Quiet
<1>4. ASSUME NEW s \in Latest(Matches(name, FILE)), WriteTo(EntryAt(s).inode, data)
      PROVE  IInv'
  <2>1. s \in Matches(name, FILE)
    BY DEF Latest
  <2>2. EntryAt(s).inode \in Inode
    BY <2>1, FoundInode
  <2> QED BY <1>4, <2>2, WriteToKeeps
<1> QED BY <1>1, <1>2, <1>3, <1>4 DEF Write

(* read changes neither table.                                             *)
LEMMA ReadKeeps ==
  ASSUME IInv, NEW name \in Names, Read(name)
  PROVE  IInv'
<1>1. CASE ReadDirDies
  BY <1>1, ReadDirDiesKeeps
<1>2. CASE Die(block_map)
  BY <1>2, DiedAtOnce
<1>3. CASE Say("not found")
  BY <1>3, SaidSomething DEF Replies, Refusals, Quiet
<1>4. ASSUME NEW i, ReadFrom(i)
      PROVE  IInv'
  <2>1. CASE Die(block_map)
    BY <2>1, DiedAtOnce
  <2>2. ASSUME NEW r \in {"data", "garbage", "short"}, Say(r)
        PROVE  IInv'
    BY <2>2, SaidSomething DEF Replies, Stopped, Refusals, Quiet
  <2> QED BY <1>4, <2>1, <2>2 DEF ReadFrom
<1> QED BY <1>1, <1>2, <1>3, <1>4 DEF Read

(* ls changes neither table.                                               *)
LEMMA LsKeeps ==
  ASSUME IInv, Ls
  PROVE  IInv'
<1>1. CASE ReadDirDies
  BY <1>1, ReadDirDiesKeeps
<1>2. CASE Die(block_map)
  BY <1>2, DiedAtOnce
<1>3. CASE Say("ok")
  BY <1>3, SaidSomething DEF Replies, Quiet
<1> QED BY <1>1, <1>2, <1>3 DEF Ls

(* cd changes current_dir only: to the parent field of an inode, or to an  *)
(* inode it has found.                                                     *)
LEMMA CdKeeps ==
  ASSUME IInv, NEW name, Cd(name)
  PROVE  IInv'
<1>1. CASE ReadDirDies
  BY <1>1, ReadDirDiesKeeps
<1>2. CASE Die(block_map)
  BY <1>2, DiedAtOnce
<1>3. ASSUME NEW r \in {"ok", "not found"}, Say(r)
      PROVE  IInv'
  BY <1>3, SaidSomething DEF Replies, Refusals, Quiet
<1>4. CASE /\ InDir /\ current_dir' = inode_map[current_dir].parent
           /\ reply' = "ok" /\ UNCHANGED tables
  <2>1. inode_map[current_dir].parent \in Inode \cup {None}
    BY <1>4 DEF InDir, IInv, Consistent, WellLinked, InodeTable
  <2> QED BY <1>4, <2>1, NothingChanged DEF Replies, Quiet
<1>5. CASE /\ \E s \in First(Matches(name, DIR)) : current_dir' = EntryAt(s).inode
           /\ reply' = "ok" /\ UNCHANGED tables
  <2>1. PICK s \in Matches(name, DIR) : current_dir' = EntryAt(s).inode
    BY <1>5 DEF First
  <2>2. current_dir' \in Inode
    BY <2>1, FoundInode
  <2> QED BY <1>5, <2>2, NothingChanged DEF Replies, Quiet
<1> QED BY <1>1, <1>2, <1>3, <1>4, <1>5 DEF Cd, CdDotDot, CdInto

-----------------------------------------------------------------------------
(* The inductive invariant.                                                *)

(* minifs_init makes tables in which only the root and its block are used. *)
LEMMA InitIInv ==
  ASSUME Init
  PROVE  IInv
<1>1. 0 \in Inode
  BY SizesAssumption DEF Inode
<1> QED BY <1>1, InitConsistent DEF Init, IInv, Shell, RefusedOnlyWhenFull, Replies

(* Every command keeps the invariant.                                      *)
LEMMA NextKeeps ==
  ASSUME IInv, [Next]_vars
  PROVE  IInv'
<1>1. CASE Open
  <2>1. 0 \in Inode
    BY SizesAssumption DEF Inode
  <2> QED BY <1>1, <2>1, NothingChanged DEF Open, Replies, Quiet
<1>2. CASE Exit
  BY <1>2, SaidSomething DEF Exit, Replies, Stopped, Quiet
<1>3. CASE EndOfInput
  BY <1>3, DiedAtOnce DEF EndOfInput
<1>4. CASE Usage
  BY <1>4, SaidSomething DEF Usage, Replies, Refusals, Quiet
<1>5. CASE Help
  BY <1>5, SaidSomething DEF Help, Replies, Quiet
<1>6. CASE Ls
  BY <1>6, LsKeeps
<1>7. ASSUME NEW name \in Names \cup {Dot, DotDot}, Cd(name) PROVE IInv'
  BY <1>7, CdKeeps
<1>8. ASSUME NEW name \in Names, Mkdir(name) PROVE IInv'
  BY <1>8, CreateKeeps DEF Mkdir, InDir
<1>9. ASSUME NEW name \in Names, Touch(name) PROVE IInv'
  BY <1>9, CreateKeeps DEF Touch
<1>10. ASSUME NEW name \in Names, Rmdir(name) PROVE IInv'
  BY <1>10, RmdirKeeps
<1>11. ASSUME NEW name \in Names, Rm(name) PROVE IInv'
  BY <1>11, RmKeeps
<1>12. ASSUME NEW name \in Names, Read(name) PROVE IInv'
  BY <1>12, ReadKeeps
<1>13. ASSUME NEW name \in Names, NEW data \in Inputs, Write(name, data) PROVE IInv'
  BY <1>13, WriteKeeps
<1>14. CASE UNCHANGED vars
  BY <1>14 DEF vars, IInv, Shell, RefusedOnlyWhenFull, Live
<1> QED BY <1>1, <1>2, <1>3, <1>4, <1>5, <1>6, <1>7, <1>8, <1>9, <1>10, <1>11,
           <1>12, <1>13, <1>14 DEF Next

-----------------------------------------------------------------------------
(* What the invariant says of the properties.                              *)

(* A chain ends, and what IInv says of the links makes it a set of used    *)
(* blocks that meets no other chain.                                       *)
LEMMA IInvOwnership ==
  ASSUME IInv
  PROVE  Ownership
<1>1. WellLinked(inode_map, block_map)
  BY DEF IInv, Consistent
<1>2. \A i \in Inode : Live(i) <=> Alive(inode_map, i)
  BY DEF Live, Alive
<1>3. ASSUME NEW i \in Inode, Live(i)
      PROVE  /\ LastBlocks(block_map, inode_map[i].root_block) # {}
             /\ \A b \in Owned(i) : block_map[b].type = USED
  <2>1. PICK x \in Walk(block_map, inode_map[i].root_block, 0) :
          block_map[x].next_block = None
    BY <1>1, <1>2, <1>3 DEF WellLinked, Covered
  <2>2. x \in LastBlocks(block_map, inode_map[i].root_block)
    BY <2>1 DEF LastBlocks, None
  <2>3. \A b \in Owned(i) : block_map[b].type = USED
    BY <1>1, <1>2, <1>3, WalkInUse DEF Owned, InUse
  <2> QED BY <2>2, <2>3
<1>4. ASSUME NEW i \in Inode, NEW j \in Inode, i # j, Live(i), Live(j)
      PROVE  Owned(i) \cap Owned(j) = {}
  BY <1>1, <1>2, <1>4, WalksDisjoint DEF Owned
<1>5. ASSUME NEW b \in Block, block_map[b].type = USED
      PROVE  \E i \in Inode : Live(i) /\ b \in Owned(i)
  BY <1>1, <1>2, <1>5 DEF WellLinked, Covered, InUse, Owned
<1> QED BY <1>3, <1>4, <1>5 DEF Ownership

(* The invariant gives every variable its type; the ranges of the counters *)
(* follow from what they count.                                            *)
LEMMA IInvTypeOK ==
  ASSUME IInv
  PROVE  TypeOK
<1>1. /\ used_inode_count \in 0 .. InodeCount - 1
      /\ used_block_count \in 0 .. BlockCount - 1
  BY CountersInRange DEF IInv
<1>2. InodeTable(inode_map) /\ BlockTable(block_map)
  BY DEF IInv, Consistent, WellLinked
<1>3. \A b \in Block : Len(block_map[b].cells) <= BlockCells
  BY DEF IInv, Consistent
<1> QED BY <1>1, <1>2, <1>3 DEF TypeOK, IInv, Shell, InodeTable, BlockTable

(* The counters count what Accounting says they do.                        *)
LEMMA IInvAccounting ==
  ASSUME IInv
  PROVE  Accounting
<1>1. LiveInodes(inode_map) = {i \in Inode : Live(i)}
  BY DEF LiveInodes, Live, Alive
<1>2. UsedBlocks(block_map) = {b \in Block : block_map[b].type = USED}
  BY DEF UsedBlocks, InUse
<1> QED BY <1>1, <1>2 DEF IInv, Consistent, Accounting

-----------------------------------------------------------------------------
(* Theorems.                                                               *)

(* The inductive invariant holds in every state of every behaviour: no     *)
(* command, refused, failed half way or completed, leaves tables that      *)
(* disagree with the counters or with each other.                          *)
THEOREM Invariance == Spec => []IInv
<1>1. Init => IInv
  BY InitIInv
<1>2. IInv /\ [Next]_vars => IInv'
  BY NextKeeps
<1> QED BY <1>1, <1>2, PTL DEF Spec

(* Every field keeps its type, no block overflows, and the counters never  *)
(* leave 0 .. count - 1: unsigned subtraction in rm and rmdir never wraps. *)
THEOREM Typing == Spec => []TypeOK
<1>1. IInv => TypeOK
  BY IInvTypeOK
<1> QED BY <1>1, Invariance, PTL

(* The counters that find_free_inode and find_free_block trust are exact,  *)
(* whatever sequence of commands, failures and restarts came before.       *)
THEOREM ExactCounters == Spec => []Accounting
<1>1. IInv => Accounting
  BY IInvAccounting
<1> QED BY <1>1, Invariance, PTL

(* Chains are private, finite and cover the used blocks: minifs_append_data *)
(* never writes into another file's block, rm and rmdir free no block of   *)
(* another inode and leak none.                                            *)
THEOREM PrivateChains == Spec => []Ownership
<1>1. IInv => Ownership
  BY IInvOwnership
<1> QED BY <1>1, Invariance, PTL

(* "no inodes" and "no blocks" are answered only when the table is full.   *)
THEOREM HonestRefusals == Spec => []RefusedOnlyWhenFull
<1>1. IInv => RefusedOnlyWhenFull
  BY DEF IInv
<1> QED BY <1>1, Invariance, PTL

-----------------------------------------------------------------------------
(* The tree of directories.  A user who asks for rmdir of leaves only      *)
(* never loses it: the invariant says so of the tables, and of what the    *)
(* chains of directories hold.  No directory lists itself, or rmdir could  *)
(* free the one the user is in.                                            *)

Dirs(im) == {i \in Inode : im[i].type = DIR}

Tree(im) ==
  /\ \A d \in Dirs(im) : im[d].parent \in Dirs(im)
  /\ \A S \in SUBSET Dirs(im) :
       (S # {} /\ \A d \in S : im[d].parent \in S) => 0 \in S

Lists(im, bm, d) ==
  LET slots == Slots(bm, im[d].root_block)
  IN  /\ Cardinality(slots) = im[d].size
      /\ \A s \in slots : CellAt(bm, s).inode \in Inode \ {d}

Listed(im, bm) == \A d \in Dirs(im) : Lists(im, bm, d)

Shape == CurrentDirIsDirectory /\ Tree(inode_map) /\ Listed(inode_map, block_map)

TInv == IInv /\ Shape

(* mkdir hangs a new directory below an old one.                           *)
LEMMA TreeGrows ==
  ASSUME NEW im, Tree(im), NEW im2, NEW i, i \notin Dirs(im),
         Dirs(im2) = Dirs(im) \cup {i}, im2[i].parent \in Dirs(im),
         \A d \in Dirs(im) : im2[d].parent = im[d].parent
  PROVE  Tree(im2)
<1>1. \A d \in Dirs(im2) : im2[d].parent \in Dirs(im2)
  BY DEF Tree
<1>2. ASSUME NEW S \in SUBSET Dirs(im2), S # {}, \A d \in S : im2[d].parent \in S
      PROVE  0 \in S
  <2> DEFINE T == S \ {i}
  <2>1. \A d \in T : im[d].parent \in T
    <3> TAKE d \in T
    <3>1. d \in Dirs(im) /\ im2[d].parent = im[d].parent
      OBVIOUS
    <3>2. im[d].parent \in Dirs(im) /\ im[d].parent \in S
      BY <1>2, <3>1 DEF Tree
    <3> QED BY <3>2
  <2>2. T # {}
    <3>1. CASE i \in S
      BY <3>1, <1>2
    <3>2. CASE i \notin S
      BY <3>2, <1>2
    <3> QED BY <3>1, <3>2
  <2>3. T \in SUBSET Dirs(im)
    OBVIOUS
  <2>4. 0 \in T
    BY <2>1, <2>2, <2>3 DEF Tree
  <2> QED BY <2>4
<1> QED BY <1>1, <1>2 DEF Tree

(* rmdir cuts off a leaf.                                                  *)
LEMMA TreeShrinks ==
  ASSUME NEW im, Tree(im), NEW im2, NEW i,
         Dirs(im2) = Dirs(im) \ {i}, \A d \in Dirs(im2) : im[d].parent # i,
         \A d \in Dirs(im2) : im2[d].parent = im[d].parent
  PROVE  Tree(im2)
<1>1. \A d \in Dirs(im2) : im2[d].parent \in Dirs(im2)
  BY DEF Tree
<1>2. ASSUME NEW S \in SUBSET Dirs(im2), S # {}, \A d \in S : im2[d].parent \in S
      PROVE  0 \in S
  <2>1. S \in SUBSET Dirs(im) /\ \A d \in S : im[d].parent \in S
    BY <1>2
  <2> QED BY <1>2, <2>1 DEF Tree
<1> QED BY <1>1, <1>2 DEF Tree

(* Every other change leaves directories and their parents alone.          *)
LEMMA TreeStands ==
  ASSUME NEW im, Tree(im), NEW im2, Dirs(im2) = Dirs(im),
         \A d \in Dirs(im) : im2[d].parent = im[d].parent
  PROVE  Tree(im2)
<1>1. \A d \in Dirs(im2) : im2[d].parent \in Dirs(im2)
  BY DEF Tree
<1>2. ASSUME NEW S \in SUBSET Dirs(im2), S # {}, \A d \in S : im2[d].parent \in S
      PROVE  0 \in S
  <2>1. S \in SUBSET Dirs(im) /\ \A d \in S : im[d].parent \in S
    BY <1>2
  <2> QED BY <1>2, <2>1 DEF Tree
<1> QED BY <1>1, <1>2 DEF Tree

(* So a directory lists what it did when its blocks, its first block and   *)
(* its size have not changed.                                              *)
LEMMA ListsFrame ==
  ASSUME NEW im, NEW bm, WellLinked(im, bm), NEW im2, NEW bm2, Links(bm2),
         NEW d \in Dirs(im), Lists(im, bm, d),
         im2[d].root_block = im[d].root_block, im2[d].size = im[d].size,
         \A x \in Walk(bm, im[d].root_block, 0) : bm2[x] = bm[x]
  PROVE  Lists(im2, bm2, d)
<1>1. Links(bm) /\ im[d].root_block \in Block
  BY TablesHaveLinks DEF WellLinked, InodeTable, Dirs
<1>2. /\ Slots(bm2, im[d].root_block) = Slots(bm, im[d].root_block)
      /\ \A s \in Slots(bm, im[d].root_block) : CellAt(bm2, s).inode = CellAt(bm, s).inode
  BY <1>1, SlotsFrame
<1> QED BY <1>2 DEF Lists

(* rm and rmdir clear the byte `used' of entries, and nothing else.        *)
LEMMA ClearListed ==
  ASSUME NEW im, NEW bm, WellLinked(im, bm), Listed(im, bm), NEW numbers,
         BlockTable(ClearUsed(bm, numbers))
  PROVE  Listed(im, ClearUsed(bm, numbers))
<1> DEFINE bm2 == ClearUsed(bm, numbers)
<1>1. Links(bm) /\ Links(bm2)
  BY TablesHaveLinks DEF WellLinked
<1>2. ASSUME NEW x \in Block
      PROVE  /\ bm2[x].next_block = bm[x].next_block
             /\ Len(bm2[x].cells) = Len(bm[x].cells)
             /\ \A k \in 1 .. BlockCells : k <= Len(bm[x].cells) =>
                  bm2[x].cells[k].inode = bm[x].cells[k].inode
  <2> DEFINE old == bm[x].cells
             seq == [k \in 1 .. Len(old) |->
                       IF x * BlockCells + k - 1 \in numbers
                       THEN [old[k] EXCEPT !.used = FALSE] ELSE old[k]]
  <2>1. bm2[x] = [bm[x] EXCEPT !.cells = seq]
    BY DEF ClearUsed
  <2>2. /\ bm[x] \in [type : {EMPTY, USED}, next_block : Block \cup {None}, cells : Seq(Cell)]
        /\ old \in Seq(Cell) /\ Len(old) \in Nat /\ \A k \in 1 .. Len(old) : old[k] \in Cell
    BY LenProperties, ElementOfSeq DEF WellLinked, BlockTable
  <2>3. \A k \in 1 .. Len(old) : seq[k].inode = old[k].inode
    <3> TAKE k \in 1 .. Len(old)
    <3>1. old[k] \in Cell
      BY <2>2
    <3> HIDE DEF old
    <3>2. [old[k] EXCEPT !.used = FALSE].inode = old[k].inode
      BY <3>1 DEF Cell
    <3> QED BY <3>2
  <2>4. Len(seq) = Len(old)
    <3> HIDE DEF old
    <3> QED BY <2>2
  <2>5. bm2[x].cells = seq /\ bm2[x].next_block = bm[x].next_block
    <3> HIDE DEF seq, old, bm2
    <3> QED BY <2>1, <2>2
  <2>6. \A k \in 1 .. BlockCells : k <= Len(old) => k \in 1 .. Len(old)
    BY <2>2, SizesAssumption
  <2> HIDE DEF seq, bm2
  <2> QED BY <2>3, <2>4, <2>5, <2>6
<1> SUFFICES ASSUME NEW d \in Dirs(im) PROVE Lists(im, bm2, d)
  BY DEF Listed
<1>3. im[d].root_block \in Block
  BY DEF WellLinked, InodeTable, Dirs
<1> HIDE DEF bm2
<1>4. /\ Slots(bm2, im[d].root_block) = Slots(bm, im[d].root_block)
      /\ \A s \in Slots(bm, im[d].root_block) : CellAt(bm2, s).inode = CellAt(bm, s).inode
  BY <1>1, <1>2, <1>3, WalkInBlocks, SlotsFrame
<1>5. Lists(im, bm, d)
  BY DEF Listed
<1> QED BY <1>4, <1>5 DEF Lists

(* Freeing the chain of one inode leaves the others' entries.              *)
LEMMA FreeListed ==
  ASSUME NEW im, NEW bm, WellLinked(im, bm), Listed(im, bm),
         NEW i \in Inode, Alive(im, i), i # 0,
         NEW freed, freed = Walk(bm, im[i].root_block, 0)
  PROVE  Listed([im EXCEPT ![i] = FreeInodeRec],
                [b \in Block |-> IF b \in freed THEN FreeBlockRec ELSE bm[b]])
<1> DEFINE im2 == [im EXCEPT ![i] = FreeInodeRec]
           bm2 == [b \in Block |-> IF b \in freed THEN FreeBlockRec ELSE bm[b]]
<1>1. WellLinked(im2, bm2)
  BY FreeKeepsLinks
<1>2. Links(bm2)
  BY <1>1, TablesHaveLinks DEF WellLinked
<1> SUFFICES ASSUME NEW d \in Dirs(im2) PROVE Lists(im2, bm2, d)
  BY DEF Listed
<1>3. d \in Inode /\ d # i /\ im2[d] = im[d] /\ d \in Dirs(im) /\ Alive(im, d)
  BY DEF Dirs, FreeInodeRec, WellLinked, InodeTable, EMPTY, DIR, Alive
<1>4. \A x \in Walk(bm, im[d].root_block, 0) : bm2[x] = bm[x]
  BY <1>3, WalkInUse, WalksDisjoint
<1>5. Lists(im, bm, d)
  BY <1>3 DEF Listed
<1> HIDE DEF im2, bm2
<1> QED BY <1>2, <1>3, <1>4, <1>5, ListsFrame

(* A new chain is empty, and the others are as they were.                  *)
LEMMA MakeListed ==
  ASSUME NEW im, NEW bm, WellLinked(im, bm), Listed(im, bm),
         NEW i \in Inode, ~ Alive(im, i), NEW b \in Block, ~ InUse(bm, b),
         NEW rec, rec.type \in {FILE, DIR}, rec.root_block = b, rec.size = 0,
         InodeTable([im EXCEPT ![i] = rec])
  PROVE  Listed([im EXCEPT ![i] = rec], [bm EXCEPT ![b] = NewBlockRec])
<1> DEFINE im2 == [im EXCEPT ![i] = rec]
           bm2 == [bm EXCEPT ![b] = NewBlockRec]
<1>1. WellLinked(im2, bm2)
  BY MakeKeepsLinks
<1>2. Links(bm2)
  BY <1>1, TablesHaveLinks DEF WellLinked
<1> SUFFICES ASSUME NEW d \in Dirs(im2) PROVE Lists(im2, bm2, d)
  BY DEF Listed
<1>3. /\ im2[i] = rec /\ (d # i => im2[d] = im[d])
      /\ bm2[b] = NewBlockRec /\ \A c \in Block : c # b => bm2[c] = bm[c]
  BY DEF Dirs, WellLinked, InodeTable, BlockTable
<1> HIDE DEF im2, bm2
<1>4. CASE d = i
  <2>1. bm2[b].next_block = None /\ bm2[b].cells = << >>
    BY <1>3 DEF NewBlockRec
  <2>2. Walk(bm2, b, 0) \subseteq {b}
    <3>1. {b} \in SUBSET Block /\ b \in {b}
      OBVIOUS
    <3>2. \A y \in {b} : bm2[y].next_block >= 0 => bm2[y].next_block \in {b}
      BY <2>1 DEF None
    <3> QED BY <3>1, <3>2, WalkLeast
  <2>3. Slots(bm2, b) = {}
    BY <2>1, <2>2 DEF Slots
  <2> QED BY <2>3, <1>3, <1>4, FS_EmptySet DEF Lists
<1>5. CASE d # i
  <2>1. d \in Inode /\ d \in Dirs(im) /\ Alive(im, d) /\ Lists(im, bm, d)
    BY <1>3, <1>5 DEF Dirs, Listed, Alive, DIR, EMPTY
  <2>2. \A x \in Walk(bm, im[d].root_block, 0) : bm2[x] = bm[x]
    BY <1>3, <2>1, WalkInUse
  <2> QED BY <2>1, <2>2, <1>2, <1>3, <1>5, ListsFrame
<1> QED BY <1>4, <1>5

-----------------------------------------------------------------------------
(* What the commands do to the tree.                                       *)

(* The shape of the tree depends on the tables and the current directory.  *)
LEMMA ShapeStands ==
  ASSUME Shape, UNCHANGED tables, current_dir' \in Dirs(inode_map)
  PROVE  Shape'
BY DEF Shape, tables, CurrentDirIsDirectory, Dirs, Tree, Listed, Lists, Slots, CellAt, Walk, Closed

(* A command that only prints keeps it.                                    *)
LEMMA ShapeSaid ==
  ASSUME Shape, NEW r, Say(r)
  PROVE  Shape'
<1>1. UNCHANGED tables /\ current_dir' \in Dirs(inode_map)
  BY DEF Say, Shape, CurrentDirIsDirectory, Dirs
<1> QED BY <1>1, ShapeStands

(* One that dies keeps it when the bodies it has written do.               *)
LEMMA ShapeDied ==
  ASSUME Shape, NEW bm, Die(bm), Listed(inode_map, bm)
  PROVE  Shape'
<1>1. inode_map' = inode_map /\ block_map' = bm /\ current_dir' = current_dir
  BY DEF Die
<1> QED BY <1>1 DEF Shape, CurrentDirIsDirectory

(* Such as one that has written none.                                      *)
LEMMA ShapeDiedAtOnce ==
  ASSUME Shape, Die(block_map)
  PROVE  Shape'
BY ShapeDied DEF Shape

(* Tables with cleared entries list what the tables before them did.       *)
LEMMA ClearKeepsLists ==
  ASSUME NEW bm, Consistent(inode_map, bm, used_inode_count, used_block_count),
         Listed(inode_map, bm), NEW numbers
  PROVE  Listed(inode_map, ClearUsed(bm, numbers))
<1>1. WellLinked(inode_map, bm) /\ BlockTable(ClearUsed(bm, numbers))
  <2>1. Consistent(inode_map, ClearUsed(bm, numbers), used_inode_count, used_block_count)
    BY ClearConsistent
  <2> QED BY <2>1 DEF Consistent, WellLinked
<1> QED BY <1>1, ClearListed

(* What a lookup in a directory finds is another inode of the type asked.  *)
LEMMA FoundElsewhere ==
  ASSUME TInv, NEW name, NEW type \in {FILE, DIR}, NEW s \in Matches(name, type)
  PROVE  EntryAt(s).inode # current_dir /\ inode_map[EntryAt(s).inode].type = type
<1>1. s \in DirSlots /\ inode_map[EntryAt(s).inode].type = type
  BY DEF Matches
<1>2. current_dir \in Dirs(inode_map)
  BY DEF TInv, Shape, CurrentDirIsDirectory, Dirs
<1>3. EntryAt(s).inode \in Inode \ {current_dir}
  BY <1>1, <1>2 DEF TInv, Shape, Listed, Lists, DirSlots, DirRoot, EntryAt
<1> QED BY <1>1, <1>3

(* rm and rmdir free an inode that is no directory's parent, and not the   *)
(* directory they are in.                                                  *)
LEMMA ShapeFreed ==
  ASSUME TInv, NEW i \in Inode, i # 0, Alive(inode_map, i), i # current_dir,
         \A d \in Dirs(inode_map) : inode_map[d].parent # i,
         NEW bm, Consistent(inode_map, bm, used_inode_count, used_block_count),
         \A b \in Block : bm[b].next_block = block_map[b].next_block,
         Listed(inode_map, bm), FreeInode(i, bm)
  PROVE  Shape'
<1> DEFINE freed == FreedChain(i)
           im2 == [inode_map EXCEPT ![i] = FreeInodeRec]
<1>1. WellLinked(inode_map, block_map) /\ WellLinked(inode_map, bm)
  BY DEF TInv, IInv, Consistent
<1>2. inode_map[i].root_block \in Block /\ Links(block_map) /\ Links(bm)
  BY <1>1, TablesHaveLinks DEF WellLinked, InodeTable
<1>3. freed = Walk(block_map, inode_map[i].root_block, 0)
  BY <1>1, FreedIsWalk DEF FreedChain
<1>4. freed = Walk(bm, inode_map[i].root_block, 0)
  BY <1>2, <1>3, WalkFrame, WalkInBlocks
<1>5. /\ block_map' = [b \in Block |-> IF b \in freed THEN FreeBlockRec ELSE bm[b]]
      /\ inode_map' = im2 /\ current_dir' = current_dir
  BY DEF FreeInode, Released
<1> HIDE DEF freed
<1>6. Listed(inode_map', block_map')
  <2>1. Listed([inode_map EXCEPT ![i] = FreeInodeRec],
               [b \in Block |-> IF b \in freed THEN FreeBlockRec ELSE bm[b]])
    BY <1>1, <1>4, FreeListed
  <2> QED BY <2>1, <1>5
<1>7. /\ \A j \in Inode : j # i => inode_map'[j] = inode_map[j]
      /\ inode_map'[i].type = EMPTY
  BY <1>1, <1>5 DEF WellLinked, InodeTable, FreeInodeRec
<1>8. Dirs(inode_map') = Dirs(inode_map) \ {i}
  BY <1>7 DEF Dirs, EMPTY, DIR
<1>9. Tree(inode_map')
  <2>1. Tree(inode_map)
    BY DEF TInv, Shape
  <2>2. \A d \in Dirs(inode_map') : d \in Inode /\ d # i
    BY <1>8 DEF Dirs
  <2> QED BY <2>1, <2>2, <1>7, <1>8, TreeShrinks
<1>10. CurrentDirIsDirectory'
  BY <1>5, <1>7 DEF TInv, Shape, CurrentDirIsDirectory
<1> QED BY <1>6, <1>9, <1>10 DEF Shape

(* rmdir of a leaf.                                                        *)
LEMMA RmdirShape ==
  ASSUME OnlyLeafRmdir, TInv, NEW name \in Names, Rmdir(name)
  PROVE  Shape'
<1> DEFINE bm == MatchesCleared(name, DIR)
<1>0. Shape /\ Listed(inode_map, bm)
  BY ClearKeepsLists DEF TInv, IInv, Shape, MatchesCleared
<1>1. CASE ReadDirDies
  BY <1>0, <1>1, ShapeDiedAtOnce DEF ReadDirDies
<1>2. CASE Die(bm)
  BY <1>0, <1>2, ShapeDied
<1>3. CASE Say("not found")
  BY <1>0, <1>3, ShapeSaid
<1>4. ASSUME NEW s \in Latest(Matches(name, DIR)),
             LeafOnly(EntryAt(s).inode), FreeInode(EntryAt(s).inode, bm)
      PROVE  Shape'
  <2>1. s \in Matches(name, DIR)
    BY DEF Latest
  <2>2. /\ EntryAt(s).inode \in Inode /\ EntryAt(s).inode # 0
        /\ Alive(inode_map, EntryAt(s).inode)
        /\ EntryAt(s).inode # current_dir
    BY <2>1, FoundInode, FoundElsewhere DEF TInv
  <2>3. \A d \in Dirs(inode_map) : inode_map[d].parent # EntryAt(s).inode
    BY <1>4 DEF LeafOnly, Dirs
  <2>4. /\ Consistent(inode_map, bm, used_inode_count, used_block_count)
        /\ \A b \in Block : bm[b].next_block = block_map[b].next_block
    BY MatchesClearedConsistent DEF TInv
  <2> HIDE DEF bm
  <2> QED BY <1>0, <1>4, <2>2, <2>3, <2>4, ShapeFreed
<1> QED BY <1>1, <1>2, <1>3, <1>4 DEF Rmdir

(* rm of a file: no directory has a file as its parent.                    *)
LEMMA RmShape ==
  ASSUME TInv, NEW name \in Names, Rm(name)
  PROVE  Shape'
<1> DEFINE bm == MatchesCleared(name, FILE)
<1>0. /\ Shape /\ Listed(inode_map, bm)
      /\ Consistent(inode_map, bm, used_inode_count, used_block_count)
      /\ \A b \in Block : bm[b].next_block = block_map[b].next_block
  <2>1. Listed(inode_map, bm)
    BY ClearKeepsLists DEF TInv, IInv, Shape, MatchesCleared
  <2> QED BY <2>1, MatchesClearedConsistent DEF TInv
<1> HIDE DEF bm
<1>1. CASE ReadDirDies
  BY <1>0, <1>1, ShapeDiedAtOnce DEF ReadDirDies
<1>2. CASE Die(bm)
  BY <1>0, <1>2, ShapeDied
<1>3. CASE Say("not found")
  BY <1>0, <1>3, ShapeSaid
<1>4. ASSUME NEW s \in Latest(Matches(name, FILE)), NEW numbers,
             FreeInode(EntryAt(s).inode, ClearUsed(bm, numbers))
      PROVE  Shape'
  <2> DEFINE i == EntryAt(s).inode
             bm2 == ClearUsed(bm, numbers)
  <2>1. s \in Matches(name, FILE)
    BY DEF Latest
  <2>2. /\ i \in Inode /\ i # 0 /\ Alive(inode_map, i)
        /\ i # current_dir /\ inode_map[i].type = FILE
    BY <2>1, FoundInode, FoundElsewhere DEF TInv
  <2>3. \A d \in Dirs(inode_map) : inode_map[d].parent # i
    BY <2>2 DEF TInv, Shape, Tree, Dirs, FILE, DIR
  <2>4. /\ Consistent(inode_map, bm2, used_inode_count, used_block_count)
        /\ \A b \in Block : bm2[b].next_block = block_map[b].next_block
        /\ Listed(inode_map, bm2)
    BY <1>0, ClearConsistent, ClearKeepsLists
  <2> HIDE DEF i, bm2
  <2>5. FreeInode(i, bm2)
    BY <1>4 DEF i, bm2
  <2> QED BY <2>2, <2>3, <2>4, <2>5, ShapeFreed
<1> QED BY <1>1, <1>2, <1>3, <1>4 DEF Rm, bm

(* cd goes to a parent, or to a directory that it has found.               *)
LEMMA CdShape ==
  ASSUME TInv, NEW name, Cd(name)
  PROVE  Shape'
<1>0. Shape
  BY DEF TInv
<1>1. CASE ReadDirDies
  BY <1>0, <1>1, ShapeDiedAtOnce DEF ReadDirDies
<1>2. CASE Die(block_map)
  BY <1>0, <1>2, ShapeDiedAtOnce
<1>3. ASSUME NEW r, Say(r)
      PROVE  Shape'
  BY <1>0, <1>3, ShapeSaid
<1>4. CASE current_dir' = inode_map[current_dir].parent /\ UNCHANGED tables
  <2>1. current_dir' \in Dirs(inode_map)
    BY <1>0, <1>4 DEF Shape, CurrentDirIsDirectory, Tree, Dirs
  <2> QED BY <1>0, <1>4, <2>1, ShapeStands
<1>5. CASE /\ \E s \in First(Matches(name, DIR)) : current_dir' = EntryAt(s).inode
           /\ UNCHANGED tables
  <2>1. PICK s \in Matches(name, DIR) : current_dir' = EntryAt(s).inode
    BY <1>5 DEF First
  <2>2. current_dir' \in Dirs(inode_map)
    BY <2>1, FoundInode, FoundElsewhere DEF TInv, Dirs
  <2> QED BY <1>0, <1>5, <2>2, ShapeStands
<1> QED BY <1>1, <1>2, <1>3, <1>4, <1>5 DEF Cd, CdDotDot, CdInto

-----------------------------------------------------------------------------
(* mkdir, touch and write.                                                 *)

(* The slots of a chain are finitely many.                                 *)
LEMMA FiniteSlots ==
  ASSUME NEW bm, NEW b
  PROVE  IsFiniteSet(Slots(bm, b))
<1>1. IsFiniteSet(1 .. BlockCells)
  BY SizesAssumption, FS_Interval
<1>2. IsFiniteSet(Block \X (1 .. BlockCells))
  BY <1>1, FiniteTables, FS_Product
<1>3. Slots(bm, b) \subseteq Block \X (1 .. BlockCells)
  BY WalkInBlocks DEF Slots
<1> QED BY <1>2, <1>3, FS_Subset

(* One more entry in directory d, and one more cell in its size, leaves    *)
(* every directory listing what it should.                                 *)
LEMMA EntryListed ==
  ASSUME NEW im, NEW bm, NEW d, NEW last, NEW e, NEW used, NEW nb, NEW bm2,
         Entering(im, bm, d, last, e, used, nb, bm2),
         Listed(im, bm), d \in Dirs(im), e.inode \in Inode \ {d}, Links(bm2),
         NEW s, s \notin Slots(bm, im[d].root_block),
         Slots(bm2, im[d].root_block) = Slots(bm, im[d].root_block) \cup {s},
         CellAt(bm2, s) = e,
         \A t \in Slots(bm, im[d].root_block) : CellAt(bm2, t) = CellAt(bm, t)
  PROVE  Listed([im EXCEPT ![d].size = @ + 1], bm2)
<1> DEFINE im2 == [im EXCEPT ![d].size = @ + 1]
<1>0. WellLinked(im, bm)
  BY DEF Entering, Appending
<1>1. /\ d \in Inode /\ Alive(im, d)
      /\ im2[d].root_block = im[d].root_block /\ im2[d].size = im[d].size + 1
      /\ \A j \in Inode : /\ im2[j].type = im[j].type /\ im2[j].root_block = im[j].root_block
                          /\ j # d => im2[j] = im[j]
  BY <1>0 DEF Dirs, Alive, WellLinked, InodeTable, DIR, EMPTY
<1> SUFFICES ASSUME NEW j \in Dirs(im2) PROVE Lists(im2, bm2, j)
  BY DEF Listed
<1> HIDE DEF im2
<1>2. j \in Dirs(im) /\ j \in Inode /\ Alive(im, j) /\ Lists(im, bm, j)
  BY <1>1 DEF Dirs, Alive, Listed, DIR, EMPTY
<1>3. CASE j = d
  <2> DEFINE old == Slots(bm, im[d].root_block)
  <2>1. Cardinality(old) = im[d].size /\ \A t \in old : CellAt(bm, t).inode \in Inode \ {d}
    BY <1>2, <1>3 DEF Lists
  <2>2. Cardinality(old \cup {s}) = Cardinality(old) + 1
    BY FiniteSlots, FS_AddElement
  <2> QED BY <1>1, <1>3, <2>1, <2>2 DEF Lists
<1>4. CASE j # d
  <2>1. \A x \in Walk(bm, im[j].root_block, 0) : bm2[x] = bm[x]
    BY <1>2, <1>4, AppendSpares DEF Entering
  <2> QED BY <1>0, <1>1, <1>2, <1>4, <2>1, ListsFrame
<1> QED BY <1>3, <1>4

(* The new inode is the last entry of the current directory, and no entry  *)
(* of it is text, so that a lookup of its name finds it.                   *)
LEMMA EntryMade ==
  ASSUME TInv, NEW name \in Names, NEW type \in {FILE, DIR}, NEW parent \in Inode \cup {None},
         type = DIR => parent = current_dir,
         NEW i \in Lowest(FreeInodes), NEW b \in Lowest(FreeBlocks(block_map, used_block_count)),
         CreateWith(name, type, parent, i, b)
  PROVE  \/ UNCHANGED <<tables, current_dir>>
         \/ /\ Shape' /\ Finds(Stored[name], type, i)'
            /\ \A j \in Inode \ {i} : inode_map'[j].type = inode_map[j].type
<1> DEFINE rec == [type |-> type, root_block |-> b, parent |-> parent, size |-> 0]
           im == [inode_map EXCEPT ![i] = rec]
           bm == [block_map EXCEPT ![b] = NewBlockRec]
           used == used_block_count + 1
           d == current_dir
           e == Entry(Stored[name], i)
<1>1. i \in Inode /\ ~ Alive(inode_map, i)
  BY DEF Lowest, FreeInodes, Live, Alive
<1>2. b \in Block /\ ~ InUse(block_map, b)
  BY DEF Lowest, FreeBlocks, InUse, EMPTY, USED
<1>3. InodeTable(inode_map) /\ WellLinked(inode_map, block_map)
  BY DEF TInv, IInv, Consistent, WellLinked
<1>4. InodeTable(im)
  BY <1>2, <1>3 DEF InodeTable
<1>5. /\ Consistent(im, bm, used_inode_count + 1, used)
      /\ Listed(im, bm)
  <2>1. rec.type \in {FILE, DIR} /\ rec.root_block = b /\ rec.size = 0
    OBVIOUS
  <2>2. Consistent(inode_map, block_map, used_inode_count, used_block_count)
        /\ Listed(inode_map, block_map)
    BY DEF TInv, IInv, Shape
  <2> HIDE DEF rec
  <2>3. Consistent(im, bm, used_inode_count + 1, used)
    BY <2>1, <2>2, <1>1, <1>2, <1>4, MakeConsistent
  <2>4. Listed(im, bm)
    BY <2>1, <2>2, <1>1, <1>2, <1>3, <1>4, MakeListed
  <2> QED BY <2>3, <2>4
<1>6. /\ im[i] = rec /\ \A j \in Inode : j # i => im[j] = inode_map[j]
      /\ d \in Dirs(inode_map) /\ d \in Inode /\ d # i /\ d \in Dirs(im)
  <2>1. d \in Inode /\ inode_map[d].type = DIR
    BY DEF TInv, Shape, CurrentDirIsDirectory
  <2>2. d # i
    BY <1>1, <2>1 DEF Alive, DIR, EMPTY
  <2> QED BY <1>1, <1>3, <2>1, <2>2 DEF InodeTable, Dirs
<1>7. e \in Cell /\ e.inode = i /\ e.name = Stored[name]
  <2>1. i # 0
    BY <1>1, CountersInRange DEF TInv, IInv
  <2>2. Stored[name] \in Names
    BY InputAssumption
  <2> QED BY <2>1, <2>2, <1>1 DEF Entry, Cell
<1>8. CreateWith(name, type, parent, i, b) =
        \E last \in LastBlocks(bm, im[d].root_block) :
          LET n == BlocksNeeded(bm, last, 1)
          IN  \/ ~ EnoughBlocks(bm, used, n) /\ Die(block_map)
              \/ /\ EnoughBlocks(bm, used, n)
                 /\ \E nb \in NewBlocks(bm, used, n) :
                      block_map' = Appended(bm, last, <<e>>, nb)
                 /\ inode_map' = [im EXCEPT ![d].size = @ + 1]
                 /\ used_inode_count' = used_inode_count + 1
                 /\ used_block_count' = used + n
                 /\ reply' = "ok"
                 /\ UNCHANGED d
  BY DEF CreateWith
<1> HIDE DEF im, bm, used, e
<1>9. PICK last \in LastBlocks(bm, im[d].root_block) :
        \/ Die(block_map)
        \/ /\ \E nb \in NewBlocks(bm, used, BlocksNeeded(bm, last, 1)) :
                block_map' = Appended(bm, last, <<e>>, nb)
           /\ inode_map' = [im EXCEPT ![d].size = @ + 1]
           /\ current_dir' = current_dir
  BY <1>8
<1>10. CASE Die(block_map)
  BY <1>10 DEF Die, tables
<1>11. CASE /\ \E nb \in NewBlocks(bm, used, BlocksNeeded(bm, last, 1)) :
                 block_map' = Appended(bm, last, <<e>>, nb)
            /\ inode_map' = [im EXCEPT ![d].size = @ + 1]
            /\ current_dir' = current_dir
  <2> DEFINE n == BlocksNeeded(bm, last, 1)
  <2>1. /\ WellLinked(im, bm) /\ BlockTable(bm)
        /\ \A c \in Block : Len(bm[c].cells) <= BlockCells
    BY <1>5 DEF Consistent, WellLinked
  <2>2. n \in Nat
    BY <1>4, <1>6, <2>1, LastBlocksType DEF InodeTable
  <2>3. PICK nb \in NewBlocks(bm, used, n) : block_map' = Appended(bm, last, <<e>>, nb)
    BY <1>11
  <2>4. Alive(im, d)
    BY <1>6 DEF Dirs, Alive, DIR, EMPTY
  <2>5. Entering(im, bm, d, last, e, used, nb, block_map') /\ Links(block_map')
    <3> DEFINE data == <<e>>
    <3>1. data \in Seq(Cell) /\ block_map' = Appended(bm, last, data, nb)
      BY <1>7, <2>3
    <3>2. Entering(im, bm, d, last, e, used, nb, block_map')
      BY <1>6, <1>7, <2>1, <2>2, <2>3, <2>4, <3>1 DEF Entering, Appending
    <3> HIDE DEF data, n
    <3>3. WellLinked(im, block_map')
      BY <1>6, <2>1, <2>2, <2>3, <3>1, AppendKeepsLinks, NewBlocksAreFree
    <3> QED BY <3>2, <3>3, TablesHaveLinks DEF WellLinked
  <2> HIDE DEF n
  <2>6. PICK s : /\ s \notin Slots(bm, im[d].root_block)
                 /\ Slots(block_map', im[d].root_block) = Slots(bm, im[d].root_block) \cup {s}
                 /\ CellAt(block_map', s) = e
                 /\ \A t \in Slots(bm, im[d].root_block) :
                      CellAt(block_map', t) = CellAt(bm, t) /\ Precedes(block_map', t, s)
    BY <2>5, EntryComesLast
  <2>7. Listed(inode_map', block_map')
    <3>1. e.inode \in Inode \ {d}
      BY <1>1, <1>6, <1>7
    <3>2. Listed([im EXCEPT ![d].size = @ + 1], block_map')
      BY <3>1, <1>5, <1>6, <2>5, <2>6, EntryListed
    <3> QED BY <3>2, <1>11
  <2>8. /\ \A j \in Inode : /\ inode_map'[j].type = im[j].type
                            /\ inode_map'[j].parent = im[j].parent
                            /\ inode_map'[j].root_block = im[j].root_block
        /\ \A j \in Inode \ {i} : inode_map'[j].type = inode_map[j].type
                                 /\ inode_map'[j].parent = inode_map[j].parent
        /\ inode_map'[i].type = type /\ inode_map'[i].parent = parent
    <3>1. inode_map' = [im EXCEPT ![d].size = @ + 1]
      BY <1>11
    <3>2. \A j \in Inode : /\ inode_map'[j].type = im[j].type
                          /\ inode_map'[j].parent = im[j].parent
                          /\ inode_map'[j].root_block = im[j].root_block
      BY <3>1, <1>4, <1>6 DEF InodeTable
    <3> QED BY <3>2, <1>1, <1>6
  <2>9. Tree(inode_map')
    <3>1. Tree(inode_map)
      BY DEF TInv, Shape
    <3>2. i \notin Dirs(inode_map)
      BY <1>1 DEF Dirs, Alive, DIR, EMPTY
    <3>3. \A j \in Dirs(inode_map) : inode_map'[j].parent = inode_map[j].parent
      BY <2>8, <3>2 DEF Dirs
    <3>4. CASE type = DIR
      <4>1. Dirs(inode_map') = Dirs(inode_map) \cup {i}
        BY <1>1, <2>8, <3>4 DEF Dirs
      <4>2. inode_map'[i].parent \in Dirs(inode_map)
        BY <1>6, <2>8, <3>4
      <4> QED BY <3>1, <3>2, <3>3, <4>1, <4>2, TreeGrows
    <3>5. CASE type = FILE
      <4>1. Dirs(inode_map') = Dirs(inode_map)
        BY <1>1, <2>8, <3>2, <3>5 DEF Dirs, FILE, DIR
      <4> QED BY <3>1, <3>3, <4>1, TreeStands
    <3> QED BY <3>4, <3>5
  <2>10. Shape'
    <3>1. CurrentDirIsDirectory'
      BY <1>6, <1>11, <2>8 DEF CurrentDirIsDirectory, Dirs
    <3> QED BY <3>1, <2>7, <2>9 DEF Shape
  <2>11. Finds(Stored[name], type, i)'
    <3>1. DirSlots' = Slots(bm, im[d].root_block) \cup {s}
      BY <1>6, <1>11, <2>6, <2>8 DEF DirSlots, DirRoot
    <3>2. Wild' = {}
      <4>1. Lists(inode_map', block_map', current_dir')
        BY <2>10 DEF Shape, Listed, CurrentDirIsDirectory, Dirs
      <4> QED BY <4>1 DEF Lists, Wild, DirSlots, DirRoot, EntryAt
    <3>3. s \in Matches(Stored[name], type)'
      BY <1>7, <2>6, <2>8, <3>1, <3>2 DEF Matches, EntryAt
    <3>4. \A t \in Matches(Stored[name], type)' \ {s} : Precedes(block_map', t, s)
      BY <2>6, <3>1 DEF Matches
    <3> QED BY <1>7, <2>6, <3>3, <3>4 DEF Finds, Latest, EntryAt
  <2> QED BY <2>8, <2>10, <2>11
<1> QED BY <1>9, <1>10, <1>11

(* mkdir and touch: the tree grows by what they make, or nothing changes.  *)
LEMMA CreateShape ==
  ASSUME TInv, NEW name \in Names, NEW type \in {FILE, DIR}, NEW parent \in Inode \cup {None},
         type = DIR => parent = current_dir, Create(name, type, parent)
  PROVE  /\ Shape'
         /\ \A i \in Inode : ~ Live(i) /\ Live(i)' => Finds(Stored[name], type, i)'
<1> DEFINE free == FreeBlocks(block_map, used_block_count)
<1>1. ASSUME UNCHANGED <<tables, current_dir>>
      PROVE  Shape' /\ \A i \in Inode : Live(i)' = Live(i)
  <2>1. current_dir' \in Dirs(inode_map)
    BY <1>1 DEF TInv, Shape, CurrentDirIsDirectory, Dirs
  <2>2. Shape'
    BY <1>1, <2>1, ShapeStands DEF TInv
  <2> QED BY <1>1, <2>2 DEF Live, tables
<1>2. ASSUME NEW r, Say(r)
      PROVE  UNCHANGED <<tables, current_dir>>
  BY <1>2 DEF Say
<1>3. CASE Die(block_map)
  BY <1>1, <1>3 DEF Die, tables
<1>4. CASE \E i \in Lowest(FreeInodes), b \in Lowest(free) :
             CreateWith(name, type, parent, i, b)
  <2>1. PICK i \in Lowest(FreeInodes), b \in Lowest(free) :
          CreateWith(name, type, parent, i, b)
    BY <1>4
  <2>2. CASE /\ Shape' /\ Finds(Stored[name], type, i)'
             /\ \A j \in Inode \ {i} : inode_map'[j].type = inode_map[j].type
    <3>1. \A j \in Inode : ~ Live(j) /\ Live(j)' => j = i
      BY <2>2 DEF Live
    <3> QED BY <2>2, <3>1
  <2>3. \/ UNCHANGED <<tables, current_dir>>
        \/ /\ Shape' /\ Finds(Stored[name], type, i)'
           /\ \A j \in Inode \ {i} : inode_map'[j].type = inode_map[j].type
    BY <2>1, EntryMade
  <2> QED BY <1>1, <2>2, <2>3
<1> QED BY <1>1, <1>2, <1>3, <1>4 DEF Create

(* write to a file: no directory has its blocks.                           *)
LEMMA WriteToShape ==
  ASSUME TInv, NEW i \in Inode, inode_map[i].type = FILE, NEW data \in Inputs,
         WriteTo(i, data)
  PROVE  Shape'
<1>1. PICK last \in LastBlocks(block_map, inode_map[i].root_block) :
        \/ Die(block_map)
        \/ /\ \E nb \in NewBlocks(block_map, used_block_count,
                                  BlocksNeeded(block_map, last, Len(data))) :
                block_map' = Appended(block_map, last, data, nb)
           /\ \E len \in FreedLengths \cup {Len(data)} :
                inode_map' = [inode_map EXCEPT ![i].size = @ + len]
           /\ current_dir' = current_dir
  BY DEF WriteTo
<1>2. CASE Die(block_map)
  BY <1>2, ShapeDiedAtOnce DEF TInv
<1>3. CASE /\ \E nb \in NewBlocks(block_map, used_block_count,
                                  BlocksNeeded(block_map, last, Len(data))) :
                block_map' = Appended(block_map, last, data, nb)
           /\ \E len \in FreedLengths \cup {Len(data)} :
                inode_map' = [inode_map EXCEPT ![i].size = @ + len]
           /\ current_dir' = current_dir
  <2> DEFINE n == BlocksNeeded(block_map, last, Len(data))
  <2>1. /\ WellLinked(inode_map, block_map) /\ InodeTable(inode_map) /\ BlockTable(block_map)
        /\ \A b \in Block : Len(block_map[b].cells) <= BlockCells
        /\ Alive(inode_map, i)
    BY DEF TInv, IInv, Consistent, WellLinked, Alive, FILE, EMPTY
  <2>2. data \in Seq(Cell) /\ Len(data) \in Nat
    BY InputsAreCells
  <2>3. n \in Nat
    <3>1. inode_map[i].root_block \in Block
      BY <2>1 DEF InodeTable
    <3> QED BY <3>1, <2>1, <2>2, LastBlocksType
  <2>4. PICK nb \in NewBlocks(block_map, used_block_count, n) :
          block_map' = Appended(block_map, last, data, nb)
    BY <1>3
  <2> HIDE DEF n
  <2>5. Appending(inode_map, block_map, i, last, data, used_block_count, n, nb, block_map')
    BY <2>1, <2>2, <2>3, <2>4 DEF Appending
  <2>6. Links(block_map')
    <3>1. WellLinked(inode_map, block_map')
      BY <2>1, <2>2, <2>3, <2>4, AppendKeepsLinks, NewBlocksAreFree
    <3> QED BY <3>1, TablesHaveLinks DEF WellLinked
  <2>7. /\ \A j \in Inode : j # i => inode_map'[j] = inode_map[j]
        /\ inode_map'[i].type = FILE
    BY <1>3, <2>1 DEF InodeTable
  <2>8. /\ Dirs(inode_map') = Dirs(inode_map)
        /\ \A j \in Dirs(inode_map) : j \in Inode /\ j # i /\ Alive(inode_map, j)
                                   /\ inode_map'[j] = inode_map[j]
    BY <2>7 DEF Dirs, Alive, FILE, DIR, EMPTY
  <2>9. Listed(inode_map', block_map')
    <3> SUFFICES ASSUME NEW j \in Dirs(inode_map) PROVE Lists(inode_map', block_map', j)
      BY <2>8 DEF Listed
    <3>1. \A x \in Walk(block_map, inode_map[j].root_block, 0) : block_map'[x] = block_map[x]
      BY <2>5, <2>8, AppendSpares
    <3>2. Lists(inode_map, block_map, j)
      BY DEF TInv, Shape, Listed
    <3> QED BY <2>1, <2>6, <2>8, <3>1, <3>2, ListsFrame
  <2>10. Tree(inode_map')
    BY <2>8, TreeStands DEF TInv, Shape
  <2>11. CurrentDirIsDirectory'
    BY <1>3, <2>8 DEF TInv, Shape, CurrentDirIsDirectory, Dirs
  <2> QED BY <2>9, <2>10, <2>11 DEF Shape
<1> QED BY <1>1, <1>2, <1>3

(* write: dies, finds nothing, or appends to a file.                       *)
LEMMA WriteShape ==
  ASSUME TInv, NEW name \in Names, NEW data \in Inputs, Write(name, data)
  PROVE  Shape'
<1>0. Shape
  BY DEF TInv
<1>1. CASE ReadDirDies
  BY <1>0, <1>1, ShapeDiedAtOnce DEF ReadDirDies
<1>2. CASE Die(block_map)
  BY <1>0, <1>2, ShapeDiedAtOnce
<1>3. CASE Say("not found")
  BY <1>0, <1>3, ShapeSaid
<1>4. ASSUME NEW s \in Latest(Matches(name, FILE)), WriteTo(EntryAt(s).inode, data)
      PROVE  Shape'
  <2>1. s \in Matches(name, FILE)
    BY DEF Latest
  <2>2. EntryAt(s).inode \in Inode /\ inode_map[EntryAt(s).inode].type = FILE
    BY <2>1, FoundInode, FoundElsewhere DEF TInv
  <2> QED BY <1>4, <2>2, WriteToShape
<1> QED BY <1>1, <1>2, <1>3, <1>4 DEF Write

(* ls changes neither table.                                               *)
LEMMA LsShape ==
  ASSUME Shape, Ls
  PROVE  Shape'
BY ShapeDiedAtOnce, ShapeSaid DEF Ls, ReadDirDies

(* Nor does read.                                                          *)
LEMMA ReadShape ==
  ASSUME Shape, NEW name, Read(name)
  PROVE  Shape'
<1>1. ASSUME NEW i, ReadFrom(i)
      PROVE  Shape'
  BY <1>1, ShapeDiedAtOnce, ShapeSaid DEF ReadFrom
<1> QED BY <1>1, ShapeDiedAtOnce, ShapeSaid DEF Read, ReadDirDies

-----------------------------------------------------------------------------
(* The tree, for every user who removes leaves only.                       *)

(* The root alone is a tree, and lists nothing.                            *)
LEMMA InitShape ==
  ASSUME Init
  PROVE  Shape
<1>1. 0 \in Inode /\ 0 \in Block
  BY SizesAssumption DEF Inode, Block
<1>2. /\ inode_map[0].type = DIR /\ inode_map[0].parent = 0
      /\ inode_map[0].root_block = 0 /\ inode_map[0].size = 0
      /\ \A i \in Inode : inode_map[i].type = DIR => i = 0
      /\ \A b \in Block : Len(block_map[b].cells) = 0
  BY <1>1 DEF Init, FreeInodeRec, FreeBlockRec, NewBlockRec, EMPTY, DIR
<1>3. Dirs(inode_map) = {0}
  BY <1>1, <1>2 DEF Dirs
<1>4. CurrentDirIsDirectory
  BY <1>1, <1>2 DEF Init, CurrentDirIsDirectory
<1>5. Tree(inode_map)
  BY <1>2, <1>3 DEF Tree
<1>6. Slots(block_map, 0) = {}
  BY <1>2, WalkInBlocks DEF Slots
<1>7. Listed(inode_map, block_map)
  BY <1>2, <1>3, <1>6, FS_EmptySet DEF Listed, Lists
<1> QED BY <1>4, <1>5, <1>7 DEF Shape

(* Every command keeps the tree.                                           *)
LEMMA NextShape ==
  ASSUME OnlyLeafRmdir, TInv, [Next]_vars
  PROVE  Shape'
<1>0. Shape /\ current_dir \in Dirs(inode_map) /\ 0 \in Dirs(inode_map)
      /\ current_dir \in Inode /\ None \in Inode \cup {None}
  BY CountersInRange DEF TInv, IInv, Consistent, WellLinked, Roots, Shape,
                         CurrentDirIsDirectory, Dirs
<1>1. CASE Open
  BY <1>0, <1>1, ShapeStands DEF Open
<1>2. CASE Exit \/ Usage \/ Help
  BY <1>0, <1>2, ShapeSaid DEF Exit, Usage, Help
<1>3. CASE EndOfInput
  BY <1>0, <1>3, ShapeDiedAtOnce DEF EndOfInput
<1>4. CASE Ls
  BY <1>0, <1>4, LsShape
<1>5. ASSUME NEW name \in Names \cup {Dot, DotDot}, Cd(name) PROVE Shape'
  BY <1>5, CdShape
<1>6. ASSUME NEW name \in Names, Mkdir(name) PROVE Shape'
  BY <1>0, <1>6, CreateShape DEF Mkdir
<1>7. ASSUME NEW name \in Names, Touch(name) PROVE Shape'
  <2>1. FILE # DIR
    BY DEF FILE, DIR
  <2> QED BY <1>0, <1>7, <2>1, CreateShape DEF Touch
<1>8. ASSUME NEW name \in Names, Rmdir(name) PROVE Shape'
  BY <1>8, RmdirShape
<1>9. ASSUME NEW name \in Names, Rm(name) PROVE Shape'
  BY <1>9, RmShape
<1>10. ASSUME NEW name \in Names, Read(name) PROVE Shape'
  BY <1>0, <1>10, ReadShape
<1>11. ASSUME NEW name \in Names, NEW data \in Inputs, Write(name, data) PROVE Shape'
  BY <1>11, WriteShape
<1>12. CASE UNCHANGED vars
  BY <1>0, <1>12, ShapeStands DEF vars, tables
<1> QED BY <1>1, <1>2, <1>3, <1>4, <1>5, <1>6, <1>7, <1>8, <1>9, <1>10, <1>11, <1>12
        DEF Next

(* A user who never asks for rmdir of a directory that has directories in  *)
(* it keeps the tree: whatever is made, written, removed and killed.       *)
THEOREM TreeStandsAlways ==
  ASSUME OnlyLeafRmdir
  PROVE  Spec => []TInv
<1>1. Init => TInv
  BY InitIInv, InitShape DEF TInv
<1>2. TInv /\ [Next]_vars => TInv'
  BY NextKeeps, NextShape DEF TInv
<1> QED BY <1>1, <1>2, PTL DEF Spec

(* The current directory is a directory: rmdir never frees the one the     *)
(* user is in.                                                             *)
THEOREM CurrentDirStands ==
  ASSUME OnlyLeafRmdir
  PROVE  Spec => []CurrentDirIsDirectory
<1>1. TInv => CurrentDirIsDirectory
  BY DEF TInv, Shape
<1> QED BY <1>1, TreeStandsAlways, PTL

(* `cd ..' leads from every directory to another, and in the end to the    *)
(* root: no parent is freed, reused or made its own descendant.            *)
THEOREM DotDotLeadsUp ==
  ASSUME OnlyLeafRmdir
  PROVE  Spec => []DotDotReachesRoot
<1>1. TInv => DotDotReachesRoot
  BY DEF TInv, Shape, Tree, DotDotReachesRoot, Directories, Dirs
<1> QED BY <1>1, TreeStandsAlways, PTL

(* The arrays that minifs_read_dir allocates are exactly large enough, and *)
(* the inode numbers it finds are in the table.                            *)
THEOREM ReadDirFits ==
  ASSUME OnlyLeafRmdir
  PROVE  Spec => []ReadDirInBounds
<1>1. TInv => ReadDirInBounds
  BY DEF TInv, Shape, Listed, Lists, ReadDirInBounds, Directories, Dirs, EntryAt
<1> QED BY <1>1, TreeStandsAlways, PTL

(* What mkdir and touch have made is what every later lookup of the stored *)
(* name means, even when the name was there already.                       *)
THEOREM NewNameIsFound ==
  ASSUME OnlyLeafRmdir
  PROVE  Spec => CreatedIsFound
<1> DEFINE Found == \A name \in Names, i \in Inode :
                      ~ Live(i) /\ Live(i)' =>
                        /\ Touch(name) => Finds(Stored[name], FILE, i)'
                        /\ Mkdir(name) => Finds(Stored[name], DIR, i)'
<1>1. ASSUME TInv PROVE Found
  <2> SUFFICES ASSUME NEW name \in Names, NEW i \in Inode, ~ Live(i), Live(i)'
               PROVE  /\ Touch(name) => Finds(Stored[name], FILE, i)'
                      /\ Mkdir(name) => Finds(Stored[name], DIR, i)'
    OBVIOUS
  <2>1. current_dir \in Inode \cup {None} /\ None \in Inode \cup {None}
    BY <1>1 DEF TInv, IInv, Shell
  <2>2. ASSUME Touch(name) PROVE Finds(Stored[name], FILE, i)'
    <3>1. FILE # DIR
      BY DEF FILE, DIR
    <3> QED BY <1>1, <2>1, <2>2, <3>1, CreateShape DEF Touch
  <2>3. ASSUME Mkdir(name) PROVE Finds(Stored[name], DIR, i)'
    BY <1>1, <2>1, <2>3, CreateShape DEF Mkdir
  <2> QED BY <2>2, <2>3
<1>2. TInv /\ [Next]_vars => [Found]_vars
  BY <1>1
<1> HIDE DEF Found
<1>3. Spec => [][Found]_vars
  BY <1>2, TreeStandsAlways, PTL DEF Spec
<1> QED BY <1>3 DEF CreatedIsFound, Found
=============================================================================
