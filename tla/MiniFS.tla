------------------------------- MODULE MiniFS -------------------------------
(***************************************************************************)
(* The MiniFS file system of 02-miniFS: one process that reads commands    *)
(* from a prompt and keeps a tree of directories and files in one file of  *)
(* the host.  Every command of internal/commands/execute.c is one action,  *)
(* together with the functions of internal/fs/fs.c that it calls.          *)
(*                                                                         *)
(* The unit of length is one CELL: the 32 bytes of a directory entry (one  *)
(* byte `used', a name of 27 bytes, an inode number of 4), and of a file   *)
(* as much text.  A block holds BlockCells cells (1024 bytes, 32 cells in  *)
(* the code), so that an entry never straddles two blocks, and the three   *)
(* appends that write one entry allocate as one append of one cell.        *)
(*                                                                         *)
(* A block keeps the cells below its size: the bytes beyond are never read *)
(* before they are written again.  A command that changes the inode or     *)
(* block table ends in minifs_update_superblock, which writes both tables  *)
(* to the disk, so between two commands the tables in memory are those on  *)
(* the disk, and a command that dies before that call leaves the old ones. *)
(***************************************************************************)
EXTENDS Integers, FiniteSets, Sequences

CONSTANTS
  InodeCount,     \* sblock.inode_count
  BlockCount,     \* sblock.block_count
  BlockCells,     \* cells in one block
  Names,          \* the names a user types after a command
  Dot, DotDot,    \* "." and "..", which cd treats apart
  TooLong,        \* the names with more than MAX_FILENAME_SIZE characters
  Stored,         \* Stored[n]: what snprintf(buffer, 27, "%s", n) leaves of n
  Texts,          \* what the text in one cell of a file may be
  InputLengths,   \* cells of text typed at the prompt of write
  FreedLengths,   \* what strlen(input) may give after free(input)
  MaxFileSize,    \* bound on inode.size of a file, which that strlen adds to
  OnlyLeafRmdir   \* TRUE: the user never asks for rmdir of a live directory
                  \* that is the parent of a live directory

Inode == 0 .. InodeCount - 1
Block == 0 .. BlockCount - 1
None  == -1       \* no next block, no parent, no inode

EMPTY == "empty"  \* MINIFS_INODE_EMPTY, MINIFS_BLOCK_EMPTY
FILE  == "file"   \* MINIFS_INODE_FILE
DIR   == "dir"    \* MINIFS_INODE_DIRECTORY
USED  == "used"   \* MINIFS_BLOCK_USED

ASSUME SizesAssumption ==
  /\ InodeCount \in Nat \ {0}
  /\ BlockCount \in Nat \ {0}
  /\ BlockCells \in Nat \ {0}
  /\ MaxFileSize \in Nat

ASSUME InputAssumption ==
  /\ TooLong \subseteq Names
  /\ Stored \in [Names -> Names]
  /\ InputLengths \subseteq Nat
  /\ FreedLengths \subseteq Nat
  /\ OnlyLeafRmdir \in BOOLEAN

VARIABLES
  inode_map,         \* [Inode -> type, root_block, parent, size]
  block_map,         \* [Block -> type, next_block, cells]; Len(cells) is size
  used_inode_count,  \* root is not counted
  used_block_count,  \* the first block of root is not counted
  current_dir,
  reply              \* how the last command ended

tables == <<inode_map, block_map, used_inode_count, used_block_count>>
vars   == <<inode_map, block_map, used_inode_count, used_block_count,
            current_dir, reply>>

-----------------------------------------------------------------------------
(* Cells, blocks and inodes.                                               *)

(* Text has no inode number: its bytes read as one lie far above           *)
(* inode_count.  Its first byte, where an entry keeps `used', is not 0.    *)
Entry(name, i) == [used |-> TRUE, name |-> name, inode |-> i]
Text(t)        == [used |-> TRUE, name |-> t, inode |-> None]
Cell == [used : BOOLEAN, name : Names \cup Texts, inode : (Inode \ {0}) \cup {None}]

FreeInodeRec == [type |-> EMPTY, root_block |-> 0, parent |-> 0, size |-> 0]
FreeBlockRec == [type |-> EMPTY, next_block |-> 0, cells |-> <<>>]
NewBlockRec  == [type |-> USED, next_block |-> None, cells |-> <<>>]

Live(i) == inode_map[i].type # EMPTY

Lowest(S) == {x \in S : \A y \in S : x <= y}

(* What find_free_inode and find_free_block search, and find lowest first. *)
(* The counters are unsigned: one below 0 has wrapped to a number far      *)
(* above inode_count or block_count, and nothing is searched.              *)
FreeInodes ==
  {i \in Inode : used_inode_count \in 0 .. InodeCount - 1 /\ ~ Live(i)}
FreeBlocks(bm, used) ==
  {b \in Block : used \in 0 .. BlockCount - 1 /\ bm[b].type = EMPTY}

(* The blocks that a loop `while (current_block >= low)' visits from b on: *)
(* the least set that holds b and follows next_block.                      *)
Closed(bm, b, low) ==
  {S \in SUBSET Block :
     /\ b >= low => b \in S
     /\ \A y \in S : bm[y].next_block >= low => bm[y].next_block \in S}

Walk(bm, b, low) ==
  LET closed == Closed(bm, b, low)
  IN  {x \in Block : \A S \in closed : x \in S}

(* How many blocks come before x in the chain that starts at b.            *)
BlocksBefore(bm, b, x) == Cardinality(Walk(bm, b, 0)) - Cardinality(Walk(bm, x, 0))

(* Where cells lie in the chain from b: cell s[2] of block s[1].           *)
Slots(bm, b) == {s \in Walk(bm, b, 0) \X (1 .. BlockCells) : s[2] <= Len(bm[s[1]].cells)}
CellAt(bm, s) == bm[s[1]].cells[s[2]]

(* A loop over the chain meets slot s before slot t.                       *)
Precedes(bm, s, t) ==
  \/ s[1] = t[1] /\ s[2] < t[2]
  \/ s[1] # t[1] /\ t[1] \in Walk(bm, s[1], 0)

(* The number minifs_read_dir gives the entry in slot s.                   *)
Index(bm, b, s) == Cardinality({r \in Slots(bm, b) : Precedes(bm, r, s)})

-----------------------------------------------------------------------------
(* minifs_append_data.                                                     *)

LastBlocks(bm, b) == {x \in Walk(bm, b, 0) : bm[x].next_block < 0}

(* Bug: what does not fill a whole new block is left over.                 *)
BlocksFilled(bm, last, n) ==
  LET room == BlockCells - Len(bm[last].cells)
  IN  IF n <= room THEN 0 ELSE (n - room) \div BlockCells

(* The blocks the append takes beyond `last', whose free room comes first. *)
BlocksNeeded(bm, last, n) ==
  LET room == BlockCells - Len(bm[last].cells)
  IN  IF n <= room THEN 0 ELSE (n - room + BlockCells - 1) \div BlockCells

(* Each of the n searches asks for used_block_count < block_count.         *)
EnoughBlocks(bm, used, n) ==
  \/ n = 0
  \/ n <= Cardinality(FreeBlocks(bm, used)) /\ used + n <= BlockCount

(* The n lowest free blocks in the order in which they are found.          *)
NewBlocks(bm, used, n) ==
  {nb \in [1 .. n -> FreeBlocks(bm, used)] :
     /\ \A j, k \in 1 .. n : j < k => nb[j] < nb[k]
     /\ \A b \in FreeBlocks(bm, used) :
          (\E k \in 1 .. n : b < nb[k]) => \E j \in 1 .. n : nb[j] = b}

(* Bug: the new blocks are filled and never linked to `last'.              *)
AppendedUnlinked(bm, last, data, nb) ==
  LET room == BlockCells - Len(bm[last].cells)
      kept == IF room < Len(data) THEN room ELSE Len(data)
  IN  [b \in Block |->
         IF b = last THEN [bm[b] EXCEPT !.cells = @ \o SubSeq(data, 1, kept)]
         ELSE IF \E k \in 1 .. Len(nb) : nb[k] = b THEN NewBlockRec
         ELSE bm[b]]

(* Bug: every new block is linked to `last', so that only the final one    *)
(* stays in the chain.                                                     *)
AppendedLinksLast(bm, last, data, nb) ==
  LET n    == Len(nb)
      room == BlockCells - Len(bm[last].cells)
      piece(k) == SubSeq(data, room + (k - 1) * BlockCells + 1,
                         IF k = n THEN Len(data) ELSE room + k * BlockCells)
  IN  [b \in Block |->
         IF b = last
         THEN [bm[b] EXCEPT
                 !.cells = @ \o SubSeq(data, 1, IF room < Len(data) THEN room ELSE Len(data)),
                 !.next_block = IF n = 0 THEN @ ELSE nb[n]]
         ELSE IF \E k \in 1 .. n : nb[k] = b
         THEN [type |-> USED, next_block |-> None,
               cells |-> piece(CHOOSE j \in 1 .. n : nb[j] = b)]
         ELSE bm[b]]

(* Fill `last', then one new block after the other, and link them.         *)
Appended(bm, last, data, nb) ==
  LET n    == Len(nb)
      room == BlockCells - Len(bm[last].cells)
      upto(k) == room + k * BlockCells     \* where block k of nb ends
      piece(from, to) ==
        SubSeq(data, from, IF to < Len(data) THEN to ELSE Len(data))
  IN  [b \in Block |->
         IF b = last
         THEN [bm[b] EXCEPT
                 !.cells = @ \o piece(1, room),
                 !.next_block = IF n = 0 THEN @ ELSE nb[1]]
         ELSE IF \E k \in 1 .. n : nb[k] = b
         THEN LET k == CHOOSE j \in 1 .. n : nb[j] = b
              IN  [type |-> USED,
                   next_block |-> IF k < n THEN nb[k + 1] ELSE None,
                   cells |-> piece(upto(k - 1) + 1, upto(k))]
         ELSE bm[b]]

-----------------------------------------------------------------------------
(* minifs_remove_from_dir clears the byte `used' of one entry on the disk. *)
(* The body of block b lies right before that of b + 1, so cells count on  *)
(* from block to block: cell c of block b is number b * BlockCells + c.    *)

(* Blocks the loop skips: `index * 32 > block_size', although entry        *)
(* number BlockCells is the first of the second block.                     *)
Hops(index) == IF index = 0 THEN 0 ELSE (index - 1) \div BlockCells

(* next_block of the last block is -1; one hop more reads out of bounds.   *)
WildRemove(b, index) == Hops(index) > Cardinality(Walk(block_map, b, 0))

RemovedCells(b, index) ==
  LET hops   == Hops(index)
      chain  == Walk(block_map, b, 0)
      blocks == IF hops = Cardinality(chain) THEN {None}
                ELSE {x \in chain : BlocksBefore(block_map, b, x) = hops}
  IN  {x * BlockCells + index - hops * BlockCells : x \in blocks}

ClearUsed(bm, numbers) ==
  [b \in Block |->
     [bm[b] EXCEPT !.cells =
        [k \in 1 .. Len(bm[b].cells) |->
           IF b * BlockCells + k - 1 \in numbers
           THEN [bm[b].cells[k] EXCEPT !.used = FALSE]
           ELSE bm[b].cells[k]]]]

-----------------------------------------------------------------------------
(* The entries of the current directory, and looking a name up in them.    *)

InDir == current_dir \in Inode
DirRoot == inode_map[current_dir].root_block
DirSlots == Slots(block_map, DirRoot)
EntryAt(s) == CellAt(block_map, s)

(* inode_map is indexed with what the entry holds: text there is a wild    *)
(* read that ends the process.                                             *)
Wild == {s \in DirSlots : EntryAt(s).inode \notin Inode}

(* minifs_read_dir fills arrays of inode.size elements.                    *)
Overflow == Cardinality(DirSlots) > inode_map[current_dir].size

(* Bug: the type of the inode is not compared.                             *)
MatchesAnyType(name, type) ==
  {s \in DirSlots \ Wild :
     /\ \A w \in Wild : Precedes(block_map, s, w)
     /\ inode_map[EntryAt(s).inode].type # EMPTY
     /\ EntryAt(s).name = name}

(* The entries a lookup meets before it can die.  It compares the name and *)
(* the type of the inode; it never looks at `used'.                        *)
Matches(name, type) ==
  {s \in DirSlots \ Wild :
     /\ \A w \in Wild : Precedes(block_map, s, w)
     /\ inode_map[EntryAt(s).inode].type = type
     /\ EntryAt(s).name = name}

First(S) == {s \in S : \A t \in S \ {s} : Precedes(block_map, s, t)}
Latest(S) == {s \in S : \A t \in S \ {s} : Precedes(block_map, t, s)}

-----------------------------------------------------------------------------
(* How a command ends.                                                     *)

Stopped == {"died", "exit"}
Refusals == {"usage", "too long", "no inodes", "no blocks", "not found"}
Replies == Stopped \cup Refusals \cup {"ok", "data", "short", "garbage"}

Running == reply \notin Stopped

Say(r) == reply' = r /\ UNCHANGED <<tables, current_dir>>

(* exit(-1) or a signal: what was in memory only is lost, the disk keeps   *)
(* the tables of the last minifs_update_superblock and the bodies bm.      *)
Die(bm) ==
  /\ reply' = "died"
  /\ block_map' = bm
  /\ UNCHANGED <<inode_map, used_inode_count, used_block_count, current_dir>>

(* A command that reads the current directory dies when that has no inode  *)
(* at all, and may die on the heap it has overrun.                         *)
ReadDirDies == (InDir => Overflow) /\ Die(block_map)

-----------------------------------------------------------------------------
(* The commands.                                                           *)

(* minifs_init, when the file is not there yet, and minifs_open.           *)
Init ==
  /\ inode_map = [i \in Inode |->
       IF i = 0 THEN [FreeInodeRec EXCEPT !.type = DIR] ELSE FreeInodeRec]
  /\ block_map = [b \in Block |-> IF b = 0 THEN NewBlockRec ELSE FreeBlockRec]
  /\ used_inode_count = 0
  /\ used_block_count = 0
  /\ current_dir = 0
  /\ reply = "ok"

(* The program is started again on the same file: minifs_open.             *)
Open ==
  /\ ~ Running
  /\ current_dir' = 0
  /\ reply' = "ok"
  /\ UNCHANGED tables

(* minifs_exit, or the process is killed between two commands.             *)
Exit == Running /\ Say("exit")

(* readline returns NULL at the end of the input, and split_line takes its *)
(* length.                                                                 *)
EndOfInput == Running /\ Die(block_map)

(* A command without the argument it needs.                                *)
Usage == Running /\ Say("usage")

(* help, debug, an empty line, and a word that is no command.              *)
Help == Running /\ Say("ok")

Ls ==
  /\ Running
  /\ \/ ReadDirDies
     \/ InDir /\ Wild # {} /\ Die(block_map)
     \/ InDir /\ Wild = {} /\ Say("ok")

CdDotDot ==
  \/ ~ InDir /\ Die(block_map)
  \/ /\ InDir
     /\ current_dir' = inode_map[current_dir].parent
     /\ reply' = "ok"
     /\ UNCHANGED tables

CdInto(name) ==
  \/ ReadDirDies
  \/ InDir /\ Matches(name, DIR) = {} /\ Wild # {} /\ Die(block_map)
  \/ InDir /\ Matches(name, DIR) = {} /\ Wild = {} /\ Say("not found")
  \/ /\ InDir
     /\ \E s \in First(Matches(name, DIR)) : current_dir' = EntryAt(s).inode
     /\ reply' = "ok"
     /\ UNCHANGED tables

Cd(name) ==
  /\ Running
  /\ \/ name = Dot /\ Say("ok")
     \/ name = DotDot /\ CdDotDot
     \/ name \notin {Dot, DotDot} /\ CdInto(name)

(* What mkdir and touch share once inode i and block b are theirs: the two *)
(* records are written, and one entry goes to the end of the directory.    *)
CreateWith(name, type, parent, i, b) ==
  LET im == [inode_map EXCEPT ![i] =
               [type |-> type, root_block |-> b, parent |-> parent, size |-> 0]]
      bm == [block_map EXCEPT ![b] = NewBlockRec]
      used == used_block_count + 1
  IN  \E last \in LastBlocks(bm, im[current_dir].root_block) :
        LET n == BlocksNeeded(bm, last, 1)
        IN  \/ ~ EnoughBlocks(bm, used, n) /\ Die(block_map)
            \/ /\ EnoughBlocks(bm, used, n)
               /\ \E nb \in NewBlocks(bm, used, n) :
                    block_map' = Appended(bm, last, <<Entry(Stored[name], i)>>, nb)
               /\ inode_map' = [im EXCEPT ![current_dir].size = @ + 1]
               /\ used_inode_count' = used_inode_count + 1
               /\ used_block_count' = used + n
               /\ reply' = "ok"
               /\ UNCHANGED current_dir

Create(name, type, parent) ==
  LET free == FreeBlocks(block_map, used_block_count)
  IN  \/ name \in TooLong /\ Say("too long")
      \/ name \notin TooLong /\ FreeInodes = {} /\ Say("no inodes")
      \/ /\ name \notin TooLong /\ FreeInodes # {}
         /\ \/ free = {} /\ Say("no blocks")
            \/ free # {} /\ ~ InDir /\ Die(block_map)
            \/ /\ InDir
               /\ \E i \in Lowest(FreeInodes), b \in Lowest(free) :
                    CreateWith(name, type, parent, i, b)

(* Bug: a directory is made without a parent, as a file is.                *)
MkdirWithoutParent(name) == Running /\ Create(name, DIR, None)

Mkdir(name) == Running /\ Create(name, DIR, current_dir)
Touch(name) == Running /\ Create(name, FILE, None)

(* Inode i and the blocks of `freed' become free, the counters go down.    *)
Released(i, bm, freed, inodes, blocks) ==
  /\ block_map' = [b \in Block |-> IF b \in freed THEN FreeBlockRec ELSE bm[b]]
  /\ inode_map' = [inode_map EXCEPT ![i] = FreeInodeRec]
  /\ used_inode_count' = used_inode_count - inodes
  /\ used_block_count' = used_block_count - blocks
  /\ reply' = "ok"
  /\ UNCHANGED current_dir

FreedChain(i) == Walk(block_map, inode_map[i].root_block, 1)

(* Bug: the inode counter is forgotten.                                    *)
FreeInodeKeepsCount(i, bm) ==
  Released(i, bm, FreedChain(i), 0, Cardinality(FreedChain(i)))

(* Bug: the block counter goes down once, after the loop.                  *)
FreeInodeCountsChain(i, bm) == Released(i, bm, FreedChain(i), 1, 1)

(* Bug: the block counter goes down once more, after the loop.             *)
FreeInodeCountsTwice(i, bm) ==
  Released(i, bm, FreedChain(i), 1, Cardinality(FreedChain(i)) + 1)

(* Bug: only the first block is freed.                                     *)
FreeInodeFirstBlock(i, bm) == Released(i, bm, {inode_map[i].root_block}, 1, 1)

(* Bug: the directory counts one entry less, although the entry stays.     *)
FreeInodeShrinksDir(i, bm) ==
  LET freed == FreedChain(i)
  IN  /\ block_map' = [b \in Block |-> IF b \in freed THEN FreeBlockRec ELSE bm[b]]
      /\ inode_map' = [inode_map EXCEPT ![i] = FreeInodeRec, ![current_dir].size = @ - 1]
      /\ used_inode_count' = used_inode_count - 1
      /\ used_block_count' = used_block_count - Cardinality(freed)
      /\ reply' = "ok"
      /\ UNCHANGED current_dir

(* What rm and rmdir share: the chain is freed from root_block on while    *)
(* the block number is positive, and the inode is.                         *)
FreeInode(i, bm) ==
  Released(i, bm, FreedChain(i), 1, Cardinality(FreedChain(i)))

(* The loop of rm and rmdir clears `used' of every match as it goes, then  *)
(* takes the inode of the last.                                            *)
MatchesCleared(name, type) ==
  ClearUsed(block_map,
    UNION {RemovedCells(DirRoot, Index(block_map, DirRoot, s)) : s \in Matches(name, type)})

LeafOnly(i) ==
  OnlyLeafRmdir => \A d \in Inode : inode_map[d].type = DIR => inode_map[d].parent # i

Rmdir(name) ==
  /\ Running
  /\ \/ ReadDirDies
     \/ InDir /\ Wild # {} /\ Die(MatchesCleared(name, DIR))
     \/ InDir /\ Wild = {} /\ Matches(name, DIR) = {} /\ Say("not found")
     \/ /\ InDir /\ Wild = {}
        /\ \E s \in Latest(Matches(name, DIR)) :
             /\ LeafOnly(EntryAt(s).inode)
             /\ FreeInode(EntryAt(s).inode, MatchesCleared(name, DIR))

(* rm calls minifs_remove_from_dir once more, with the inode number where  *)
(* the index of the entry belongs.                                         *)
Rm(name) ==
  /\ Running
  /\ \/ ReadDirDies
     \/ InDir /\ Wild # {} /\ Die(MatchesCleared(name, FILE))
     \/ InDir /\ Wild = {} /\ Matches(name, FILE) = {} /\ Say("not found")
     \/ /\ InDir /\ Wild = {}
        /\ \E s \in Latest(Matches(name, FILE)) :
             LET i  == EntryAt(s).inode
                 bm == MatchesCleared(name, FILE)
             IN  \/ WildRemove(DirRoot, i) /\ Die(bm)
                 \/ /\ ~ WildRemove(DirRoot, i)
                    /\ FreeInode(i, ClearUsed(bm, RemovedCells(DirRoot, i)))

(* write: the text goes to the end of the chain, then size grows by the    *)
(* strlen of a buffer that has been freed.  MaxFileSize bounds the model.  *)
WriteTo(i, data) ==
  \E last \in LastBlocks(block_map, inode_map[i].root_block) :
    LET n == BlocksNeeded(block_map, last, Len(data))
    IN  \/ ~ EnoughBlocks(block_map, used_block_count, n) /\ Die(block_map)
        \/ /\ EnoughBlocks(block_map, used_block_count, n)
           /\ \E nb \in NewBlocks(block_map, used_block_count, n) :
                block_map' = Appended(block_map, last, data, nb)
           /\ used_block_count' = used_block_count + n
           /\ \E len \in FreedLengths \cup {Len(data)} :
                /\ inode_map[i].size + len <= MaxFileSize
                /\ inode_map' = [inode_map EXCEPT ![i].size = @ + len]
           /\ reply' = "ok"
           /\ UNCHANGED <<used_inode_count, current_dir>>

Write(name, data) ==
  /\ Running
  /\ \/ ReadDirDies
     \/ InDir /\ Wild # {} /\ Die(block_map)
     \/ InDir /\ Wild = {} /\ Matches(name, FILE) = {} /\ Say("not found")
     \/ /\ InDir /\ Wild = {}
        /\ \E s \in Latest(Matches(name, FILE)) : WriteTo(EntryAt(s).inode, data)

(* read: a buffer of inode.size takes every cell of the chain, and         *)
(* inode.size characters of it are printed.                                *)
ReadFrom(i) ==
  LET stored == Cardinality(Slots(block_map, inode_map[i].root_block))
      size   == inode_map[i].size
  IN  \/ size = stored /\ Say("data")
      \/ size > stored /\ Say("garbage")
      \/ size < stored /\ (Say("short") \/ Die(block_map))

Read(name) ==
  /\ Running
  /\ \/ ReadDirDies
     \/ InDir /\ Wild # {} /\ Die(block_map)
     \/ InDir /\ Wild = {} /\ Matches(name, FILE) = {} /\ Say("not found")
     \/ /\ InDir /\ Wild = {}
        /\ \E s \in Latest(Matches(name, FILE)) : ReadFrom(EntryAt(s).inode)

Inputs == {[c \in 1 .. n |-> Text(t)] : n \in InputLengths, t \in Texts}

Next ==
  \/ Open \/ Exit \/ EndOfInput \/ Usage \/ Help \/ Ls
  \/ \E name \in Names \cup {Dot, DotDot} : Cd(name)
  \/ \E name \in Names :
       \/ Mkdir(name) \/ Rmdir(name) \/ Touch(name) \/ Rm(name) \/ Read(name)
       \/ \E data \in Inputs : Write(name, data)

Spec == Init /\ [][Next]_vars

-----------------------------------------------------------------------------
(* Properties.                                                             *)

(* The type of every variable.                                             *)
TypeOK ==
  /\ inode_map \in [Inode -> [type : {EMPTY, FILE, DIR},
                              root_block : Block,
                              parent : Inode \cup {None},
                              size : Nat]]
  /\ block_map \in [Block -> [type : {EMPTY, USED},
                              next_block : Block \cup {None},
                              cells : Seq(Cell)]]
  /\ \A b \in Block : Len(block_map[b].cells) <= BlockCells
  /\ used_inode_count \in 0 .. InodeCount - 1
  /\ used_block_count \in 0 .. BlockCount - 1
  /\ current_dir \in Inode \cup {None}
  /\ reply \in Replies

(* used_inode_count and used_block_count, from which find_free_inode and   *)
(* find_free_block decide that nothing is left, count exactly the inodes   *)
(* and blocks in use besides the root's.                                   *)
Accounting ==
  /\ used_inode_count + 1 = Cardinality({i \in Inode : Live(i)})
  /\ used_block_count + 1 = Cardinality({b \in Block : block_map[b].type = USED})

(* Every live inode owns a chain of used blocks that ends, no two live     *)
(* inodes share a block, and every used block belongs to one of them: what *)
(* mkdir, touch and write take, rm and rmdir give back.                    *)
Owned(i) == Walk(block_map, inode_map[i].root_block, 0)

Ownership ==
  /\ \A i \in Inode : Live(i) =>
       /\ LastBlocks(block_map, inode_map[i].root_block) # {}
       /\ \A b \in Owned(i) : block_map[b].type = USED
  /\ \A i, j \in Inode : i # j /\ Live(i) /\ Live(j) => Owned(i) \cap Owned(j) = {}
  /\ \A b \in Block : block_map[b].type = USED =>
       \E i \in Inode : Live(i) /\ b \in Owned(i)

(* mkdir and touch refuse for want of room only when every inode, or every *)
(* block, really is in use: the counters never make them give up early.    *)
RefusedOnlyWhenFull ==
  /\ reply = "no inodes" => \A i \in Inode : Live(i)
  /\ reply = "no blocks" => \A b \in Block : block_map[b].type = USED

(* The current directory is one; `..' leads from every directory to one,   *)
(* and in the end to the root.  cd, ls and every lookup rest on it.        *)
CurrentDirIsDirectory ==
  current_dir \in Inode /\ inode_map[current_dir].type = DIR

Directories == {i \in Inode : inode_map[i].type = DIR}

DotDotReachesRoot ==
  /\ \A d \in Directories : inode_map[d].parent \in Directories
  /\ \A S \in SUBSET Directories :
       (S # {} /\ \A d \in S : inode_map[d].parent \in S) => 0 \in S

(* inode.size elements are just enough for the entries minifs_read_dir     *)
(* finds in a directory, and each of them has an inode number.             *)
ReadDirInBounds ==
  \A d \in Directories :
    LET slots == Slots(block_map, inode_map[d].root_block)
    IN  /\ Cardinality(slots) = inode_map[d].size
        /\ \A s \in slots : EntryAt(s).inode \in Inode

(* After touch and mkdir, the name they stored leads rm, rmdir, read and   *)
(* write (which take the last match) to the new inode, whatever entries    *)
(* the directory already holds under that name.                            *)
Finds(name, type, i) ==
  \E s \in Latest(Matches(name, type)) : EntryAt(s).inode = i

CreatedIsFound ==
  [][\A name \in Names, i \in Inode :
       ~ Live(i) /\ Live(i)' =>
         /\ Touch(name) => Finds(Stored[name], FILE, i)'
         /\ Mkdir(name) => Finds(Stored[name], DIR, i)']_vars

-----------------------------------------------------------------------------
(* What the documentation says and the code does not do.                   *)

(* README.md:53, "Remove file: rm filename": the other entries stay in use *)
(* and ls goes on listing them.                                            *)
RmHidesOnlyItsName ==
  [][\A name \in Names : Rm(name) /\ reply' = "ok" =>
       \A s \in DirSlots :
         EntryAt(s).used /\ EntryAt(s).name # name => block_map'[s[1]].cells[s[2]].used]_vars

=============================================================================
