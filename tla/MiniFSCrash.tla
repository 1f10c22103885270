----------------------------- MODULE MiniFSCrash -----------------------------
(***************************************************************************)
(* MiniFS killed while minifs_update_superblock writes the tables: first   *)
(* the superblock with both counters, then every inode, then the head of   *)
(* every block, one minifs_write_block each.  A killed process leaves the  *)
(* records written so far, and minifs_open starts from them.               *)
(*                                                                         *)
(* The commands are those of MiniFS.  The bodies of blocks are written by  *)
(* the commands themselves, before the tables, and only where no head on   *)
(* the disk reaches yet; `used' bytes are cleared in place.  The writes of *)
(* a process reach the file in order: the machine itself does not stop.    *)
(*                                                                         *)
(* The second minifs_remove_from_dir of rm may run off the directory and   *)
(* clear a byte `used' of block -1, whose body would lie where the last    *)
(* heads are: until that head is written again, the disk has it with the   *)
(* lowest byte of one field 0.                                             *)
(***************************************************************************)
EXTENDS MiniFS

CONSTANTS
  MaxWrap,   \* bound on how far kills take a counter below 0
  MaxEntries,\* bound on the entries a directory gets
  Under,     \* Under[c]: the head and the field of it whose lowest byte lies
             \* where cell c of the bodies would be, cells before 0 being those
             \* of block -1; in the code 938 to 1023, each field in turn
  LowBlocks, \* how many block numbers one byte holds: 256
  LowCells   \* how many cells a size of one byte stands for: 8

Fields == {"next_block", "size", "type"}

ASSUME CrashAssumption ==
  /\ MaxWrap \in Nat /\ MaxEntries \in Nat
  /\ Under \in [1 - BlockCells .. -1 -> [head : Block, field : Fields]]
  /\ LowBlocks \in Nat \ {0} /\ LowCells \in Nat \ {0}

VARIABLES
  image,     \* the records in the file: counters, inodes, heads of blocks,
             \* as they were written; a head stands with the cells below its
             \* size
  stray,     \* the fields of heads that hold a byte of rm instead, and have
             \* not been written since
  doing,     \* what the command does that is writing the tables back
  target,    \* the inodes it is about
  written,   \* how many records it has written
  torn       \* a command that makes or fills an inode has been killed, or an
             \* rm while its byte was in a head

update == <<doing, target, written, stray>>
cvars  == <<vars, image, update, torn>>

Idle == doing = "none"

(* Where the parts lie, in records.                                        *)
Writes == 1 + InodeCount + BlockCount

(* Bug: the size of the superblock is added twice.                         *)
InodeOffsetShifted(i) == 2 + i

InodeOffset(i) == 1 + i
HeadOffset(b)  == 1 + InodeCount + b

(* A head with 0 in the lowest byte of each of `fields'.  A next_block     *)
(* below 0 stays below 0.                                                  *)
Struck(head, fields) ==
  LET kept == Len(head.cells) - (Len(head.cells) % LowCells)
  IN  [type |-> IF "type" \in fields THEN EMPTY ELSE head.type,
       next_block |-> IF "next_block" \in fields /\ head.next_block >= 0
                      THEN head.next_block - (head.next_block % LowBlocks)
                      ELSE head.next_block,
       cells |-> IF "size" \in fields THEN SubSeq(head.cells, 1, kept) ELSE head.cells]

StruckHeads == {hit.head : hit \in stray}

(* What minifs_open reads: one superblock, then the two tables.            *)
OpenedCounters == image[0]
OpenedInodes   == [i \in Inode |-> image[1 + i]]
Heads          == [b \in Block |-> image[1 + InodeCount + b]]
OpenedBlocks   ==
  [b \in Block |->
     IF b \in StruckHeads
     THEN Struck(Heads[b], {hit.field : hit \in {h \in stray : h.head = b}})
     ELSE Heads[b]]

(* The byte has changed something: the type of a free head is 0 anyway.    *)
Damaged == OpenedBlocks # Heads

Counters == <<used_inode_count, used_block_count>>

(* The image with bodies bm.                                               *)
WithBodies(bm) ==
  [a \in 0 .. Writes - 1 |-> IF a > InodeCount THEN bm[a - InodeCount - 1] ELSE image[a]]

CrashInit ==
  /\ Init
  /\ image = [a \in 0 .. Writes - 1 |->
                IF a = 0 THEN Counters
                ELSE IF a <= InodeCount THEN inode_map[a - 1]
                ELSE block_map[a - InodeCount - 1]]
  /\ doing = "none" /\ target = {} /\ written = 0 /\ stray = {}
  /\ torn = FALSE

-----------------------------------------------------------------------------
(* Commands.  After a killed mkdir, touch or write, or a kill that leaves  *)
(* a damaged head, the tables may contain chains that lead into free or    *)
(* foreign blocks: nothing but starting and leaving the program is         *)
(* modelled from there.                                                    *)

Quiet ==
  /\ Idle
  /\ \/ Open \/ Exit
     \/ ~ torn /\ (EndOfInput \/ Usage \/ Help \/ Ls)
     \/ ~ torn /\ \E name \in Names \cup {Dot, DotDot} : Cd(name)
     \/ ~ torn /\ \E name \in Names : Read(name)
  /\ UNCHANGED <<image, update, torn>>

(* A command that succeeds goes on to minifs_update_superblock; `bodies'   *)
(* are the blocks on the disk by then, `hits' where else it has put a 0.   *)
Then(what, inodes, bodies, hits) ==
  /\ IF reply' = "ok"
     THEN doing' = what /\ target' = inodes /\ stray' = hits /\ image' = WithBodies(bodies)
     ELSE UNCHANGED <<doing, target, stray>> /\ image' = WithBodies(block_map')
  /\ UNCHANGED <<written, torn>>

Makes(name) ==
  /\ Idle /\ ~ torn
  /\ InDir => inode_map[current_dir].size < MaxEntries
  /\ Mkdir(name) \/ Touch(name)
  /\ Then("make", {current_dir} \cup {i \in Inode : DirRoot \in Owned(i) \/ (Live(i)' /\ ~ Live(i))},
          Heads, {})

Fills(name) ==
  /\ Idle /\ ~ torn
  /\ \E data \in Inputs : Write(name, data)
  /\ Then("fill", {EntryAt(s).inode : s \in Latest(Matches(name, FILE))}, Heads, {})

(* The cells of the second minifs_remove_from_dir, which only rm calls.    *)
Again(name, type) ==
  IF type = DIR THEN {}
  ELSE UNION {RemovedCells(DirRoot, EntryAt(s).inode) : s \in Latest(Matches(name, type))}

(* The bodies after rm or rmdir has cleared `used', the freed ones too,    *)
(* and the heads it has struck.                                            *)
Cleared(name, type) == ClearUsed(MatchesCleared(name, type), Again(name, type))
Strikes(name, type) == {Under[c] : c \in Again(name, type) \cap DOMAIN Under}

Drops(name) ==
  /\ Idle /\ ~ torn
  /\ \E type \in {FILE, DIR} :
       /\ IF type = FILE THEN Rm(name) ELSE Rmdir(name)
       /\ Then("drop", {i \in Inode : Live(i) /\ ~ Live(i)'},
               Cleared(name, type), Strikes(name, type))

-----------------------------------------------------------------------------
(* minifs_update_superblock.                                               *)

(* The superblock, one inode or one head: where it goes and what it is.    *)
Superblock == <<0, Counters>>
InodeAt(i) == <<InodeOffset(i), inode_map[i]>>
HeadAt(b)  == <<HeadOffset(b), block_map[b]>>

(* Bug: the heads are written before the inodes.                           *)
RecordHeadsFirst(k) ==
  IF k = 0 THEN Superblock
  ELSE IF k <= BlockCount THEN HeadAt(k - 1) ELSE InodeAt(k - 1 - BlockCount)

(* Bug: the superblock is written last.                                    *)
RecordSuperblockLast(k) ==
  IF k < InodeCount THEN InodeAt(k)
  ELSE IF k < InodeCount + BlockCount THEN HeadAt(k - InodeCount) ELSE Superblock

(* Bug: the loop over the heads ends one block early.                      *)
RecordNotLast(k) ==
  IF k = 0 \/ k = InodeCount + BlockCount THEN Superblock
  ELSE IF k <= InodeCount THEN InodeAt(k - 1) ELSE HeadAt(k - 1 - InodeCount)

(* Bug: a head that has not changed since it was read is left out.         *)
RecordIfChanged(k) ==
  IF k > InodeCount /\ Heads[k - 1 - InodeCount] = block_map[k - 1 - InodeCount] THEN Superblock
  ELSE IF k = 0 THEN Superblock
  ELSE IF k <= InodeCount THEN InodeAt(k - 1) ELSE HeadAt(k - 1 - InodeCount)

(* The record that is written after k others.                              *)
Record(k) ==
  IF k = 0 THEN Superblock
  ELSE IF k <= InodeCount THEN InodeAt(k - 1) ELSE HeadAt(k - 1 - InodeCount)

Resume == doing' = "none" /\ target' = {} /\ written' = 0

WriteRecord ==
  /\ ~ Idle
  /\ image' = [image EXCEPT ![Record(written)[1]] = Record(written)[2]]
  /\ stray' = {hit \in stray : HeadOffset(hit.head) # Record(written)[1]}
  /\ IF written + 1 < Writes
     THEN written' = written + 1 /\ UNCHANGED <<doing, target>>
     ELSE Resume
  /\ UNCHANGED <<vars, torn>>

(* The process is killed before its next write: what was in memory is      *)
(* gone, minifs_open will read the image.                                  *)
Kill ==
  /\ ~ Idle
  /\ \A n \in {1, 2} : OpenedCounters[n] >= - MaxWrap
  /\ inode_map' = OpenedInodes
  /\ block_map' = OpenedBlocks
  /\ used_inode_count' = OpenedCounters[1]
  /\ used_block_count' = OpenedCounters[2]
  /\ reply' = "died"
  /\ Resume
  /\ torn' = (torn \/ doing # "drop" \/ Damaged)
  /\ image' = WithBodies(OpenedBlocks) /\ stray' = {}
  /\ UNCHANGED current_dir

CrashNext ==
  \/ Quiet \/ WriteRecord \/ Kill
  \/ \E name \in Names : Makes(name) \/ Fills(name) \/ Drops(name)

CrashSpec == CrashInit /\ [][CrashNext]_cvars

-----------------------------------------------------------------------------
(* Properties.                                                             *)

(* Between two commands the disk holds what the memory does: no path of a  *)
(* command, completed, refused or dead half way, leaves a change behind    *)
(* that was not written, or one that was written and undone.               *)
DiskIsMemory ==
  Idle => OpenedInodes = inode_map /\ OpenedBlocks = block_map /\ OpenedCounters = Counters

Chain(im, bm, i) == Walk(bm, im[i].root_block, 0)

PrivateChains(im, bm) ==
  LET live == {i \in Inode : im[i].type # EMPTY}
  IN  /\ \A i \in live :
           /\ LastBlocks(bm, im[i].root_block) # {}
           /\ \A b \in Chain(im, bm, i) : bm[b].type = USED
      /\ \A i, j \in live : i # j => Chain(im, bm, i) \cap Chain(im, bm, j) = {}

(* The chains on the disk, at every moment of the writes of rm and rmdir   *)
(* and after any number of kills: an inode has its whole chain or is free, *)
(* and no block of it belongs to another inode, nor is given to one later. *)
(* The byte `used' and the counters are not part of it, and neither is the *)
(* time in which rm has put its byte into a head.                          *)
DropIsAtomic ==
  ~ torn /\ ~ Damaged /\ doing \in {"none", "drop"} =>
    PrivateChains(OpenedInodes, OpenedBlocks)

(* Whatever the command and whenever it is killed, inodes that it is not   *)
(* about are on the disk as they are in memory, with all their cells but   *)
(* those of a block whose head rm has struck.                              *)
OthersSurvive ==
  \A i \in Inode \ target :
    /\ OpenedInodes[i] = inode_map[i]
    /\ ~ torn /\ Live(i) => \A b \in Owned(i) \ StruckHeads : OpenedBlocks[b] = block_map[b]

(* Killed removals leave blocks behind that nobody owns, but the counters  *)
(* never say more than is in use: they do not refuse too early until they  *)
(* wrap.  (Only a kill that leaves a damaged head may lower what is in use *)
(* and not the counter.)                                                   *)
CountersNeverOver ==
  ~ torn =>
    /\ used_inode_count + 1 <= Cardinality({i \in Inode : Live(i)})
    /\ used_block_count + 1 <= Cardinality({b \in Block : block_map[b].type = USED})
=============================================================================
