-------------------------- MODULE MiniFSCrashProofs --------------------------
(***************************************************************************)
(* Theorems about MiniFSCrash, for tables of any size and commands killed  *)
(* anywhere: between two commands the file holds what is in memory; rm and *)
(* rmdir free a whole chain or none; what a command is not about survives  *)
(* it, but for the one head rm may strike; and the counters never say more *)
(* than is in use.                                                         *)
(***************************************************************************)
EXTENDS MiniFSCrash, MiniFSChains

Address == 0 .. Writes - 1

(* The tables are tables, whatever is in them.                             *)
Tables ==
  /\ inode_map = [i \in Inode |-> inode_map[i]]
  /\ block_map = [b \in Block |-> block_map[b]]
  /\ image = [a \in Address |-> image[a]]
  /\ image[0] = <<image[0][1], image[0][2]>>

(* The records written so far are those of the memory, all of them when no *)
(* update is under way.                                                    *)
Synced ==
  /\ written \in Address
  /\ Idle => written = 0
  /\ \A k \in Address : Idle \/ k < written => image[k] = Record(k)[2]

(* rm has put a byte only into heads that are still to be written.         *)
Pending ==
  /\ Idle => stray = {}
  /\ \A hit \in stray : hit.head \in Block /\ written <= 1 + InodeCount + hit.head

DInv == Tables /\ Synced /\ Pending

(* The heads minifs_open reads are those that were written, but for what   *)
(* rm has struck.                                                          *)
LEMMA NotStruck ==
  /\ \A b \in Block \ StruckHeads : OpenedBlocks[b] = Heads[b]
  /\ OpenedBlocks = [b \in Block |-> OpenedBlocks[b]]
  /\ Heads = [b \in Block |-> Heads[b]]
  /\ stray = {} => OpenedBlocks = Heads /\ StruckHeads = {}
  <1>1. \A b \in Block \ StruckHeads : OpenedBlocks[b] = Heads[b]
    BY DEF OpenedBlocks
  <1>2. /\ OpenedBlocks = [b \in Block |-> OpenedBlocks[b]]
        /\ Heads = [b \in Block |-> Heads[b]]
    BY DEF OpenedBlocks, Heads
  <1>3. stray = {} => StruckHeads = {}
    BY DEF StruckHeads
  <1> QED
    BY <1>1, <1>2, <1>3

LEMMA Layout ==
  /\ InodeCount \in Nat /\ BlockCount \in Nat /\ InodeCount > 0 /\ BlockCount > 0
  /\ Writes = 1 + InodeCount + BlockCount /\ Writes \in Nat /\ Writes > 0
  /\ Inode = 0 .. InodeCount - 1 /\ Block = 0 .. BlockCount - 1
  BY SizesAssumption DEF Writes, Inode, Block

(* Record number k lies at address k.                                      *)
LEMMA RecordAt ==
  ASSUME NEW k \in Address
  PROVE  /\ Record(k)[1] = k
         /\ Record(k)[2] = (IF k = 0 THEN Counters
                            ELSE IF k <= InodeCount THEN inode_map[k - 1]
                            ELSE block_map[k - 1 - InodeCount])
         /\ 0 < k /\ k <= InodeCount => k - 1 \in Inode
         /\ k > InodeCount => k - 1 - InodeCount \in Block
  BY Layout DEF Address, Record, Superblock, InodeAt, HeadAt, InodeOffset, HeadOffset

(* The three readings of the image are its records.                        *)
LEMMA SyncedIsMemory ==
  ASSUME DInv, Idle
  PROVE  /\ OpenedInodes = inode_map /\ OpenedBlocks = block_map /\ OpenedCounters = Counters
         /\ Heads = block_map
  <1>1. ASSUME NEW i \in Inode
        PROVE  image[1 + i] = inode_map[i]
    <2> DEFINE k == 1 + i
    <2>1. k \in Address /\ k = 1 + i /\ k # 0 /\ k <= InodeCount /\ k - 1 = i
      BY Layout DEF Address
    <2> HIDE DEF k
    <2>2. Record(k)[2] = inode_map[k - 1]
      BY <2>1, RecordAt
    <2> QED
      BY <2>1, <2>2 DEF DInv, Synced
  <1>2. ASSUME NEW b \in Block
        PROVE  image[1 + InodeCount + b] = block_map[b]
    <2> DEFINE k == 1 + InodeCount + b
    <2>1. /\ k \in Address /\ k = 1 + InodeCount + b /\ k # 0
          /\ ~ (k <= InodeCount) /\ k - 1 - InodeCount = b
      BY Layout DEF Address
    <2> HIDE DEF k
    <2>2. Record(k)[2] = block_map[k - 1 - InodeCount]
      BY <2>1, RecordAt
    <2> QED
      BY <2>1, <2>2 DEF DInv, Synced
  <1>3. 0 \in Address /\ image[0] = Counters
    BY Layout, RecordAt DEF DInv, Synced, Address
  <1>4. Heads = block_map
    BY <1>2 DEF Heads, DInv, Tables
  <1> QED
    BY <1>1, <1>3, <1>4, NotStruck DEF OpenedInodes, OpenedCounters, DInv, Tables, Pending

LEMMA InitSynced == CrashInit => DInv
  <1> SUFFICES ASSUME CrashInit PROVE DInv
    OBVIOUS
  <1>1. Tables
    BY Layout DEF CrashInit, Init, Tables, Address, Counters
  <1>2. \A k \in Address : image[k] = Record(k)[2]
    <2> SUFFICES ASSUME NEW k \in Address PROVE image[k] = Record(k)[2]
      OBVIOUS
    <2>1. k - InodeCount - 1 = k - 1 - InodeCount
      BY Layout DEF Address
    <2> QED
      BY <2>1, RecordAt DEF CrashInit, Address
  <1>3. 0 \in Address
    BY Layout DEF Address
  <1> QED
    BY <1>1, <1>2, <1>3 DEF CrashInit, DInv, Synced, Pending

(* Nothing but current_dir and reply changes.                              *)
LEMMA QuietSynced ==
  ASSUME DInv, UNCHANGED <<inode_map, block_map, used_inode_count, used_block_count, image, update>>
  PROVE  DInv'
  BY DEF DInv, Tables, Synced, Pending, Idle, update, Record, Superblock, Counters, InodeAt, HeadAt

(* What a command does to the tables, whether it succeeds or not.          *)
Outcome ==
  /\ inode_map' = [i \in Inode |-> inode_map'[i]]
  /\ block_map' = [b \in Block |-> block_map'[b]]
  /\ reply' # "ok" => UNCHANGED <<inode_map, used_inode_count, used_block_count>>

LEMMA ThenSynced ==
  ASSUME DInv, Idle, Outcome, NEW what \in {"make", "fill", "drop"}, NEW inodes, NEW bodies,
         NEW hits, \A hit \in hits : hit.head \in Block, Then(what, inodes, bodies, hits)
  PROVE  DInv'
  <1>1. \A bm : WithBodies(bm) = [a \in Address |-> WithBodies(bm)[a]]
    BY DEF WithBodies, Address
  <1>2. Tables'
    <2>1. \A bm : WithBodies(bm)[0] = image[0]
      BY Layout DEF WithBodies
    <2>2. \E bm : image' = WithBodies(bm)
      BY DEF Then
    <2>3. image' = [a \in Address |-> image'[a]] /\ image'[0] = image[0]
      BY <1>1, <2>1, <2>2
    <2> QED
      BY <2>3 DEF Outcome, DInv, Tables
  <1>3. written = 0 /\ written' = 0 /\ 0 \in Address /\ \A k \in Address : ~ (k < 0)
    BY Layout DEF DInv, Synced, Then, Address
  <1>4. CASE reply' = "ok"
    <2>1. Pending'
      BY <1>3, <1>4, Layout DEF Then, Pending, Idle
    <2> QED
      BY <1>2, <1>3, <1>4, <2>1 DEF Then, DInv, Synced, Idle
  <1>5. CASE reply' # "ok"
    <2>1. /\ image' = WithBodies(block_map') /\ Idle' /\ Pending'
          /\ UNCHANGED <<inode_map, used_inode_count, used_block_count>>
      BY <1>5 DEF Then, Outcome, Idle, DInv, Pending
    <2>2. ASSUME NEW k \in Address
          PROVE  image'[k] = Record(k)[2]'
      <3>1. image'[k] = IF k > InodeCount THEN block_map'[k - InodeCount - 1] ELSE image[k]
        BY <2>1 DEF WithBodies, Address
      <3>2. CASE k > InodeCount
        <4>1. k - InodeCount - 1 = k - 1 - InodeCount /\ k # 0 /\ ~ (k <= InodeCount)
          BY <3>2, Layout DEF Address
        <4>2. Record(k)[2]' = block_map'[k - 1 - InodeCount]
          BY <4>1 DEF Record, HeadAt
        <4> QED
          BY <3>1, <3>2, <4>1, <4>2
      <3>3. CASE ~ (k > InodeCount)
        <4>1. Record(k)[2]' = Record(k)[2]
          BY <2>1, <3>3, Layout DEF Address, Record, Superblock, InodeAt, Counters
        <4> QED
          BY <3>1, <3>3, <4>1 DEF DInv, Synced
      <3> QED
        BY <3>2, <3>3
    <2>3. Synced'
      BY <1>3, <2>1, <2>2 DEF Synced
    <2> QED
      BY <1>2, <2>1, <2>3 DEF DInv
  <1> QED
    BY <1>4, <1>5

-----------------------------------------------------------------------------
(* The commands.                                                           *)

LEMMA SayOutcome ==
  ASSUME Tables, NEW r, Say(r)
  PROVE  Outcome
  BY DEF Tables, Say, tables, Outcome

LEMMA DieOutcome ==
  ASSUME Tables, NEW bm, bm = [b \in Block |-> bm[b]], Die(bm)
  PROVE  Outcome
  BY DEF Tables, Die, Outcome

LEMMA BodyTables ==
  /\ \A bm, last, data, nb : Appended(bm, last, data, nb) = [b \in Block |-> Appended(bm, last, data, nb)[b]]
  /\ \A bm, numbers : ClearUsed(bm, numbers) = [b \in Block |-> ClearUsed(bm, numbers)[b]]
  BY DEF Appended, ClearUsed

LEMMA CreateOutcome ==
  ASSUME Tables, NEW name, NEW type, NEW parent, Create(name, type, parent)
  PROVE  Outcome
  <1>1. CASE \E i \in Lowest(FreeInodes), b \in Lowest(FreeBlocks(block_map, used_block_count)) :
               CreateWith(name, type, parent, i, b)
    <2>1. PICK i \in Lowest(FreeInodes), b \in Lowest(FreeBlocks(block_map, used_block_count)) :
            CreateWith(name, type, parent, i, b)
      BY <1>1
    <2>2. CASE Die(block_map)
      BY <2>2, DieOutcome DEF Tables
    <2>3. CASE ~ Die(block_map)
      <3> DEFINE im == [inode_map EXCEPT ![i] =
                          [type |-> type, root_block |-> b, parent |-> parent, size |-> 0]]
      <3>1. /\ inode_map' = [im EXCEPT ![current_dir].size = @ + 1]
            /\ \E bm, last, data, nb : block_map' = Appended(bm, last, data, nb)
            /\ reply' = "ok"
        BY <2>1, <2>3 DEF CreateWith
      <3>2. inode_map' = [j \in Inode |-> inode_map'[j]]
        BY <3>1 DEF Tables
      <3> QED
        BY <3>1, <3>2, BodyTables DEF Outcome
    <2> QED
      BY <2>2, <2>3
  <1>2. CASE Die(block_map)
    BY <1>2, DieOutcome DEF Tables
  <1> QED
    BY <1>1, <1>2, SayOutcome DEF Create

LEMMA WriteOutcome ==
  ASSUME Tables, NEW name, NEW data, Write(name, data)
  PROVE  Outcome
  <1>1. ASSUME NEW i, WriteTo(i, data)
        PROVE  Outcome
    <2>1. CASE Die(block_map)
      BY <2>1, DieOutcome DEF Tables
    <2>2. CASE ~ Die(block_map)
      <3>1. /\ \E len : inode_map' = [inode_map EXCEPT ![i].size = @ + len]
            /\ \E bm, last, nb : block_map' = Appended(bm, last, data, nb)
            /\ reply' = "ok"
        BY <1>1, <2>2 DEF WriteTo
      <3>2. inode_map' = [j \in Inode |-> inode_map'[j]]
        BY <3>1 DEF Tables
      <3> QED
        BY <3>1, <3>2, BodyTables DEF Outcome
    <2> QED
      BY <2>1, <2>2
  <1>2. CASE Die(block_map)
    BY <1>2, DieOutcome DEF Tables
  <1> QED
    BY <1>1, <1>2, SayOutcome DEF Write, ReadDirDies

LEMMA FreeOutcome ==
  ASSUME Tables, NEW i, NEW bm, FreeInode(i, bm)
  PROVE  Outcome
  BY DEF Tables, FreeInode, Released, Outcome

LEMMA RemoveOutcome ==
  ASSUME Tables, NEW name, Rm(name) \/ Rmdir(name)
  PROVE  Outcome
  <1>1. CASE ReadDirDies
    BY <1>1, DieOutcome DEF Tables, ReadDirDies
  <1>2. ASSUME NEW type, Die(MatchesCleared(name, type))
        PROVE  Outcome
    BY <1>2, DieOutcome, BodyTables DEF MatchesCleared
  <1>3. CASE Say("not found")
    BY <1>3, SayOutcome
  <1>4. CASE \E i, bm : FreeInode(i, bm)
    BY <1>4, FreeOutcome
  <1> QED
    BY <1>1, <1>2, <1>3, <1>4 DEF Rm, Rmdir

-----------------------------------------------------------------------------
(* The steps.                                                              *)

LEMMA QuietKeeps ==
  ASSUME DInv, Quiet
  PROVE  DInv'
  <1>1. UNCHANGED <<inode_map, block_map, used_inode_count, used_block_count, image, update>>
    <2>1. UNCHANGED <<image, update>>
      BY DEF Quiet
    <2>2. CASE Open \/ Exit \/ EndOfInput \/ Usage \/ Help \/ Ls
      BY <2>1, <2>2 DEF Open, Exit, EndOfInput, Usage, Help, Ls, ReadDirDies, Say, Die, tables
    <2>3. ASSUME NEW name, Cd(name) \/ Read(name)
          PROVE  UNCHANGED <<inode_map, block_map, used_inode_count, used_block_count>>
      BY <2>3 DEF Cd, CdDotDot, CdInto, Read, ReadFrom, ReadDirDies, Say, Die, tables
    <2> QED
      BY <2>1, <2>2, <2>3 DEF Quiet
  <1> QED
    BY <1>1, QuietSynced

LEMMA WriteRecordKeeps ==
  ASSUME DInv, WriteRecord
  PROVE  DInv'
  <1>1. /\ ~ Idle /\ written \in Address /\ UNCHANGED vars
        /\ image' = [image EXCEPT ![written] = Record(written)[2]]
    BY RecordAt DEF WriteRecord, DInv, Synced
  <1>2. \A k \in Address : Record(k)' = Record(k)
    BY <1>1 DEF vars, Record, Superblock, InodeAt, HeadAt, Counters
  <1>3. Tables'
    <2>1. image'[0] = <<image'[0][1], image'[0][2]>>
      <3>1. CASE written = 0
        <4>1. image'[0] = Counters
          BY <1>1, <3>1, RecordAt DEF DInv, Tables
        <4> QED
          BY <4>1 DEF Counters
      <3>2. CASE written # 0
        BY <1>1, <3>2 DEF DInv, Tables
      <3> QED
        BY <3>1, <3>2
    <2> QED
      BY <1>1, <2>1 DEF vars, DInv, Tables
  <1>4. \A k \in Address : image'[k] = IF k = written THEN Record(k)[2] ELSE image[k]
    BY <1>1 DEF DInv, Tables
  <1>7. \A hit \in stray' : hit.head \in Block /\ written < 1 + InodeCount + hit.head
    <2> SUFFICES ASSUME NEW hit \in stray'
                 PROVE  hit.head \in Block /\ written < 1 + InodeCount + hit.head
      OBVIOUS
    <2>1. hit \in stray /\ HeadOffset(hit.head) # Record(written)[1]
      BY DEF WriteRecord
    <2>2. Record(written)[1] = written
      BY <1>1, RecordAt
    <2>3. hit.head \in Block /\ written <= 1 + InodeCount + hit.head /\ written # 1 + InodeCount + hit.head
      BY <2>1, <2>2 DEF DInv, Pending, HeadOffset
    <2> HIDE DEF HeadOffset
    <2> QED
      BY <1>1, <2>3, Layout DEF Address
  <1>5. CASE written + 1 < Writes
    <2>1. written' = written + 1 /\ doing' = doing /\ written + 1 \in Address
      BY <1>1, <1>5, Layout DEF WriteRecord, Address
    <2>2. \A k \in Address : k < written + 1 => k < written \/ k = written
      BY <1>1 DEF Address
    <2>3. Pending'
      BY <1>1, <1>7, <2>1, Layout DEF Pending, Idle, Address
    <2> QED
      BY <1>1, <1>2, <1>3, <1>4, <2>1, <2>2, <2>3 DEF DInv, Synced, Idle
  <1>6. CASE ~ (written + 1 < Writes)
    <2>1. written' = 0 /\ 0 \in Address
      BY <1>6, Layout DEF WriteRecord, Resume, Address
    <2>2. \A k \in Address : k < written \/ k = written
      BY <1>1, <1>6, Layout DEF Address
    <2>3. Pending'
      <3>1. stray' = {}
        BY <1>1, <1>6, <1>7, Layout DEF Address
      <3> QED
        BY <3>1 DEF Pending
    <2> QED
      BY <1>2, <1>3, <1>4, <2>1, <2>2, <2>3 DEF DInv, Synced
  <1> QED
    BY <1>5, <1>6

LEMMA KillKeeps ==
  ASSUME DInv, Kill
  PROVE  DInv'
  <1>3. 0 \in Address /\ ~ (0 > InodeCount)
    BY Layout DEF Address
  <1>1. /\ image' = [a \in Address |-> IF a > InodeCount THEN OpenedBlocks[a - InodeCount - 1] ELSE image[a]]
        /\ inode_map' = OpenedInodes /\ block_map' = OpenedBlocks
        /\ used_inode_count' = image[0][1] /\ used_block_count' = image[0][2]
        /\ written' = 0 /\ stray' = {}
    BY DEF Kill, OpenedCounters, Resume, WithBodies, Address
  <1>2. Tables' /\ Pending'
    <2>1. image'[0] = image[0]
      BY <1>1, <1>3
    <2> QED
      BY <1>1, <2>1, NotStruck DEF OpenedInodes, DInv, Tables, Pending
  <1>4. ASSUME NEW k \in Address
        PROVE  image'[k] = Record(k)[2]'
    <2>1. CASE k = 0
      <3>1. Record(k)[2]' = <<image[0][1], image[0][2]>>
        BY <1>1, <2>1 DEF Record, Superblock, Counters
      <3> QED
        BY <1>1, <1>3, <2>1, <3>1 DEF DInv, Tables
    <2>2. CASE k # 0 /\ k <= InodeCount
      <3>1. Record(k)[2]' = OpenedInodes[k - 1] /\ k - 1 \in Inode /\ 1 + (k - 1) = k
        BY <1>1, <2>2, Layout DEF Address, Record, InodeAt
      <3>2. image'[k] = image[k]
        BY <1>1, <2>2, Layout DEF Address
      <3> QED
        BY <3>1, <3>2 DEF OpenedInodes
    <2>3. CASE ~ (k <= InodeCount)
      <3>1. k - 1 - InodeCount \in Block /\ k - InodeCount - 1 = k - 1 - InodeCount /\ k # 0 /\ k > InodeCount
        BY <2>3, Layout DEF Address
      <3>2. Record(k)[2]' = OpenedBlocks[k - 1 - InodeCount]
        BY <1>1, <2>3, <3>1 DEF Record, HeadAt
      <3> QED
        BY <1>1, <3>1, <3>2
    <2> QED
      BY <2>1, <2>2, <2>3
  <1> QED
    BY <1>1, <1>2, <1>3, <1>4 DEF DInv, Synced

LEMMA CommandKeeps ==
  ASSUME DInv, NEW name \in Names, Makes(name) \/ Fills(name) \/ Drops(name)
  PROVE  DInv'
  <1>1. Tables
    BY DEF DInv
  <1>2. CASE Makes(name)
    <2>1. Outcome
      BY <1>1, <1>2, CreateOutcome DEF Makes, Mkdir, Touch
    <2>2. \A hit \in {} : hit.head \in Block
      OBVIOUS
    <2> QED
      BY <1>2, <2>1, <2>2, ThenSynced DEF Makes
  <1>3. CASE Fills(name)
    <2>1. Outcome
      BY <1>1, <1>3, WriteOutcome DEF Fills
    <2>2. \A hit \in {} : hit.head \in Block
      OBVIOUS
    <2> QED
      BY <1>3, <2>1, <2>2, ThenSynced DEF Fills
  <1>4. CASE Drops(name)
    <2>1. Outcome
      BY <1>1, <1>4, RemoveOutcome DEF Drops
    <2>2. ASSUME NEW type
          PROVE  \A hit \in Strikes(name, type) : hit.head \in Block
      BY CrashAssumption DEF Strikes
    <2> QED
      BY <1>4, <2>1, <2>2, ThenSynced DEF Drops
  <1> QED
    BY <1>2, <1>3, <1>4

LEMMA NextSynced ==
  ASSUME DInv, [CrashNext]_cvars
  PROVE  DInv'
  <1>1. CASE UNCHANGED cvars
    BY <1>1, QuietSynced DEF cvars, vars
  <1> QED
    BY <1>1, QuietKeeps, WriteRecordKeeps, KillKeeps, CommandKeeps DEF CrashNext

(* Whatever was typed, refused, cut short by a crash of its own or killed  *)
(* between two writes of minifs_update_superblock: whenever no update is   *)
(* under way, minifs_open would read back exactly what is in memory.       *)
THEOREM FileIsMemory == CrashSpec => []DiskIsMemory
  <1>1. CrashInit => DInv
    BY InitSynced
  <1>2. DInv /\ [CrashNext]_cvars => DInv'
    BY NextSynced
  <1>3. DInv => DiskIsMemory
    BY SyncedIsMemory DEF DiskIsMemory
  <1> QED
    BY <1>1, <1>2, <1>3, PTL DEF CrashSpec

-----------------------------------------------------------------------------
(* Tables with blocks that were leaked.  A killed rm or rmdir leaves used  *)
(* blocks behind that belong to no inode, and that may point anywhere:     *)
(* once they are thought free, in a table vb, everything is consistent.    *)

(* Every block in use in vb is the same in bm.                             *)
Keeps(bm, vb) == \A b \in Block : InUse(vb, b) => bm[b] = vb[b]

(* A block table, and no block holds more cells than there is room for.    *)
Fits(bm) == BlockTable(bm) /\ \A b \in Block : Len(bm[b].cells) <= BlockCells

(* Some choice of the blocks that are really in use makes the tables       *)
(* consistent.                                                             *)
Sound(im, bm) ==
  /\ Fits(bm)
  /\ \E vb, inodes, blocks : Consistent(im, vb, inodes, blocks) /\ Keeps(bm, vb)

(* Chains are the same with and without the leaked blocks.                 *)
LEMMA GhostWalks ==
  ASSUME NEW im, NEW bm, BlockTable(bm), NEW vb, WellLinked(im, vb), Keeps(bm, vb),
         NEW j \in Inode
  PROVE  /\ Walk(bm, im[j].root_block, 0) = Walk(vb, im[j].root_block, 0)
         /\ \A x \in Walk(bm, im[j].root_block, 0) : x \in Block /\ InUse(vb, x) /\ bm[x] = vb[x]
  <1>1. 0 \in Inode /\ Alive(im, 0)
    BY SizesAssumption DEF WellLinked, Roots, Alive, Inode, DIR, EMPTY
  <1>2. PICK i \in Inode : Alive(im, i) /\ im[i].root_block = im[j].root_block
    BY <1>1 DEF WellLinked, Roots
  <1>3. \A x \in Walk(vb, im[j].root_block, 0) : x \in Block /\ InUse(vb, x)
    BY <1>2, WalkInUse
  <1>4. Links(bm) /\ Links(vb) /\ im[j].root_block \in Block
    BY TablesHaveLinks DEF WellLinked, InodeTable
  <1>5. Walk(bm, im[j].root_block, 0) = Walk(vb, im[j].root_block, 0)
    BY <1>3, <1>4, WalkFrame DEF Keeps
  <1> QED
    BY <1>3, <1>5 DEF Keeps

(* What makes an inode table and a block table sound.                      *)
LEMMA SoundChains ==
  ASSUME NEW im, NEW bm, Sound(im, bm)
  PROVE  /\ PrivateChains(im, bm) /\ InodeTable(im)
         /\ \A i \in Inode : \A x \in Chain(im, bm, i) : x \in Block /\ InUse(bm, x)
  <1>1. PICK vb, inodes, blocks : Consistent(im, vb, inodes, blocks) /\ Keeps(bm, vb)
    BY DEF Sound
  <1>2. WellLinked(im, vb) /\ BlockTable(bm)
    BY <1>1 DEF Consistent, Sound, Fits
  <1>3. \A i \in Inode :
          /\ Chain(im, bm, i) = Walk(vb, im[i].root_block, 0)
          /\ \A x \in Chain(im, bm, i) : x \in Block /\ InUse(vb, x) /\ bm[x] = vb[x]
    BY <1>1, <1>2, GhostWalks DEF Chain
  <1>4. \A i \in Inode : \A x \in Chain(im, bm, i) : x \in Block /\ InUse(bm, x)
    BY <1>3 DEF InUse
  <1>5. ASSUME NEW i \in Inode, Alive(im, i)
        PROVE  LastBlocks(bm, im[i].root_block) # {}
    <2>1. PICK x \in Walk(vb, im[i].root_block, 0) : vb[x].next_block = None
      BY <1>2, <1>5 DEF WellLinked, Covered
    <2>2. x \in Chain(im, bm, i) /\ bm[x].next_block < 0
      BY <1>3, <2>1 DEF None
    <2> QED
      BY <2>2 DEF LastBlocks, Chain
  <1>6. \A i, j \in Inode : Alive(im, i) /\ Alive(im, j) /\ i # j =>
          Chain(im, bm, i) \cap Chain(im, bm, j) = {}
    BY <1>2, <1>3, WalksDisjoint
  <1>7. PrivateChains(im, bm)
    BY <1>4, <1>5, <1>6 DEF PrivateChains, Alive, InUse
  <1> QED
    BY <1>2, <1>4, <1>7 DEF WellLinked

(* Types, sizes and parents that change nothing of the chains.             *)
LEMMA SoundContents ==
  ASSUME NEW im, NEW bm, Sound(im, bm), NEW im2, InodeTable(im2),
         \A i \in Inode : im2[i].type = im[i].type /\ im2[i].root_block = im[i].root_block
  PROVE  Sound(im2, bm)
  <1>1. PICK vb, inodes, blocks : Consistent(im, vb, inodes, blocks) /\ Keeps(bm, vb)
    BY DEF Sound
  <1>2. BlockTable(vb) /\ \A b \in Block : Len(vb[b].cells) <= BlockCells
    BY <1>1 DEF Consistent, WellLinked
  <1>3. Consistent(im2, vb, inodes, blocks)
    BY <1>1, <1>2, ContentsConsistent
  <1> QED
    BY <1>1, <1>3 DEF Sound

(* Blocks outside all chains may hold anything.                            *)
LEMMA SoundElsewhere ==
  ASSUME NEW im, NEW bm, Sound(im, bm), NEW bm2, Fits(bm2),
         \A i \in Inode : Alive(im, i) => \A x \in Chain(im, bm, i) : bm2[x] = bm[x]
  PROVE  Sound(im, bm2)
  <1>1. PICK vb, inodes, blocks : Consistent(im, vb, inodes, blocks) /\ Keeps(bm, vb)
    BY DEF Sound
  <1>2. WellLinked(im, vb) /\ BlockTable(bm)
    BY <1>1 DEF Consistent, Sound, Fits
  <1>3. ASSUME NEW b \in Block, InUse(vb, b)
        PROVE  bm2[b] = vb[b]
    <2>1. PICK i \in Inode : Alive(im, i) /\ b \in Walk(vb, im[i].root_block, 0)
      BY <1>2, <1>3 DEF WellLinked, Covered
    <2>2. b \in Chain(im, bm, i)
      BY <1>1, <1>2, <2>1, GhostWalks DEF Chain
    <2> QED
      BY <1>1, <1>3, <2>1, <2>2 DEF Keeps
  <1>4. Keeps(bm2, vb)
    BY <1>3 DEF Keeps
  <1> QED
    BY <1>1, <1>4 DEF Sound

(* minifs_remove_from_dir.                                                 *)
LEMMA SoundClear ==
  ASSUME NEW im, NEW bm, Sound(im, bm), NEW numbers
  PROVE  Sound(im, ClearUsed(bm, numbers)) /\ UsedBlocks(ClearUsed(bm, numbers)) = UsedBlocks(bm)
  <1>1. PICK vb, inodes, blocks : Consistent(im, vb, inodes, blocks) /\ Keeps(bm, vb)
    BY DEF Sound
  <1>2. /\ Fits(ClearUsed(bm, numbers))
        /\ \A b \in Block : ClearUsed(bm, numbers)[b].type = bm[b].type
    BY ClearTypes DEF Sound, Fits
  <1>3. Consistent(im, ClearUsed(vb, numbers), inodes, blocks)
    BY <1>1, ClearConsistent
  <1>4. Keeps(ClearUsed(bm, numbers), ClearUsed(vb, numbers))
    <2>1. \A b \in Block : InUse(ClearUsed(vb, numbers), b) => InUse(vb, b)
      BY <1>1, ClearTypes DEF Consistent, WellLinked, InUse
    <2>2. \A b \in Block : bm[b] = vb[b] => ClearUsed(bm, numbers)[b] = ClearUsed(vb, numbers)[b]
      BY DEF ClearUsed
    <2> QED
      BY <1>1, <2>1, <2>2 DEF Keeps
  <1> QED
    BY <1>2, <1>3, <1>4 DEF Sound, UsedBlocks, InUse

(* mkdir and touch take an inode and a block.                              *)
LEMMA SoundMake ==
  ASSUME NEW im, NEW bm, Sound(im, bm),
         NEW i \in Inode, ~ Alive(im, i), NEW b \in Block, ~ InUse(bm, b),
         NEW rec, rec.type \in {FILE, DIR}, rec.root_block = b,
         InodeTable([im EXCEPT ![i] = rec])
  PROVE  Sound([im EXCEPT ![i] = rec], [bm EXCEPT ![b] = NewBlockRec])
  <1> DEFINE im2 == [im EXCEPT ![i] = rec]
             bm2 == [bm EXCEPT ![b] = NewBlockRec]
  <1>1. PICK vb, inodes, blocks : Consistent(im, vb, inodes, blocks) /\ Keeps(bm, vb)
    BY DEF Sound
  <1> DEFINE vb2 == [vb EXCEPT ![b] = NewBlockRec]
  <1>2. ~ InUse(vb, b)
    BY <1>1 DEF Keeps, InUse
  <1>3. Consistent(im2, vb2, inodes + 1, blocks + 1)
    BY <1>1, <1>2, MakeConsistent
  <1>4. BlockTable(bm) /\ BlockTable(vb)
    BY <1>1 DEF Sound, Fits, Consistent, WellLinked
  <1>5. Fits(bm2)
    BY <1>4, SizesAssumption DEF Sound, Fits, BlockTable, NewBlockRec
  <1>6. Keeps(bm2, vb2)
    BY <1>1, <1>4 DEF Keeps, BlockTable, InUse
  <1> HIDE DEF im2, bm2, vb2
  <1>7. Sound(im2, bm2)
    BY <1>3, <1>5, <1>6 DEF Sound
  <1> QED
    BY <1>7 DEF im2, bm2

(* Chains that do not hold block x are in bm2 what they are in bm.         *)
Besides(im, bm, bm2, x) ==
  \A j \in Inode : x \notin Chain(im, bm, j) => \A y \in Chain(im, bm2, j) : bm2[y] = bm[y]

(* minifs_append_data changes blocks of one chain, and free ones.          *)
LEMMA SoundAppend ==
  ASSUME NEW im, NEW bm, Sound(im, bm),
         NEW d \in Inode, NEW last \in LastBlocks(bm, im[d].root_block),
         NEW data \in Seq(Cell), NEW n \in Nat, NEW nb, Fresh(bm, n, nb),
         NEW bm2, bm2 = Appended(bm, last, data, nb)
  PROVE  Sound(im, bm2) /\ Takes(bm, bm2, nb, n) /\ Besides(im, bm, bm2, last)
  <1>1. PICK vb, inodes, blocks : Consistent(im, vb, inodes, blocks) /\ Keeps(bm, vb)
    BY DEF Sound
  <1>2. /\ WellLinked(im, vb) /\ BlockTable(vb) /\ \A b \in Block : Len(vb[b].cells) <= BlockCells
        /\ BlockTable(bm) /\ \A b \in Block : Len(bm[b].cells) <= BlockCells
    BY <1>1 DEF Consistent, WellLinked, Sound, Fits
  <1>3. /\ last \in Block /\ InUse(vb, last) /\ bm[last] = vb[last]
        /\ last \in LastBlocks(vb, im[d].root_block)
    BY <1>1, <1>2, GhostWalks DEF LastBlocks
  <1>4. Fresh(vb, n, nb)
    <2>1. \A k \in 1 .. n : nb[k] \in Block /\ vb[nb[k]].type = EMPTY
      BY <1>1, <1>2 DEF Fresh, Keeps, InUse, BlockTable, EMPTY, USED
    <2> QED
      BY <2>1 DEF Fresh
  <1> DEFINE vb2 == Appended(vb, last, data, nb)
  <1>5. Consistent(im, vb2, inodes, blocks + n)
    BY <1>1, <1>3, <1>4, AppendConsistent
  <1>6. /\ BlockTable(bm2) /\ \A b \in Block : Len(bm2[b].cells) <= BlockCells
        /\ bm2[last].type = USED
        /\ \A k \in 1 .. n : bm2[nb[k]].type = USED
        /\ \A b \in Block : b # last /\ (\A k \in 1 .. n : nb[k] # b) => bm2[b] = bm[b]
    <2>1. InUse(bm, last)
      BY <1>3 DEF InUse
    <2> QED
      BY <2>1, <1>2, <1>3, AppendedBlocks
  <1>7. Takes(vb, vb2, nb, n)
    <2>1. WellLinked(im, vb) /\ \A b \in Block : Len(vb[b].cells) <= BlockCells
      BY <1>2
    <2> QED
      BY <2>1, <1>3, <1>4, AppendKeepsLinks, Zenon
  <1>8. Keeps(bm2, vb2)
    <2> SUFFICES ASSUME NEW b \in Block, InUse(vb2, b)
                 PROVE  bm2[b] = vb2[b]
      BY DEF Keeps
    <2>1. CASE b = last
      BY <2>1, <1>3 DEF Appended
    <2>2. CASE b # last /\ \E k \in 1 .. n : nb[k] = b
      <3>1. Len(nb) = n
        BY DEF Fresh
      <3> QED
        BY <2>2, <3>1, <1>3 DEF Appended
    <2>3. CASE b # last /\ ~ \E k \in 1 .. n : nb[k] = b
      <3>1. InUse(vb, b)
        BY <2>3, <1>7 DEF Takes, Taken, UsedBlocks
      <3>2. bm2[b] = bm[b] /\ vb2[b] = vb[b]
        BY <2>3 DEF Fresh, Appended
      <3> QED
        BY <3>1, <3>2, <1>1 DEF Keeps
    <2> QED
      BY <2>1, <2>2, <2>3
  <1>9. Sound(im, bm2)
    <2> HIDE DEF vb2
    <2> QED
      BY <1>5, <1>6, <1>8 DEF Sound, Fits
  <1>10. Takes(bm, bm2, nb, n)
    <2>1. \A b \in Block : InUse(bm2, b) <=> InUse(bm, b) \/ \E k \in 1 .. n : nb[k] = b
      BY <1>3, <1>6 DEF InUse
    <2> QED
      BY <2>1 DEF Fresh, Takes, UsedBlocks, Taken
  <1>11. ASSUME NEW j \in Inode, last \notin Chain(im, bm, j)
         PROVE  \A x \in Chain(im, bm2, j) : bm2[x] = bm[x]
    <2>1. \A x \in Chain(im, bm, j) : bm2[x] = bm[x]
      <3> TAKE x \in Chain(im, bm, j)
      <3>1. x \in Block /\ InUse(bm, x) /\ x # last
        BY <1>11, SoundChains
      <3>2. \A k \in 1 .. n : nb[k] # x
        BY <3>1 DEF Fresh, InUse, EMPTY, USED
      <3> QED
        BY <3>1, <3>2, <1>6
    <2>2. Links(bm) /\ Links(bm2) /\ im[j].root_block \in Block
      BY <1>2, <1>6, TablesHaveLinks DEF WellLinked, InodeTable
    <2>3. Chain(im, bm2, j) = Chain(im, bm, j)
      BY <2>1, <2>2, WalkFrame DEF Chain
    <2> QED
      BY <2>1, <2>3
  <1> QED
    BY <1>9, <1>10, <1>11 DEF Besides

(* rm and rmdir free an inode; what becomes of its blocks does not matter. *)
LEMMA SoundFree ==
  ASSUME NEW im, NEW bm, Sound(im, bm), NEW i \in Inode, Alive(im, i), i # 0
  PROVE  /\ Walk(bm, im[i].root_block, 1) = Chain(im, bm, i)
         /\ \A bm2 : Fits(bm2) /\ (\A b \in Block \ Chain(im, bm, i) : bm2[b] = bm[b]) =>
              Sound([im EXCEPT ![i] = FreeInodeRec], bm2)
  <1>1. PICK vb, inodes, blocks : Consistent(im, vb, inodes, blocks) /\ Keeps(bm, vb)
    BY DEF Sound
  <1>2. WellLinked(im, vb) /\ BlockTable(bm)
    BY <1>1 DEF Consistent, Sound, Fits
  <1> DEFINE freed == Walk(vb, im[i].root_block, 0)
             im2 == [im EXCEPT ![i] = FreeInodeRec]
             vb2 == [b \in Block |-> IF b \in freed THEN FreeBlockRec ELSE vb[b]]
  <1>3. /\ Chain(im, bm, i) = freed
        /\ \A x \in freed : x \in Block /\ bm[x] = vb[x]
    BY <1>1, <1>2, GhostWalks DEF Chain
  <1>4. Walk(bm, im[i].root_block, 1) = Chain(im, bm, i)
    <2>1. im[i].root_block # 0 /\ \A y \in freed : vb[y].next_block # 0
      BY <1>2, FreedIsWalk
    <2>2. Links(bm) /\ im[i].root_block \in Block
      BY <1>2, TablesHaveLinks DEF WellLinked, InodeTable
    <2>3. \A y \in Walk(bm, im[i].root_block, 0) : bm[y].next_block # 0
      BY <1>3, <2>1 DEF Chain
    <2> QED
      BY <2>1, <2>2, <2>3, FreeLoop DEF Chain
  <1>5. Consistent(im2, vb2, inodes - 1, blocks - Cardinality(freed))
    BY <1>1, FreeConsistent
  <1>6. ASSUME NEW bm2, Fits(bm2), \A b \in Block \ Chain(im, bm, i) : bm2[b] = bm[b]
        PROVE  Sound(im2, bm2)
    <2>1. Keeps(bm2, vb2)
      <3> SUFFICES ASSUME NEW b \in Block, InUse(vb2, b)
                   PROVE  bm2[b] = vb2[b]
        BY DEF Keeps
      <3>1. b \notin freed /\ vb2[b] = vb[b] /\ InUse(vb, b)
        BY DEF InUse, FreeBlockRec, EMPTY, USED
      <3> QED
        BY <3>1, <1>1, <1>3, <1>6 DEF Keeps
    <2> HIDE DEF im2, vb2
    <2> QED
      BY <2>1, <1>5, <1>6 DEF Sound
  <1> QED
    BY <1>4, <1>6

(* No slot comes both before and after another: a chain has no cycle.      *)
LEMMA NoCycle ==
  ASSUME NEW im, NEW bm, Sound(im, bm), NEW j \in Inode,
         NEW x \in Chain(im, bm, j), NEW y \in Chain(im, bm, j), x # y,
         y \in Walk(bm, x, 0), x \in Walk(bm, y, 0)
  PROVE  FALSE
  <1>1. PICK vb, inodes, blocks : Consistent(im, vb, inodes, blocks) /\ Keeps(bm, vb)
    BY DEF Sound
  <1>2. WellLinked(im, vb) /\ BlockTable(bm)
    BY <1>1 DEF Consistent, Sound, Fits
  <1> DEFINE r == im[j].root_block
             C == Walk(bm, r, 0)
             W == Walk(bm, x, 0)
             S == C \ W
  <1>3. /\ Links(bm) /\ r \in Block /\ r >= 0
        /\ \A z \in C : z \in Block /\ z >= 0 /\ InUse(vb, z) /\ bm[z] = vb[z]
    <2>1. Links(bm) /\ r \in Block
      BY <1>2, TablesHaveLinks DEF WellLinked, InodeTable
    <2> QED
      BY <2>1, <1>1, <1>2, GhostWalks, SizesAssumption DEF Block
  <1>4. r \in C /\ \A z \in C : bm[z].next_block >= 0 => bm[z].next_block \in C
    BY <1>3, WalkHolds
  <1>5. W \subseteq C
    BY <1>3, <1>4, WalkLeast DEF Chain
  <1>6. Walk(bm, y, 0) \subseteq W
    <2>1. \A z \in W : bm[z].next_block >= 0 => bm[z].next_block \in W
      BY <1>3, WalkHolds DEF Chain
    <2> QED
      BY <1>3, <2>1, WalkLeast, WalkInBlocks DEF Chain
  <1>7. ASSUME NEW z \in W
        PROVE  \E p \in W : bm[p].next_block = z
    <2>1. x \in Block /\ y \in Block
      BY <1>3 DEF Chain
    <2>2. CASE z # x
      BY <1>3, <2>1, <2>2, WalkEnters
    <2>3. CASE z = x
      <3>1. PICK p \in Walk(bm, y, 0) : bm[p].next_block = x
        BY <1>3, <2>1, WalkEnters
      <3> QED
        BY <2>3, <3>1, <1>6
    <2> QED
      BY <2>2, <2>3
  <1>8. r \in S
    <2>1. SUFFICES ASSUME r \in W PROVE FALSE
      BY <1>4
    <2>2. PICK p \in W : bm[p].next_block = r
      BY <2>1, <1>7
    <2>3. InUse(vb, p) /\ p \in Block /\ vb[p].next_block = r
      BY <2>2, <1>3, <1>5
    <2>4. PICK i \in Inode : Alive(im, i) /\ im[i].root_block = r
      <3>1. 0 \in Inode /\ Alive(im, 0)
        BY <1>2, SizesAssumption DEF WellLinked, Roots, Alive, Inode, DIR, EMPTY
      <3> QED
        BY <3>1, <1>2 DEF WellLinked, Roots
    <2> QED
      BY <2>3, <2>4, <1>2 DEF WellLinked, Successors
  <1>9. ASSUME NEW z \in S, bm[z].next_block >= 0
        PROVE  bm[z].next_block \in S
    <2>1. SUFFICES ASSUME bm[z].next_block \in W PROVE FALSE
      BY <1>4, <1>9
    <2>2. PICK p \in W : bm[p].next_block = bm[z].next_block
      BY <2>1, <1>7
    <2>3. /\ InUse(vb, p) /\ p \in Block /\ vb[p].next_block = bm[z].next_block
          /\ InUse(vb, z) /\ z \in Block /\ vb[z].next_block = bm[z].next_block
      BY <2>2, <1>3, <1>5
    <2>4. bm[z].next_block # None
      BY <1>9 DEF None
    <2> QED
      BY <2>2, <2>3, <2>4, <1>2 DEF WellLinked, Successors
  <1>10. C \subseteq S
    <2>1. S \in SUBSET Block
      BY <1>3
    <2> HIDE DEF S, C
    <2>2. Walk(bm, r, 0) \subseteq S
      BY <2>1, <1>8, <1>9, WalkLeast
    <2> QED
      BY <2>2 DEF C
  <1> QED
    <2>1. x \in W
      BY <1>3, WalkHolds DEF Chain
    <2> QED
      BY <2>1, <1>10 DEF Chain

-----------------------------------------------------------------------------
(* The invariant.                                                          *)

(* The counters never say more than is in use.                             *)
Counted(im, bm, counters) ==
  /\ counters[1] \in Int /\ counters[1] + 1 <= Cardinality(LiveInodes(im))
  /\ counters[2] \in Int /\ counters[2] + 1 <= Cardinality(UsedBlocks(bm))

(* What holds of the memory, and of the file unless something is being     *)
(* made or filled.                                                         *)
InMemory ==
  /\ current_dir \in Inode \cup {None}
  /\ Sound(inode_map, block_map)
  /\ Counted(inode_map, block_map, Counters)

(* The file as minifs_open would read it now, were there no byte of rm in  *)
(* a head.                                                                 *)
OnDisk ==
  doing \in {"none", "drop"} =>
    /\ Sound(OpenedInodes, Heads)
    /\ Counted(OpenedInodes, Heads, OpenedCounters)

(* While rm or rmdir writes, the file has what the memory has, and more.   *)
Dropping ==
  doing = "drop" =>
    /\ \E i \in Inode \ {0} : target = {i} /\ inode_map[i] = FreeInodeRec
    /\ LiveInodes(inode_map) \subseteq LiveInodes(OpenedInodes)
    /\ UsedBlocks(block_map) \subseteq UsedBlocks(Heads)

(* What OthersSurvive says, with that reservation.                         *)
OthersKept ==
  \A i \in Inode \ target :
    /\ OpenedInodes[i] = inode_map[i]
    /\ ~ torn /\ Live(i) => \A b \in Owned(i) : Heads[b] = block_map[b]

(* The invariant: after a killed mkdir, touch or write it says only that   *)
(* the file is written in order and holds the inodes of the memory.        *)
KInv ==
  /\ DInv
  /\ Idle => target = {}
  /\ OthersKept
  /\ ~ torn => InMemory /\ OnDisk /\ Dropping

(* Between two commands the file is the memory.                            *)
LEMMA IdleKInv ==
  DInv /\ Idle /\ target = {} /\ (~ torn => InMemory) => KInv
  <1> SUFFICES ASSUME DInv, Idle, target = {}, ~ torn => InMemory
               PROVE  KInv
    OBVIOUS
  <1>1. OpenedInodes = inode_map /\ Heads = block_map /\ OpenedCounters = Counters
    BY SyncedIsMemory
  <1>2. OthersKept
    BY <1>1 DEF OthersKept
  <1>3. ~ torn => OnDisk /\ Dropping
    BY <1>1 DEF InMemory, OnDisk, Dropping, Idle
  <1> QED
    BY <1>2, <1>3 DEF KInv

(* What the invariant says of a moment between two commands.               *)
LEMMA IdleImage ==
  ASSUME KInv, Idle
  PROVE  /\ OpenedInodes = inode_map /\ Heads = block_map /\ OpenedCounters = Counters
         /\ target = {} /\ DInv /\ (~ torn => InMemory)
  BY SyncedIsMemory DEF KInv

(* The counters stay below what more is in use.                            *)
LEMMA CountedMore ==
  ASSUME NEW im, NEW bm, NEW counters, Counted(im, bm, counters),
         NEW im2, NEW bm2,
         LiveInodes(im) \subseteq LiveInodes(im2), UsedBlocks(bm) \subseteq UsedBlocks(bm2)
  PROVE  Counted(im2, bm2, counters)
  <1>1. /\ Cardinality(LiveInodes(im)) <= Cardinality(LiveInodes(im2))
        /\ Cardinality(UsedBlocks(bm)) <= Cardinality(UsedBlocks(bm2))
    BY FiniteUse, FS_Subset
  <1>2. /\ Cardinality(LiveInodes(im)) \in Int /\ Cardinality(LiveInodes(im2)) \in Int
        /\ Cardinality(UsedBlocks(bm)) \in Int /\ Cardinality(UsedBlocks(bm2)) \in Int
    BY FiniteUse
  <1> QED
    BY <1>1, <1>2 DEF Counted

(* A new file system.                                                      *)
LEMMA InitKInv == CrashInit => KInv
  <1> SUFFICES ASSUME CrashInit PROVE KInv
    OBVIOUS
  <1>1. Init /\ Idle /\ target = {}
    BY DEF CrashInit, Idle
  <1>2. Consistent(inode_map, block_map, used_inode_count, used_block_count)
    BY <1>1, InitConsistent
  <1>3. Sound(inode_map, block_map)
    <2>1. Keeps(block_map, block_map)
      BY DEF Keeps
    <2>2. Fits(block_map)
      BY <1>2 DEF Fits, Consistent, WellLinked
    <2> QED
      BY <1>2, <2>1, <2>2 DEF Sound
  <1>4. Counted(inode_map, block_map, Counters)
    BY <1>2, FiniteUse DEF Consistent, Counted, Counters
  <1>5. current_dir \in Inode
    BY <1>1, SizesAssumption DEF Init, Inode
  <1>6. DInv
    BY InitSynced
  <1> QED
    BY <1>1, <1>3, <1>4, <1>5, <1>6, IdleKInv DEF InMemory

-----------------------------------------------------------------------------
(* Steps.                                                                  *)

(* A command that writes nothing.                                          *)
LEMMA QuietKInv ==
  ASSUME KInv, DInv', Quiet
  PROVE  KInv'
  <1>1. Idle /\ UNCHANGED <<image, update, torn>>
    BY DEF Quiet
  <1>2. UNCHANGED <<inode_map, block_map, used_inode_count, used_block_count>>
    <2>1. CASE Open \/ Exit \/ EndOfInput \/ Usage \/ Help \/ Ls
      BY <2>1 DEF Open, Exit, EndOfInput, Usage, Help, Ls, ReadDirDies, Say, Die, tables
    <2>2. ASSUME NEW name, Cd(name) \/ Read(name)
          PROVE  UNCHANGED <<inode_map, block_map, used_inode_count, used_block_count>>
      BY <2>2 DEF Cd, CdDotDot, CdInto, Read, ReadFrom, ReadDirDies, Say, Die, tables
    <2> QED
      BY <2>1, <2>2 DEF Quiet
  <1>3. ASSUME ~ torn
        PROVE  current_dir' \in Inode \cup {None}
    <2>1. current_dir \in Inode \cup {None} /\ InodeTable(inode_map)
      BY <1>3, SoundChains DEF KInv, InMemory
    <2>2. CASE Open \/ Exit \/ EndOfInput \/ Usage \/ Help \/ Ls
      <3>1. 0 \in Inode
        BY SizesAssumption DEF Inode
      <3> QED
        BY <2>1, <2>2, <3>1
           DEF Open, Exit, EndOfInput, Usage, Help, Ls, ReadDirDies, Say, Die, tables
    <2>3. ASSUME NEW name, Cd(name)
          PROVE  current_dir' \in Inode \cup {None}
      <3>1. CASE CdDotDot
        BY <2>1, <3>1 DEF CdDotDot, InDir, Die, InodeTable
      <3>2. CASE CdInto(name)
        <4>1. CASE ReadDirDies \/ Die(block_map) \/ Say("not found")
          BY <2>1, <4>1 DEF ReadDirDies, Die, Say
        <4>2. CASE \E s \in First(Matches(name, DIR)) : current_dir' = EntryAt(s).inode
          BY <4>2 DEF First, Matches, Wild
        <4> QED
          BY <3>2, <4>1, <4>2 DEF CdInto
      <3> QED
        BY <2>1, <2>3, <3>1, <3>2 DEF Cd, Say
    <2>4. ASSUME NEW name, Read(name)
          PROVE  current_dir' \in Inode \cup {None}
      BY <2>1, <2>4 DEF Read, ReadFrom, ReadDirDies, Say, Die
    <2> QED
      BY <2>2, <2>3, <2>4 DEF Quiet
  <1>4. Idle' /\ target' = {}
    BY <1>1, IdleImage DEF Idle, update
  <1>5. ~ torn' => InMemory'
    BY <1>1, <1>2, <1>3, IdleImage DEF InMemory, Counters
  <1>6. (DInv /\ Idle /\ target = {} /\ (~ torn => InMemory) => KInv)'
    BY IdleKInv, PTL
  <1> QED
    BY <1>4, <1>5, <1>6

(* Where a record goes.                                                    *)
LEMMA WriteRecordImage ==
  ASSUME DInv, WriteRecord
  PROVE  /\ written \in Address /\ OpenedCounters' = Counters
         /\ OpenedInodes' = [i \in Inode |-> IF written = 1 + i THEN inode_map[i] ELSE OpenedInodes[i]]
         /\ Heads' = [b \in Block |-> IF written = 1 + InodeCount + b THEN block_map[b]
                                             ELSE Heads[b]]
  <1>1. /\ written \in Address /\ image' = [image EXCEPT ![written] = Record(written)[2]]
        /\ image = [a \in Address |-> image[a]] /\ UNCHANGED vars
    BY RecordAt DEF WriteRecord, DInv, Synced, Tables
  <1>2. \A k \in Address : image'[k] = IF k = written THEN Record(written)[2] ELSE image[k]
    BY <1>1
  <1>3. OpenedCounters' = Counters
    <2>1. 0 \in Address /\ Record(0)[2] = Counters
      BY Layout, RecordAt DEF Address
    <2>2. CASE written = 0
      BY <1>2, <2>1, <2>2 DEF OpenedCounters
    <2>3. CASE written # 0
      <3>1. image[0] = Record(0)[2]
        BY <1>1, <2>1, <2>3 DEF DInv, Synced, Address
      <3> QED
        BY <1>2, <2>1, <2>3, <3>1 DEF OpenedCounters
    <2> QED
      BY <2>2, <2>3
  <1>4. ASSUME NEW i \in Inode
        PROVE  image'[1 + i] = IF written = 1 + i THEN inode_map[i] ELSE image[1 + i]
    <2> DEFINE k == 1 + i
    <2>1. k \in Address /\ k = 1 + i /\ k # 0 /\ k <= InodeCount /\ k - 1 = i
      BY Layout DEF Address
    <2> HIDE DEF k
    <2>2. Record(k)[2] = inode_map[k - 1]
      BY <2>1, RecordAt
    <2> QED
      BY <1>2, <2>1, <2>2
  <1>5. ASSUME NEW b \in Block
        PROVE  image'[1 + InodeCount + b] =
                 IF written = 1 + InodeCount + b THEN block_map[b] ELSE image[1 + InodeCount + b]
    <2> DEFINE k == 1 + InodeCount + b
    <2>1. /\ k \in Address /\ k = 1 + InodeCount + b /\ k # 0
          /\ ~ (k <= InodeCount) /\ k - 1 - InodeCount = b
      BY Layout DEF Address
    <2> HIDE DEF k
    <2>2. Record(k)[2] = block_map[k - 1 - InodeCount]
      BY <2>1, RecordAt
    <2> QED
      BY <1>2, <2>1, <2>2
  <1> QED
    BY <1>1, <1>3, <1>4, <1>5 DEF OpenedInodes, Heads

(* The root is in use; a free inode points to block 0.                     *)
LEMMA SoundRoots ==
  ASSUME NEW im, NEW bm, Sound(im, bm)
  PROVE  /\ 0 \in Inode /\ Alive(im, 0) /\ im[0].root_block = 0
         /\ \A i \in Inode : ~ Alive(im, i) => im[i].root_block = 0
  BY SizesAssumption DEF Sound, Consistent, WellLinked, Roots, Alive, Inode, DIR, EMPTY

(* The inode of rm or rmdir becomes free in the file.                      *)
LEMMA DropInode ==
  ASSUME NEW im, NEW bm, Sound(im, bm), NEW i \in Inode \ {0}
  PROVE  Sound([im EXCEPT ![i] = FreeInodeRec], bm)
  <1>1. CASE Alive(im, i)
    BY <1>1, SoundFree DEF Sound
  <1>2. CASE ~ Alive(im, i)
    <2> DEFINE im2 == [im EXCEPT ![i] = FreeInodeRec]
    <2>1. InodeTable(im) /\ im[i].root_block = 0 /\ im[i].type = EMPTY
      BY <1>2, SoundChains, SoundRoots DEF Alive
    <2>2. 0 \in Block /\ 0 \in Inode
      BY SizesAssumption DEF Block, Inode
    <2>3. InodeTable(im2)
      BY <2>1, <2>2 DEF InodeTable, FreeInodeRec
    <2>4. \A j \in Inode : im2[j].type = im[j].type /\ im2[j].root_block = im[j].root_block
      BY <2>1 DEF InodeTable, FreeInodeRec
    <2> HIDE DEF im2
    <2>5. Sound(im2, bm)
      BY <2>3, <2>4, SoundContents
    <2> QED
      BY <2>5 DEF im2
  <1> QED
    BY <1>1, <1>2

(* A record of a drop keeps the chains of the file.                        *)
LEMMA DropRecord ==
  ASSUME KInv, WriteRecord, ~ torn, doing = "drop"
  PROVE  Sound(OpenedInodes', Heads')
  <1>1. /\ DInv /\ OthersKept /\ InMemory /\ ~ Idle
        /\ Sound(OpenedInodes, Heads)
    BY DEF KInv, OnDisk, WriteRecord
  <1>2. PICK i \in Inode \ {0} : target = {i} /\ inode_map[i] = FreeInodeRec
    BY DEF KInv, Dropping
  <1>3. /\ written \in Address
        /\ OpenedInodes' = [j \in Inode |-> IF written = 1 + j THEN inode_map[j] ELSE OpenedInodes[j]]
        /\ Heads' = [b \in Block |-> IF written = 1 + InodeCount + b THEN block_map[b]
                                            ELSE Heads[b]]
    BY <1>1, WriteRecordImage
  <1>4. /\ OpenedInodes = [j \in Inode |-> OpenedInodes[j]]
        /\ Heads = [b \in Block |-> Heads[b]]
    BY DEF OpenedInodes, Heads
  <1>5. \A j \in Inode \ {i} : OpenedInodes[j] = inode_map[j]
    BY <1>1, <1>2 DEF OthersKept
  <1>6. CASE written <= InodeCount
    <2>1. Heads' = Heads
      <3>1. \A b \in Block : written # 1 + InodeCount + b
        BY <1>3, <1>6, Layout DEF Address
      <3> QED
        BY <1>3, <1>4, <3>1
    <2>2. CASE written = 1 + i
      <3>1. \A j \in Inode : written = 1 + j <=> j = i
        BY <2>2, Layout
      <3>2. OpenedInodes' = [OpenedInodes EXCEPT ![i] = FreeInodeRec]
        BY <1>2, <1>3, <1>4, <3>1
      <3> QED
        BY <1>1, <2>1, <3>2, DropInode
    <2>3. CASE written # 1 + i
      <3>1. OpenedInodes' = OpenedInodes
        BY <1>3, <1>4, <1>5, <2>3
      <3> QED
        BY <1>1, <2>1, <3>1
    <2> QED
      BY <2>2, <2>3
  <1>7. CASE ~ (written <= InodeCount)
    <2>1. \A j \in Inode : image[1 + j] = inode_map[j]
      <3> TAKE j \in Inode
      <3>1. 1 + j \in Address /\ 1 + j < written /\ 1 + j # 0 /\ 1 + j <= InodeCount /\ (1 + j) - 1 = j
        BY <1>3, <1>7, Layout DEF Address
      <3>2. image[1 + j] = Record(1 + j)[2] /\ Record(1 + j)[2] = inode_map[(1 + j) - 1]
        BY <1>1, <3>1, RecordAt DEF DInv, Synced
      <3> QED
        BY <3>1, <3>2
    <2>2. OpenedInodes' = OpenedInodes
      <3>1. \A j \in Inode : OpenedInodes[j] = inode_map[j]
        BY <2>1 DEF OpenedInodes
      <3> QED
        BY <1>3, <1>4, <3>1
    <2>3. \A j \in Inode : OpenedInodes[j] = inode_map[j]
      BY <2>1 DEF OpenedInodes
    <2>4. Fits(Heads')
      <3>1. Fits(Heads) /\ Fits(block_map)
        BY <1>1 DEF InMemory, Sound
      <3> QED
        BY <1>3, <3>1 DEF Fits, BlockTable
    <2>5. ASSUME NEW j \in Inode, Alive(OpenedInodes, j)
          PROVE  \A x \in Chain(OpenedInodes, Heads, j) : Heads'[x] = Heads[x]
      <3>1. j # i /\ Live(j)
        BY <1>2, <2>3, <2>5 DEF Alive, Live, FreeInodeRec
      <3>2. \A b \in Owned(j) : Heads[b] = block_map[b]
        BY <1>1, <1>2, <3>1 DEF OthersKept
      <3>3. Links(Heads) /\ Links(block_map) /\ inode_map[j].root_block \in Block
        <4>1. BlockTable(Heads) /\ BlockTable(block_map) /\ InodeTable(inode_map)
          BY <1>1, SoundChains DEF InMemory, Sound, Fits
        <4> QED
          BY <4>1, TablesHaveLinks DEF InodeTable
      <3>4. Chain(OpenedInodes, Heads, j) = Owned(j)
        BY <2>3, <3>2, <3>3, WalkFrame DEF Chain, Owned
      <3> QED
        BY <1>3, <3>2, <3>4, WalkInBlocks DEF Owned
    <2> QED
      BY <1>1, <2>2, <2>4, <2>5, SoundElsewhere
  <1> QED
    BY <1>6, <1>7

(* One more record: the inodes that the command is not about are in the    *)
(* file as they are in memory.                                             *)
LEMMA WriteRecordKInv ==
  ASSUME KInv, DInv', WriteRecord
  PROVE  KInv'
  <1>1. /\ DInv /\ OthersKept /\ ~ Idle /\ UNCHANGED <<vars, torn>>
        /\ ~ torn => InMemory /\ OnDisk /\ Dropping
    BY DEF KInv, WriteRecord
  <1>2. ~ torn' => InMemory'
    BY <1>1 DEF vars, InMemory, Counters
  <1>3. CASE ~ (written + 1 < Writes)
    <2>1. Idle' /\ target' = {}
      BY <1>3 DEF WriteRecord, Resume, Idle
    <2>2. (DInv /\ Idle /\ target = {} /\ (~ torn => InMemory) => KInv)'
      BY IdleKInv, PTL
    <2> QED
      BY <1>2, <2>1, <2>2
  <1>4. CASE written + 1 < Writes
    <2>1. doing' = doing /\ target' = target /\ ~ Idle'
      BY <1>1, <1>4 DEF WriteRecord, Idle
    <2>2. /\ OpenedCounters' = Counters
          /\ OpenedInodes' = [i \in Inode |-> IF written = 1 + i THEN inode_map[i] ELSE OpenedInodes[i]]
          /\ Heads' = [b \in Block |-> IF written = 1 + InodeCount + b THEN block_map[b]
                                              ELSE Heads[b]]
      BY <1>1, WriteRecordImage
    <2>3. OthersKept'
      <3> SUFFICES ASSUME NEW i \in Inode \ target
                   PROVE  /\ OpenedInodes'[i] = inode_map[i]
                          /\ ~ torn /\ Live(i) => \A b \in Owned(i) : Heads'[b] = block_map[b]
        BY <1>1, <2>1 DEF OthersKept, vars, Live, Owned
      <3> QED
        BY <1>1, <2>2, WalkInBlocks DEF OthersKept, Owned
    <2>4. ASSUME ~ torn
          PROVE  Dropping'
      <3> SUFFICES ASSUME doing = "drop"
                   PROVE  /\ \E i \in Inode \ {0} : target = {i} /\ inode_map[i] = FreeInodeRec
                          /\ LiveInodes(inode_map) \subseteq LiveInodes(OpenedInodes')
                          /\ UsedBlocks(block_map) \subseteq UsedBlocks(Heads')
        BY <1>1, <2>1 DEF Dropping, vars
      <3>1. Dropping
        BY <1>1, <2>4
      <3>2. LiveInodes(inode_map) \subseteq LiveInodes(OpenedInodes')
        BY <2>2, <3>1 DEF Dropping, LiveInodes, Alive
      <3>3. UsedBlocks(block_map) \subseteq UsedBlocks(Heads')
        BY <2>2, <3>1 DEF Dropping, UsedBlocks, InUse
      <3> QED
        BY <3>1, <3>2, <3>3 DEF Dropping
    <2>5. ASSUME ~ torn
          PROVE  OnDisk'
      <3> SUFFICES ASSUME doing = "drop"
                   PROVE  /\ Sound(OpenedInodes', Heads')
                          /\ Counted(OpenedInodes', Heads', OpenedCounters')
        BY <1>1, <2>1 DEF OnDisk, Idle
      <3>1. Sound(OpenedInodes', Heads')
        BY <2>5, DropRecord
      <3>2. Counted(inode_map, block_map, Counters)
        BY <1>1, <2>5 DEF InMemory
      <3>3. /\ LiveInodes(inode_map) \subseteq LiveInodes(OpenedInodes')
            /\ UsedBlocks(block_map) \subseteq UsedBlocks(Heads')
        BY <1>1, <2>1, <2>4, <2>5 DEF Dropping, vars
      <3> QED
        BY <2>2, <3>1, <3>2, <3>3, CountedMore
    <2> QED
      BY <1>1, <1>2, <2>1, <2>3, <2>4, <2>5 DEF KInv
  <1> QED
    BY <1>3, <1>4

(* A killed removal leaves what the file has; after a killed mkdir, touch  *)
(* or write nothing is said.                                               *)
LEMMA KillKInv ==
  ASSUME KInv, DInv', Kill
  PROVE  KInv'
  <1>1. /\ inode_map' = OpenedInodes /\ block_map' = OpenedBlocks
        /\ used_inode_count' = OpenedCounters[1] /\ used_block_count' = OpenedCounters[2]
        /\ current_dir' = current_dir /\ torn' = (torn \/ doing # "drop" \/ Damaged)
        /\ Idle' /\ target' = {}
    BY DEF Kill, Resume, Idle
  <1>2. ASSUME ~ torn'
        PROVE  InMemory'
    <2>1. InMemory /\ OnDisk /\ doing = "drop" /\ OpenedBlocks = Heads
      BY <1>1, <1>2 DEF KInv, Damaged
    <2>2. Sound(inode_map', block_map') /\ Counted(OpenedInodes, Heads, OpenedCounters)
      BY <1>1, <2>1 DEF OnDisk
    <2>3. Counters' = <<OpenedCounters[1], OpenedCounters[2]>>
      BY <1>1 DEF Counters
    <2>4. Counted(inode_map', block_map', Counters')
      BY <1>1, <2>1, <2>2, <2>3 DEF Counted
    <2> QED
      BY <1>1, <2>1, <2>2, <2>4 DEF InMemory
  <1>3. (DInv /\ Idle /\ target = {} /\ (~ torn => InMemory) => KInv)'
    BY IdleKInv, PTL
  <1> QED
    BY <1>1, <1>2, <1>3

-----------------------------------------------------------------------------
(* Commands.                                                               *)

(* A command that only answers.                                            *)
LEMMA SaidInMemory ==
  ASSUME InMemory, NEW r, Say(r)
  PROVE  InMemory'
  BY DEF InMemory, Say, tables, Counters

(* A command that dies after it has written bodies, in chains that stay.   *)
LEMMA DiedInMemory ==
  ASSUME InMemory, NEW bm, Sound(inode_map, bm), UsedBlocks(bm) = UsedBlocks(block_map), Die(bm)
  PROVE  InMemory'
  BY DEF InMemory, Die, Counted, Counters

(* A command that dies before it has written anything.                     *)
LEMMA DiedAtOnceInMemory ==
  ASSUME InMemory, Die(block_map) \/ ReadDirDies
  PROVE  InMemory'
  BY DiedInMemory DEF InMemory, ReadDirDies

(* A command that fails writes no record.                                  *)
LEMMA FailedKInv ==
  ASSUME KInv, DInv', Idle, NEW what, NEW inodes, NEW bodies, NEW hits, Then(what, inodes, bodies, hits),
         reply' # "ok", InMemory'
  PROVE  KInv'
  <1>1. Idle' /\ target' = {}
    BY IdleImage DEF Then, Idle
  <1>2. (DInv /\ Idle /\ target = {} /\ (~ torn => InMemory) => KInv)'
    BY IdleKInv, PTL
  <1> QED
    BY <1>1, <1>2

(* One that succeeds has the file as it was, but for the bodies.           *)
LEMMA ThenImage ==
  ASSUME NEW what, NEW inodes, NEW bodies, bodies = [b \in Block |-> bodies[b]],
         NEW hits, Then(what, inodes, bodies, hits), reply' = "ok"
  PROVE  /\ doing' = what /\ target' = inodes /\ torn' = torn
         /\ OpenedInodes' = OpenedInodes /\ Heads' = bodies
         /\ OpenedCounters' = OpenedCounters
  <1>1. /\ doing' = what /\ target' = inodes /\ torn' = torn
        /\ image' = [a \in Address |-> IF a > InodeCount THEN bodies[a - InodeCount - 1] ELSE image[a]]
    BY DEF Then, WithBodies, Address
  <1>2. OpenedCounters' = OpenedCounters
    <2>1. 0 \in Address /\ ~ (0 > InodeCount)
      BY Layout DEF Address
    <2> QED
      BY <1>1, <2>1 DEF OpenedCounters
  <1>3. \A i \in Inode : image'[1 + i] = image[1 + i]
    <2> TAKE i \in Inode
    <2>1. 1 + i \in Address /\ ~ (1 + i > InodeCount)
      BY Layout DEF Address
    <2> QED
      BY <1>1, <2>1
  <1>4. \A b \in Block : image'[1 + InodeCount + b] = bodies[b]
    <2> TAKE b \in Block
    <2>1. 1 + InodeCount + b \in Address /\ 1 + InodeCount + b > InodeCount
      BY Layout DEF Address
    <2>2. b \in Int /\ InodeCount \in Int
      BY Layout
    <2>3. (1 + InodeCount + b) - InodeCount - 1 = b
      BY <2>2
    <2> QED
      BY <1>1, <2>1, <2>3
  <1> QED
    BY <1>1, <1>2, <1>3, <1>4 DEF OpenedInodes, Heads

(* The inodes outside `inodes' and all their blocks stay as they are.      *)
Spares(inodes) ==
  \A j \in Inode \ inodes :
    /\ inode_map'[j] = inode_map[j]
    /\ Live(j) => \A x \in Walk(block_map', inode_map[j].root_block, 0) : block_map'[x] = block_map[x]

(* mkdir, touch or write goes on to minifs_update_superblock.              *)
LEMMA GrownKInv ==
  ASSUME KInv, DInv', Idle, NEW what \in {"make", "fill"}, NEW inodes,
         Then(what, inodes, Heads, {}), reply' = "ok", InMemory', Spares(inodes)
  PROVE  KInv'
  <1>1. OpenedInodes = inode_map /\ Heads = block_map
    BY IdleImage
  <1>2. /\ doing' = what /\ target' = inodes
        /\ OpenedInodes' = inode_map /\ Heads' = block_map
    <2>1. Heads = [b \in Block |-> Heads[b]]
      BY DEF Heads
    <2> QED
      BY <1>1, <2>1, ThenImage
  <1>3. OthersKept'
    BY <1>2 DEF OthersKept, Spares, Live, Owned
  <1>4. ~ Idle' /\ OnDisk' /\ Dropping'
    BY <1>2 DEF Idle, OnDisk, Dropping
  <1> QED
    BY <1>3, <1>4 DEF KInv

-----------------------------------------------------------------------------
(* Counting.                                                               *)

(* An append counts every block it takes.                                  *)
LEMMA CountedTaken ==
  ASSUME NEW im, NEW bm, NEW c1, NEW c2, Counted(im, bm, <<c1, c2>>),
         NEW n \in Nat, NEW nb, Fresh(bm, n, nb), NEW bm2, Takes(bm, bm2, nb, n)
  PROVE  Counted(im, bm2, <<c1, c2 + n>>)
  <1>1. Cardinality(UsedBlocks(bm2)) = Cardinality(UsedBlocks(bm)) + n
    BY TakenCount
  <1>2. Cardinality(UsedBlocks(bm)) \in Nat
    BY FiniteUse
  <1> QED
    BY <1>1, <1>2 DEF Counted

(* mkdir and touch count one inode and one block.                          *)
LEMMA CountedMade ==
  ASSUME NEW im, NEW bm, NEW c1, NEW c2, Counted(im, bm, <<c1, c2>>),
         InodeTable(im), BlockTable(bm),
         NEW i \in Inode, ~ Alive(im, i), NEW b \in Block, ~ InUse(bm, b),
         NEW rec, rec.type \in {FILE, DIR}
  PROVE  Counted([im EXCEPT ![i] = rec], [bm EXCEPT ![b] = NewBlockRec], <<c1 + 1, c2 + 1>>)
  <1> DEFINE im2 == [im EXCEPT ![i] = rec]
             bm2 == [bm EXCEPT ![b] = NewBlockRec]
  <1>1. LiveInodes(im2) = LiveInodes(im) \cup {i} /\ i \notin LiveInodes(im)
    BY DEF LiveInodes, Alive, InodeTable, EMPTY, FILE, DIR
  <1>2. UsedBlocks(bm2) = UsedBlocks(bm) \cup {b} /\ b \notin UsedBlocks(bm)
    BY DEF UsedBlocks, InUse, BlockTable, NewBlockRec
  <1> HIDE DEF im2, bm2
  <1>3. /\ Cardinality(LiveInodes(im2)) = Cardinality(LiveInodes(im)) + 1
        /\ Cardinality(UsedBlocks(bm2)) = Cardinality(UsedBlocks(bm)) + 1
    BY <1>1, <1>2, FiniteUse, FS_AddElement
  <1>4. Cardinality(LiveInodes(im)) \in Nat /\ Cardinality(UsedBlocks(bm)) \in Nat
    BY FiniteUse
  <1>5. Counted(im2, bm2, <<c1 + 1, c2 + 1>>)
    BY <1>3, <1>4 DEF Counted
  <1> QED
    BY <1>5 DEF im2, bm2

(* rm and rmdir count what they free.                                      *)
LEMMA CountedFreed ==
  ASSUME NEW im, NEW bm, NEW c1, NEW c2, Counted(im, bm, <<c1, c2>>),
         InodeTable(im), NEW i \in Inode, Alive(im, i),
         NEW freed \in SUBSET UsedBlocks(bm)
  PROVE  Counted([im EXCEPT ![i] = FreeInodeRec],
                 [b \in Block |-> IF b \in freed THEN FreeBlockRec ELSE bm[b]],
                 <<c1 - 1, c2 - Cardinality(freed)>>)
  <1> DEFINE im2 == [im EXCEPT ![i] = FreeInodeRec]
             bm2 == [b \in Block |-> IF b \in freed THEN FreeBlockRec ELSE bm[b]]
  <1>1. LiveInodes(im2) = LiveInodes(im) \ {i} /\ i \in LiveInodes(im)
    BY DEF LiveInodes, Alive, InodeTable, FreeInodeRec
  <1>2. UsedBlocks(bm2) = UsedBlocks(bm) \ freed /\ UsedBlocks(bm) \cap freed = freed
    BY DEF UsedBlocks, InUse, FreeBlockRec, EMPTY, USED
  <1> HIDE DEF im2, bm2
  <1>3. Cardinality(LiveInodes(im2)) = Cardinality(LiveInodes(im)) - 1
    BY <1>1, FiniteUse, FS_RemoveElement
  <1>4. /\ Cardinality(UsedBlocks(bm2)) = Cardinality(UsedBlocks(bm)) - Cardinality(freed)
        /\ Cardinality(freed) \in Nat
    <2>1. IsFiniteSet(freed)
      BY FiniteUse, FS_Subset
    <2> QED
      BY <2>1, <1>2, FiniteUse, FS_Difference, FS_CardinalityType
  <1>5. Cardinality(LiveInodes(im)) \in Nat /\ Cardinality(UsedBlocks(bm)) \in Nat
    BY FiniteUse
  <1>6. Counted(im2, bm2, <<c1 - 1, c2 - Cardinality(freed)>>)
    BY <1>3, <1>4, <1>5 DEF Counted
  <1> QED
    BY <1>6 DEF im2, bm2

-----------------------------------------------------------------------------
(* mkdir and touch.                                                        *)

(* The directory and the owner of its chain, and the new inode.            *)
Touched == {current_dir} \cup {j \in Inode : DirRoot \in Owned(j) \/ (Live(j)' /\ ~ Live(j))}

(* The entry goes into a chain that is not j's.                            *)
LEMMA EntryElsewhere ==
  ASSUME Sound(inode_map, block_map), current_dir \in Inode,
         NEW i \in Inode, ~ Live(i),
         NEW im, im[i].type \in {FILE, DIR}, \A k \in Inode \ {i} : im[k] = inode_map[k],
         NEW bm, Sound(im, bm),
         NEW last \in LastBlocks(bm, im[current_dir].root_block),
         NEW j \in Inode, j # i, j # current_dir, Live(j), DirRoot \notin Owned(j)
  PROVE  ~ (last \in Chain(im, bm, j))
  <1>1. /\ InodeTable(inode_map) /\ InodeTable(im) /\ BlockTable(block_map) /\ BlockTable(bm)
        /\ PrivateChains(im, bm)
    BY SoundChains DEF Sound, Fits
  <1>2. im[j] = inode_map[j] /\ Alive(im, j) /\ Alive(im, i)
    BY <1>1 DEF InodeTable, Alive, Live, EMPTY, FILE, DIR
  <1>3. PICK o \in Inode : Alive(im, o) /\ im[o].root_block = im[current_dir].root_block
    BY SoundRoots
  <1>4. last \in Chain(im, bm, o)
    BY <1>3 DEF LastBlocks, Chain
  <1>5. CASE o # j
    BY <1>1, <1>2, <1>3, <1>4, <1>5 DEF PrivateChains, Alive
  <1>6. CASE o = j
    <2>1. CASE current_dir = i
      <3>1. last \in Chain(im, bm, i)
        BY <2>1 DEF LastBlocks, Chain
      <3> QED
        BY <3>1, <1>1, <1>2 DEF PrivateChains, Alive
    <2>2. CASE current_dir # i
      <3>1. inode_map[j].root_block = DirRoot
        BY <1>1, <1>2, <1>3, <1>6, <2>2 DEF DirRoot, InodeTable
      <3>2. Links(block_map) /\ inode_map[j].root_block \in Block /\ inode_map[j].root_block >= 0
        <4>1. Links(block_map) /\ inode_map[j].root_block \in Block
          BY <1>1, TablesHaveLinks DEF InodeTable
        <4> QED
          BY <4>1, SizesAssumption DEF Block
      <3>3. DirRoot \in Owned(j)
        BY <3>1, <3>2, WalkHolds DEF Owned
      <3> QED
        BY <3>3
    <2> QED
      BY <2>1, <2>2
  <1> QED
    BY <1>5, <1>6

(* The records are written, then the entry is appended.                    *)
LEMMA CreateWithKInv ==
  ASSUME KInv, ~ torn, Idle, InDir, NEW name \in Names, NEW type \in {FILE, DIR},
         NEW parent \in Inode \cup {None},
         NEW i \in Lowest(FreeInodes), NEW b \in Lowest(FreeBlocks(block_map, used_block_count)),
         CreateWith(name, type, parent, i, b)
  PROVE  InMemory' /\ (reply' = "ok" => Spares(Touched))
  <1> DEFINE rec == [type |-> type, root_block |-> b, parent |-> parent, size |-> 0]
             im == [inode_map EXCEPT ![i] = rec]
             bm == [block_map EXCEPT ![b] = NewBlockRec]
             used == used_block_count + 1
             data == <<Entry(Stored[name], i)>>
             root == im[current_dir].root_block
  <1>1. /\ InMemory /\ Sound(inode_map, block_map)
        /\ Counted(inode_map, block_map, <<used_inode_count, used_block_count>>)
        /\ current_dir \in Inode
    BY IdleImage DEF InMemory, Counters, InDir
  <1>2. i \in Inode /\ ~ Alive(inode_map, i) /\ i # 0
    <2>1. i \in Inode /\ ~ Alive(inode_map, i)
      BY DEF Lowest, FreeInodes, Live, Alive
    <2> QED
      BY <1>1, <2>1, SoundRoots
  <1>3. b \in Block /\ ~ InUse(block_map, b)
    BY DEF Lowest, FreeBlocks, InUse, EMPTY, USED
  <1>4. InodeTable(inode_map) /\ BlockTable(block_map)
    BY <1>1, SoundChains DEF Sound, Fits
  <1>5. rec.type \in {FILE, DIR} /\ rec.root_block = b
    OBVIOUS
  <1>6. InodeTable(im)
    BY <1>3, <1>4 DEF InodeTable
  <1>7. CreateWith(name, type, parent, i, b) =
          \E last \in LastBlocks(bm, im[current_dir].root_block) :
            LET n == BlocksNeeded(bm, last, 1)
            IN  \/ ~ EnoughBlocks(bm, used, n) /\ Die(block_map)
                \/ /\ EnoughBlocks(bm, used, n)
                   /\ \E nb \in NewBlocks(bm, used, n) :
                        block_map' = Appended(bm, last, <<Entry(Stored[name], i)>>, nb)
                   /\ inode_map' = [im EXCEPT ![current_dir].size = @ + 1]
                   /\ used_inode_count' = used_inode_count + 1
                   /\ used_block_count' = used + n
                   /\ reply' = "ok"
                   /\ UNCHANGED current_dir
    BY DEF CreateWith
  <1>8. Sound(im, bm) /\ Counted(im, bm, <<used_inode_count + 1, used>>)
    <2> HIDE DEF rec
    <2> QED
      BY <1>1, <1>2, <1>3, <1>4, <1>5, <1>6, SoundMake, CountedMade
  <1>9. im = [inode_map EXCEPT ![i] = rec] /\ \A x \in Block : x # b => bm[x] = block_map[x]
    BY <1>4 DEF BlockTable
  <1>10. data \in Seq(Cell)
    <2>1. Stored[name] \in Names
      BY InputAssumption
    <2>2. Entry(Stored[name], i) \in Cell
      BY <2>1, <1>2 DEF Entry, Cell
    <2> QED
      BY <2>2
  <1>11. im[i].root_block = b /\ Alive(im, i)
    BY <1>2, <1>4 DEF InodeTable, Alive, EMPTY, FILE, DIR
  <1>12. ~ Live(i)
    BY <1>2 DEF Alive, Live
  <1> HIDE DEF rec, im, bm, used, data, root
  <1>13. PICK last \in LastBlocks(bm, root) :
           \/ Die(block_map)
           \/ /\ \E nb \in NewBlocks(bm, used, BlocksNeeded(bm, last, 1)) :
                   block_map' = Appended(bm, last, data, nb)
              /\ inode_map' = [im EXCEPT ![current_dir].size = @ + 1]
              /\ used_inode_count' = used_inode_count + 1
              /\ used_block_count' = used + BlocksNeeded(bm, last, 1)
              /\ reply' = "ok"
              /\ UNCHANGED current_dir
    BY <1>7 DEF data, root
  <1>14. CASE Die(block_map)
    BY <1>1, <1>14, DiedAtOnceInMemory DEF Die
  <1>15. CASE /\ \E nb \in NewBlocks(bm, used, BlocksNeeded(bm, last, 1)) :
                   block_map' = Appended(bm, last, data, nb)
              /\ inode_map' = [im EXCEPT ![current_dir].size = @ + 1]
              /\ used_inode_count' = used_inode_count + 1
              /\ used_block_count' = used + BlocksNeeded(bm, last, 1)
              /\ reply' = "ok"
              /\ UNCHANGED current_dir
    <2> DEFINE n == BlocksNeeded(bm, last, 1)
    <2>1. root \in Block /\ Fits(bm)
      BY <1>1, <1>6, <1>8 DEF InodeTable, Sound, root
    <2>2. n \in Nat
      BY <2>1, LastBlocksType DEF Fits
    <2>3. PICK nb \in NewBlocks(bm, used, n) : block_map' = Appended(bm, last, data, nb)
      BY <1>15
    <2> HIDE DEF n
    <2>4. Fresh(bm, n, nb)
      BY <2>2, <2>3, NewBlocksAreFree
    <2>5. Sound(im, block_map') /\ Takes(bm, block_map', nb, n) /\ Besides(im, bm, block_map', last)
      <3>1. Sound(im, bm) /\ current_dir \in Inode /\ last \in LastBlocks(bm, im[current_dir].root_block)
        BY <1>1, <1>8 DEF root
      <3> QED
        BY <3>1, <1>10, <2>2, <2>3, <2>4, SoundAppend
    <2>6. Counted(im, block_map', <<used_inode_count + 1, used + n>>)
      BY <1>8, <2>2, <2>4, <2>5, CountedTaken
    <2>7. /\ InodeTable(inode_map')
          /\ \A j \in Inode : /\ inode_map'[j].type = im[j].type
                              /\ inode_map'[j].root_block = im[j].root_block
      BY <1>1, <1>6, <1>15 DEF InodeTable
    <2>8. Sound(inode_map', block_map')
      BY <2>5, <2>7, SoundContents
    <2>9. Counted(inode_map', block_map', Counters')
      <3>1. LiveInodes(im) \subseteq LiveInodes(inode_map')
        BY <2>7 DEF LiveInodes, Alive
      <3>2. Counters' = <<used_inode_count + 1, used + n>>
        BY <1>15 DEF Counters, n
      <3> QED
        BY <2>6, <3>1, <3>2, CountedMore
    <2>10. InMemory'
      BY <1>1, <1>15, <2>8, <2>9 DEF InMemory
    <2>11. Spares(Touched)
      <3> SUFFICES ASSUME NEW j \in Inode, j \notin Touched
                   PROVE  /\ inode_map'[j] = inode_map[j]
                          /\ Live(j) => \A x \in Walk(block_map', inode_map[j].root_block, 0) :
                                          block_map'[x] = block_map[x]
        BY DEF Spares
      <3>1. Live(i)'
        BY <1>2, <1>11, <2>7 DEF Live, Alive
      <3>2. j # current_dir /\ DirRoot \notin Owned(j) /\ j # i
        BY <3>1, <1>12 DEF Touched
      <3>3. im[j] = inode_map[j] /\ inode_map'[j] = im[j]
        BY <1>4, <1>6, <1>9, <1>15, <3>2 DEF InodeTable
      <3>4. ASSUME Live(j), NEW x \in Walk(block_map', inode_map[j].root_block, 0)
            PROVE  block_map'[x] = block_map[x]
        <4>1. last \notin Chain(im, bm, j)
          <5>1. Sound(im, bm) /\ current_dir \in Inode /\ last \in LastBlocks(bm, im[current_dir].root_block)
            BY <1>1, <1>8 DEF root
          <5>2. im[i].type \in {FILE, DIR} /\ \A k \in Inode \ {i} : im[k] = inode_map[k]
            BY <1>2, <1>4, <1>5, <1>9 DEF InodeTable
          <5>3. Sound(inode_map, block_map) /\ i \in Inode /\ b \in Block /\ ~ Live(i)
            BY <1>1, <1>2, <1>3, <1>12
          <5>4. j # i /\ j # current_dir /\ Live(j) /\ DirRoot \notin Owned(j)
            BY <3>2, <3>4
          <5>5. SUFFICES ASSUME last \in Chain(im, bm, j) PROVE FALSE
            OBVIOUS
          <5> QED
            BY <5>1, <5>2, <5>3, <5>4, <5>5, EntryElsewhere
        <4>2. x \in Chain(im, block_map', j)
          BY <3>3, <3>4 DEF Chain
        <4>3. block_map'[x] = bm[x] /\ x \in Block
          BY <2>5, <4>1, <4>2, SoundChains DEF Besides
        <4>4. x # b
          <5>1. Links(block_map') /\ b >= 0
            BY <1>3, <2>5, TablesHaveLinks, SizesAssumption DEF Sound, Fits, Block
          <5>2. b \in Chain(im, block_map', i)
            BY <1>3, <1>11, <5>1, WalkHolds DEF Chain
          <5>3. PrivateChains(im, block_map')
            BY <2>5, SoundChains
          <5> QED
            BY <1>2, <1>11, <3>2, <3>3, <3>4, <4>2, <5>2, <5>3 DEF PrivateChains, Alive, Live
        <4> QED
          BY <1>9, <4>3, <4>4
      <3> QED
        BY <3>3, <3>4
    <2> QED
      BY <2>10, <2>11
  <1> QED
    BY <1>13, <1>14, <1>15

(* mkdir and touch, up to their update.                                    *)
LEMMA MakesKInv ==
  ASSUME KInv, DInv', NEW name \in Names, Makes(name)
  PROVE  KInv'
  <1>1. /\ Idle /\ ~ torn /\ InMemory
        /\ Then("make", Touched, Heads, {})
    BY IdleImage DEF Makes, Touched
  <1>2. ASSUME NEW type \in {FILE, DIR}, NEW parent, InDir => parent \in Inode \cup {None},
               Create(name, type, parent)
        PROVE  InMemory' /\ (reply' = "ok" => Spares(Touched))
    <2>1. CASE \E r \in {"too long", "no inodes", "no blocks"} : Say(r)
      BY <1>1, <2>1, SaidInMemory DEF Say
    <2>2. CASE Die(block_map)
      BY <1>1, <2>2, DiedAtOnceInMemory DEF Die
    <2>3. CASE /\ InDir
               /\ \E i \in Lowest(FreeInodes), b \in Lowest(FreeBlocks(block_map, used_block_count)) :
                    CreateWith(name, type, parent, i, b)
      BY <1>1, <1>2, <2>3, CreateWithKInv
    <2> QED
      BY <1>2, <2>1, <2>2, <2>3 DEF Create
  <1>3. InMemory' /\ (reply' = "ok" => Spares(Touched))
    BY <1>2 DEF Makes, Mkdir, Touch, InDir
  <1>4. CASE reply' = "ok"
    BY <1>1, <1>3, <1>4, GrownKInv
  <1>5. CASE reply' # "ok"
    BY <1>1, <1>3, <1>5, FailedKInv
  <1> QED
    BY <1>4, <1>5

-----------------------------------------------------------------------------
(* write.                                                                  *)

(* The file grows, every other one stays as it is.                         *)
LEMMA WriteToKInv ==
  ASSUME InMemory, NEW i \in Inode, Live(i), NEW data \in Inputs, WriteTo(i, data)
  PROVE  InMemory' /\ (reply' = "ok" => Spares({i}))
  <1>1. /\ Sound(inode_map, block_map) /\ current_dir \in Inode \cup {None}
        /\ Counted(inode_map, block_map, <<used_inode_count, used_block_count>>)
    BY DEF InMemory, Counters
  <1>2. PICK last \in LastBlocks(block_map, inode_map[i].root_block) :
          \/ Die(block_map)
          \/ /\ \E nb \in NewBlocks(block_map, used_block_count,
                                    BlocksNeeded(block_map, last, Len(data))) :
                  block_map' = Appended(block_map, last, data, nb)
             /\ used_block_count' =
                  used_block_count + BlocksNeeded(block_map, last, Len(data))
             /\ \E len \in FreedLengths \cup {Len(data)} :
                  inode_map' = [inode_map EXCEPT ![i].size = @ + len]
             /\ reply' = "ok"
             /\ UNCHANGED <<used_inode_count, current_dir>>
    BY DEF WriteTo
  <1>3. CASE Die(block_map)
    BY <1>3, DiedAtOnceInMemory DEF Die
  <1>4. CASE /\ \E nb \in NewBlocks(block_map, used_block_count,
                                    BlocksNeeded(block_map, last, Len(data))) :
                  block_map' = Appended(block_map, last, data, nb)
             /\ used_block_count' =
                  used_block_count + BlocksNeeded(block_map, last, Len(data))
             /\ \E len \in FreedLengths \cup {Len(data)} :
                  inode_map' = [inode_map EXCEPT ![i].size = @ + len]
             /\ reply' = "ok"
             /\ UNCHANGED <<used_inode_count, current_dir>>
    <2> DEFINE n == BlocksNeeded(block_map, last, Len(data))
    <2>1. data \in Seq(Cell) /\ Len(data) \in Nat
      BY InputsAreCells
    <2>2. /\ InodeTable(inode_map) /\ Fits(block_map) /\ inode_map[i].root_block \in Block
          /\ PrivateChains(inode_map, block_map)
      BY <1>1, SoundChains DEF Sound, InodeTable
    <2>3. n \in Nat
      BY <2>1, <2>2, LastBlocksType DEF Fits
    <2>4. PICK nb \in NewBlocks(block_map, used_block_count, n) :
            block_map' = Appended(block_map, last, data, nb)
      BY <1>4
    <2>5. used_block_count' = used_block_count + n /\ used_inode_count' = used_inode_count
      BY <1>4
    <2> HIDE DEF n
    <2>6. Fresh(block_map, n, nb)
      BY <2>3, <2>4, NewBlocksAreFree
    <2>7. /\ Sound(inode_map, block_map') /\ Takes(block_map, block_map', nb, n)
          /\ Besides(inode_map, block_map, block_map', last)
      BY <1>1, <2>1, <2>3, <2>4, <2>6, SoundAppend
    <2>8. PICK len \in FreedLengths \cup {Len(data)} :
            inode_map' = [inode_map EXCEPT ![i].size = @ + len]
      BY <1>4
    <2>9. len \in Nat
      BY <2>1, InputAssumption
    <2>10. /\ InodeTable(inode_map')
           /\ \A j \in Inode : /\ inode_map'[j].type = inode_map[j].type
                               /\ inode_map'[j].root_block = inode_map[j].root_block
      BY <2>2, <2>8, <2>9 DEF InodeTable
    <2>11. Sound(inode_map', block_map')
      BY <2>7, <2>10, SoundContents
    <2>12. Counted(inode_map', block_map', Counters')
      <3>1. Counted(inode_map, block_map', <<used_inode_count, used_block_count + n>>)
        BY <1>1, <2>3, <2>6, <2>7, CountedTaken
      <3>2. LiveInodes(inode_map) \subseteq LiveInodes(inode_map')
        BY <2>10 DEF LiveInodes, Alive
      <3>3. Counters' = <<used_inode_count, used_block_count + n>>
        BY <2>5 DEF Counters
      <3> QED
        BY <3>1, <3>2, <3>3, CountedMore
    <2>13. InMemory'
      BY <1>1, <1>4, <2>11, <2>12 DEF InMemory
    <2>14. Spares({i})
      <3> SUFFICES ASSUME NEW j \in Inode, j # i
                   PROVE  /\ inode_map'[j] = inode_map[j]
                          /\ Live(j) => \A x \in Walk(block_map', inode_map[j].root_block, 0) :
                                          block_map'[x] = block_map[x]
        BY DEF Spares
      <3>1. inode_map'[j] = inode_map[j]
        BY <2>2, <2>8 DEF InodeTable
      <3>2. ASSUME Live(j)
            PROVE  \A x \in Walk(block_map', inode_map[j].root_block, 0) : block_map'[x] = block_map[x]
        <4>1. last \in Chain(inode_map, block_map, i)
          BY DEF LastBlocks, Chain
        <4>2. last \notin Chain(inode_map, block_map, j)
          BY <2>2, <3>2, <4>1 DEF PrivateChains, Live
        <4> QED
          BY <2>7, <4>2 DEF Besides, Chain
      <3> QED
        BY <3>1, <3>2
    <2> QED
      BY <2>13, <2>14
  <1> QED
    BY <1>2, <1>3, <1>4

(* write, up to its update.                                                *)
LEMMA FillsKInv ==
  ASSUME KInv, DInv', NEW name \in Names, Fills(name)
  PROVE  KInv'
  <1> DEFINE inodes == {EntryAt(s).inode : s \in Latest(Matches(name, FILE))}
  <1>1. Idle /\ ~ torn /\ InMemory /\ Then("fill", inodes, Heads, {})
    BY IdleImage DEF Fills
  <1>2. PICK data \in Inputs : Write(name, data)
    BY DEF Fills
  <1>3. CASE ReadDirDies \/ Die(block_map)
    <2>1. reply' # "ok"
      BY <1>3 DEF ReadDirDies, Die
    <2> QED
      BY <1>1, <1>3, <2>1, DiedAtOnceInMemory, FailedKInv
  <1>4. CASE Say("not found")
    <2>1. reply' # "ok" /\ InMemory'
      BY <1>1, <1>4, SaidInMemory DEF Say
    <2> QED
      BY <1>1, <2>1, FailedKInv
  <1>5. ASSUME NEW s \in Latest(Matches(name, FILE)), WriteTo(EntryAt(s).inode, data)
        PROVE  KInv'
    <2> DEFINE i == EntryAt(s).inode
    <2>1. s \in Matches(name, FILE) /\ BlockTable(block_map)
      BY <1>1 DEF Latest, InMemory, Sound, Fits
    <2>2. i \in Inode /\ Live(i)
      BY <2>1, FoundEntry DEF Alive, Live
    <2>3. i \in inodes
      OBVIOUS
    <2> HIDE DEF i, inodes
    <2>4. InMemory' /\ (reply' = "ok" => Spares({i}))
      BY <1>1, <1>5, <2>2, WriteToKInv DEF i
    <2>5. reply' = "ok" => Spares(inodes)
      BY <2>3, <2>4 DEF Spares
    <2>6. CASE reply' = "ok"
      BY <1>1, <2>4, <2>5, <2>6, GrownKInv
    <2>7. CASE reply' # "ok"
      BY <1>1, <2>4, <2>7, FailedKInv
    <2> QED
      BY <2>6, <2>7
  <1> QED
    BY <1>2, <1>3, <1>4, <1>5 DEF Write

-----------------------------------------------------------------------------
(* rm and rmdir.                                                           *)

(* Inode i is freed in memory, the file has it with its whole chain.       *)
LEMMA FreedKInv ==
  ASSUME KInv, DInv', Idle, ~ torn, NEW i \in Inode \ {0}, Live(i),
         NEW bm, Sound(inode_map, bm), UsedBlocks(bm) = UsedBlocks(block_map),
         \A b \in Block : bm[b].next_block = block_map[b].next_block,
         NEW hits, FreeInode(i, bm), Then("drop", {k \in Inode : Live(k) /\ ~ Live(k)'}, bm, hits)
  PROVE  KInv'
  <1> DEFINE freed == Chain(inode_map, bm, i)
  <1>1. /\ InMemory /\ OpenedInodes = inode_map /\ Heads = block_map
        /\ OpenedCounters = Counters
    BY IdleImage
  <1>2. /\ InodeTable(inode_map) /\ Fits(bm) /\ BlockTable(bm) /\ Alive(inode_map, i)
        /\ freed \in SUBSET UsedBlocks(bm)
    BY SoundChains DEF Sound, Fits, Alive, Live, UsedBlocks
  <1>3. FreedChain(i) = freed
    <2>1. Closed(block_map, inode_map[i].root_block, 1) = Closed(bm, inode_map[i].root_block, 1)
      BY DEF Closed
    <2>2. FreedChain(i) = Walk(bm, inode_map[i].root_block, 1)
      BY <2>1 DEF FreedChain, Walk
    <2> QED
      BY <1>2, <2>2, SoundFree
  <1> HIDE DEF freed
  <1>4. /\ block_map' = [b \in Block |-> IF b \in freed THEN FreeBlockRec ELSE bm[b]]
        /\ inode_map' = [inode_map EXCEPT ![i] = FreeInodeRec]
        /\ used_inode_count' = used_inode_count - 1
        /\ used_block_count' = used_block_count - Cardinality(freed)
        /\ reply' = "ok" /\ current_dir' = current_dir
    BY <1>3 DEF FreeInode, Released
  <1>5. Sound(inode_map', block_map')
    <2>1. Fits(block_map')
      BY <1>2, <1>4, SizesAssumption DEF Fits, BlockTable, FreeBlockRec, Block
    <2>2. \A b \in Block \ freed : block_map'[b] = bm[b]
      BY <1>4
    <2> QED
      BY <1>2, <1>4, <2>1, <2>2, SoundFree DEF freed
  <1>6. Counted(inode_map, bm, Counters) /\ Counted(inode_map', block_map', Counters')
    <2>1. Counted(inode_map, bm, <<used_inode_count, used_block_count>>)
      BY <1>1 DEF InMemory, Counted, Counters
    <2>2. Counters' = <<used_inode_count - 1, used_block_count - Cardinality(freed)>>
      BY <1>4 DEF Counters
    <2> QED
      BY <1>2, <1>4, <2>1, <2>2, CountedFreed DEF Counters
  <1>7. {k \in Inode : Live(k) /\ ~ Live(k)'} = {i}
    <2>1. ~ Live(i)' /\ \A k \in Inode \ {i} : Live(k)' <=> Live(k)
      BY <1>2, <1>4 DEF Live, InodeTable, FreeInodeRec
    <2> QED
      BY <2>1
  <1>8. /\ doing' = "drop" /\ target' = {i}
        /\ OpenedInodes' = inode_map /\ Heads' = bm /\ OpenedCounters' = Counters
    <2>1. bm = [b \in Block |-> bm[b]]
      BY <1>2 DEF BlockTable
    <2> QED
      BY <1>1, <1>4, <1>7, <2>1, ThenImage
  <1>9. InMemory'
    BY <1>1, <1>4, <1>5, <1>6 DEF InMemory
  <1>10. OnDisk'
    BY <1>6, <1>8 DEF OnDisk
  <1>11. Dropping'
    <2>1. inode_map'[i] = FreeInodeRec
      BY <1>2, <1>4 DEF InodeTable
    <2>2. LiveInodes(inode_map') \subseteq LiveInodes(inode_map)
      BY <1>2, <1>4 DEF LiveInodes, Alive, InodeTable, FreeInodeRec
    <2>3. UsedBlocks(block_map') \subseteq UsedBlocks(bm)
      BY <1>4 DEF UsedBlocks, InUse, FreeBlockRec, EMPTY, USED
    <2> QED
      BY <1>8, <2>1, <2>2, <2>3 DEF Dropping
  <1>12. OthersKept'
    <2> SUFFICES ASSUME NEW j \in Inode, j # i
                 PROVE  /\ inode_map[j] = inode_map'[j]
                        /\ \A b \in Walk(block_map', inode_map'[j].root_block, 0) :
                             bm[b] = block_map'[b]
      BY <1>8 DEF OthersKept, Owned
    <2>1. inode_map[j] = inode_map'[j]
      BY <1>2, <1>4 DEF InodeTable
    <2>2. ASSUME NEW b \in Walk(block_map', inode_map'[j].root_block, 0)
          PROVE  bm[b] = block_map'[b]
      <3>1. b \in Block /\ InUse(block_map', b)
        BY <1>5, SoundChains DEF Chain
      <3> QED
        BY <1>4, <3>1 DEF InUse, FreeBlockRec, EMPTY, USED
    <2> QED
      BY <2>1, <2>2
  <1>13. ~ Idle'
    BY <1>8 DEF Idle
  <1> QED
    BY <1>9, <1>10, <1>11, <1>12, <1>13 DEF KInv

(* The last match is one.                                                  *)
LEMMA LatestOnce ==
  ASSUME Sound(inode_map, block_map), InDir, NEW name, NEW type,
         NEW s \in Latest(Matches(name, type)), NEW t \in Latest(Matches(name, type))
  PROVE  s = t
  <1> SUFFICES ASSUME s # t PROVE FALSE
    OBVIOUS
  <1>1. s \in DirSlots /\ t \in DirSlots
    BY DEF Latest, Matches
  <1>2. Precedes(block_map, s, t) /\ Precedes(block_map, t, s)
    BY DEF Latest
  <1>3. /\ s[1] \in Chain(inode_map, block_map, current_dir) /\ s[2] \in Int
        /\ t[1] \in Chain(inode_map, block_map, current_dir) /\ t[2] \in Int
    BY <1>1 DEF DirSlots, Slots, DirRoot, Chain
  <1>4. s[1] # t[1] /\ t[1] \in Walk(block_map, s[1], 0) /\ s[1] \in Walk(block_map, t[1], 0)
    BY <1>2, <1>3 DEF Precedes
  <1> QED
    BY <1>3, <1>4, NoCycle DEF InDir

(* Clearing no cell changes nothing.                                       *)
LEMMA ClearNothing ==
  ASSUME NEW bm, Fits(bm)
  PROVE  ClearUsed(bm, {}) = bm
  <1>1. \A b \in Block : [k \in 1 .. Len(bm[b].cells) |-> bm[b].cells[k]] = bm[b].cells
    BY DEF Fits, BlockTable
  <1>2. \A b \in Block : [bm[b] EXCEPT !.cells = bm[b].cells] = bm[b]
    BY DEF Fits, BlockTable
  <1>3. ClearUsed(bm, {}) = [b \in Block |-> [bm[b] EXCEPT !.cells = bm[b].cells]]
    BY <1>1 DEF ClearUsed
  <1> QED
    BY <1>2, <1>3 DEF Fits, BlockTable

(* Clearing cells changes no link.                                         *)
LEMMA ClearLinks ==
  ASSUME NEW bm, Fits(bm), NEW numbers
  PROVE  \A b \in Block : ClearUsed(bm, numbers)[b].next_block = bm[b].next_block
  BY DEF ClearUsed, Fits, BlockTable

(* The bodies that rm and rmdir leave.                                     *)
LEMMA MatchesClearedSound ==
  ASSUME InMemory, NEW name, NEW type
  PROVE  LET bm == MatchesCleared(name, type)
         IN  /\ Sound(inode_map, bm) /\ UsedBlocks(bm) = UsedBlocks(block_map)
             /\ \A b \in Block : bm[b].next_block = block_map[b].next_block
  <1>1. Sound(inode_map, block_map) /\ Fits(block_map)
    BY DEF InMemory, Sound
  <1> QED
    BY <1>1, SoundClear, ClearLinks DEF MatchesCleared

(* rmdir, up to its update.                                                *)
LEMMA RmdirKInv ==
  ASSUME KInv, DInv', Idle, ~ torn, NEW name, Rmdir(name),
         Then("drop", {k \in Inode : Live(k) /\ ~ Live(k)'}, Cleared(name, DIR), Strikes(name, DIR))
  PROVE  KInv'
  <1> DEFINE bm == MatchesCleared(name, DIR)
             inodes == {k \in Inode : Live(k) /\ ~ Live(k)'}
  <1>1. /\ InMemory
        /\ Sound(inode_map, bm) /\ UsedBlocks(bm) = UsedBlocks(block_map)
        /\ \A b \in Block : bm[b].next_block = block_map[b].next_block
    BY IdleImage, MatchesClearedSound
  <1>2. Then("drop", inodes, bm, Strikes(name, DIR))
    <2>1. Cleared(name, DIR) = ClearUsed(bm, {})
      BY DEF Cleared, Again
    <2> QED
      BY <1>1, <2>1, ClearNothing DEF Sound
  <1>3. CASE ReadDirDies
    <2>1. reply' # "ok"
      BY <1>3 DEF ReadDirDies, Die
    <2> QED
      BY <1>1, <1>2, <1>3, <2>1, DiedAtOnceInMemory, FailedKInv
  <1>4. CASE Die(bm)
    <2>1. reply' # "ok" /\ InMemory'
      <3> HIDE DEF bm
      <3> QED
        BY <1>1, <1>4, DiedInMemory DEF Die
    <2> QED
      BY <1>2, <2>1, FailedKInv
  <1>5. CASE Say("not found")
    <2>1. reply' # "ok" /\ InMemory'
      BY <1>1, <1>5, SaidInMemory DEF Say
    <2> QED
      BY <1>2, <2>1, FailedKInv
  <1>6. ASSUME NEW s \in Latest(Matches(name, DIR)), FreeInode(EntryAt(s).inode, bm)
        PROVE  KInv'
    <2>1. s \in Matches(name, DIR) /\ BlockTable(block_map)
      BY <1>1 DEF Latest, InMemory, Sound, Fits
    <2>2. EntryAt(s).inode \in Inode \ {0} /\ Live(EntryAt(s).inode)
      BY <2>1, FoundEntry DEF Alive, Live
    <2> HIDE DEF bm
    <2> QED
      BY <1>1, <1>2, <1>6, <2>2, FreedKInv
  <1> QED
    BY <1>3, <1>4, <1>5, <1>6 DEF Rmdir

(* rm, up to its update.                                                   *)
LEMMA RmKInv ==
  ASSUME KInv, DInv', Idle, ~ torn, NEW name, Rm(name),
         Then("drop", {k \in Inode : Live(k) /\ ~ Live(k)'}, Cleared(name, FILE), Strikes(name, FILE))
  PROVE  KInv'
  <1> DEFINE bm == MatchesCleared(name, FILE)
             inodes == {k \in Inode : Live(k) /\ ~ Live(k)'}
  <1>1. /\ InMemory
        /\ Sound(inode_map, bm) /\ UsedBlocks(bm) = UsedBlocks(block_map)
        /\ \A b \in Block : bm[b].next_block = block_map[b].next_block
    BY IdleImage, MatchesClearedSound
  <1>2. CASE ReadDirDies
    <2>1. reply' # "ok"
      BY <1>2 DEF ReadDirDies, Die
    <2> QED
      BY <1>1, <1>2, <2>1, DiedAtOnceInMemory, FailedKInv
  <1>3. CASE Die(bm)
    <2>1. reply' # "ok" /\ InMemory'
      <3> HIDE DEF bm
      <3> QED
        BY <1>1, <1>3, DiedInMemory DEF Die
    <2> QED
      BY <2>1, FailedKInv
  <1>4. CASE Say("not found")
    <2>1. reply' # "ok" /\ InMemory'
      BY <1>1, <1>4, SaidInMemory DEF Say
    <2> QED
      BY <2>1, FailedKInv
  <1>5. ASSUME InDir, NEW s \in Latest(Matches(name, FILE)),
               FreeInode(EntryAt(s).inode, ClearUsed(bm, RemovedCells(DirRoot, EntryAt(s).inode)))
        PROVE  KInv'
    <2> DEFINE again == RemovedCells(DirRoot, EntryAt(s).inode)
               bm2 == ClearUsed(bm, again)
    <2>1. s \in Matches(name, FILE) /\ BlockTable(block_map)
      BY <1>1 DEF Latest, InMemory, Sound, Fits
    <2>2. EntryAt(s).inode \in Inode \ {0} /\ Live(EntryAt(s).inode)
      BY <2>1, FoundEntry DEF Alive, Live
    <2>3. Cleared(name, FILE) = bm2
      <3>1. Latest(Matches(name, FILE)) = {s}
        BY <1>1, <1>5, LatestOnce DEF InMemory
      <3>2. UNION {RemovedCells(DirRoot, EntryAt(r).inode) : r \in {s}} = again
        OBVIOUS
      <3> QED
        BY <3>1, <3>2 DEF Cleared, Again, FILE, DIR
    <2>4. /\ Sound(inode_map, bm2) /\ UsedBlocks(bm2) = UsedBlocks(block_map)
          /\ \A b \in Block : bm2[b].next_block = block_map[b].next_block
      <3> HIDE DEF bm
      <3>1. Fits(bm)
        BY <1>1 DEF Sound
      <3> QED
        BY <1>1, <3>1, SoundClear, ClearLinks
    <2>5. FreeInode(EntryAt(s).inode, bm2) /\ Then("drop", inodes, bm2, Strikes(name, FILE))
      BY <1>5, <2>3
    <2> HIDE DEF bm2
    <2> QED
      BY <2>2, <2>4, <2>5, FreedKInv
  <1> QED
    BY <1>2, <1>3, <1>4, <1>5 DEF Rm

(* What rm and rmdir share.                                                *)
LEMMA DropsKInv ==
  ASSUME KInv, DInv', NEW name \in Names, Drops(name)
  PROVE  KInv'
  <1>1. PICK type \in {FILE, DIR} :
          /\ Idle /\ ~ torn
          /\ IF type = FILE THEN Rm(name) ELSE Rmdir(name)
          /\ Then("drop", {k \in Inode : Live(k) /\ ~ Live(k)'}, Cleared(name, type), Strikes(name, type))
    BY DEF Drops
  <1>2. CASE type = FILE
    BY <1>1, <1>2, RmKInv
  <1>3. CASE type = DIR
    <2>1. type # FILE
      BY <1>3 DEF FILE, DIR
    <2> QED
      BY <1>1, <1>3, <2>1, RmdirKInv
  <1> QED
    BY <1>2, <1>3

-----------------------------------------------------------------------------
(* What follows for every run.                                             *)

(* Every step keeps the invariant.                                         *)
LEMMA NextKInv == KInv /\ [CrashNext]_cvars => KInv'
  <1> SUFFICES ASSUME KInv, [CrashNext]_cvars
               PROVE  KInv'
    OBVIOUS
  <1>1. DInv'
    BY NextSynced DEF KInv
  <1>2. CASE Quiet
    BY <1>1, <1>2, QuietKInv
  <1>3. CASE WriteRecord
    BY <1>1, <1>3, WriteRecordKInv
  <1>4. CASE Kill
    BY <1>1, <1>4, KillKInv
  <1>5. ASSUME NEW name \in Names, Makes(name) \/ Fills(name) \/ Drops(name)
        PROVE  KInv'
    BY <1>1, <1>5, MakesKInv, FillsKInv, DropsKInv
  <1>6. CASE UNCHANGED cvars
    BY <1>1, <1>6
       DEF cvars, vars, update, KInv, OthersKept, Live, Owned, InMemory, OnDisk, Dropping, Idle,
           OpenedInodes, Heads, OpenedCounters, Counters
  <1> QED
    BY <1>2, <1>3, <1>4, <1>5, <1>6 DEF CrashNext

(* The invariant holds in every state, whatever is killed and whenever.    *)
THEOREM KilledInvariance == CrashSpec => []KInv
  <1>1. CrashInit => KInv
    BY InitKInv
  <1>2. KInv /\ [CrashNext]_cvars => KInv'
    BY NextKInv
  <1> QED
    BY <1>1, <1>2, PTL DEF CrashSpec

(* An rm or rmdir killed at any write of minifs_update_superblock leaves,  *)
(* for tables of any size, each inode with its whole chain or free, and no *)
(* block in two chains, unless a head still holds the byte that rm has put *)
(* there; and so does whatever is done after such kills.                   *)
THEOREM RemovalIsAtomic == CrashSpec => []DropIsAtomic
  <1>1. KInv => DropIsAtomic
    BY SoundChains DEF KInv, OnDisk, DropIsAtomic, Damaged
  <1> QED
    BY <1>1, KilledInvariance, PTL

(* Killed anywhere in any command, minifs_update_superblock leaves the     *)
(* inodes the command is not about on the disk as they are in memory, with *)
(* all their cells but those of a block whose head holds a byte of rm.     *)
THEOREM OtherInodesSurvive == CrashSpec => []OthersSurvive
  <1>1. KInv => OthersSurvive
    <2> SUFFICES ASSUME KInv, NEW i \in Inode \ target
                 PROVE  /\ OpenedInodes[i] = inode_map[i]
                        /\ ~ torn /\ Live(i) =>
                             \A b \in Owned(i) \ StruckHeads : OpenedBlocks[b] = block_map[b]
      BY DEF OthersSurvive
    <2>1. /\ OpenedInodes[i] = inode_map[i]
          /\ ~ torn /\ Live(i) => \A b \in Owned(i) : Heads[b] = block_map[b]
      BY DEF KInv, OthersKept
    <2> QED
      BY <2>1, NotStruck, WalkInBlocks DEF Owned
  <1> QED
    BY <1>1, KilledInvariance, PTL

(* However many removals are killed, used_inode_count and used_block_count *)
(* never exceed what is in use, so find_free_inode and find_free_block     *)
(* refuse too early only after a wrap below 0.                             *)
THEOREM CountersStayBelow == CrashSpec => []CountersNeverOver
  <1>1. KInv => CountersNeverOver
    <2> SUFFICES ASSUME KInv, ~ torn
                 PROVE  /\ used_inode_count + 1 <= Cardinality({i \in Inode : Live(i)})
                        /\ used_block_count + 1 <= Cardinality({b \in Block : block_map[b].type = USED})
      BY DEF CountersNeverOver
    <2>1. {i \in Inode : Live(i)} = LiveInodes(inode_map)
      BY DEF Live, LiveInodes, Alive
    <2>2. {b \in Block : block_map[b].type = USED} = UsedBlocks(block_map)
      BY DEF UsedBlocks, InUse
    <2> QED
      BY <2>1, <2>2 DEF KInv, InMemory, Counted, Counters
  <1> QED
    BY <1>1, KilledInvariance, PTL
=============================================================================
