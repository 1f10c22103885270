# Verification of the kernels repository

TLA+ models of the three programs of this repository, TLC configurations that
check them on small instances, and TLAPS proofs of what holds for every size.

## The system: inventory

Three independent programs.

| Part | Source | State | Operations | Called by |
|---|---|---|---|---|
| MiniFS commands | `02-miniFS/src/internal/commands/execute.c` | current directory | ls, cd, mkdir, rmdir, touch, rm, write, read, exit, help, debug | the prompt loop of `main.c` |
| MiniFS tables, chains, entries | `02-miniFS/src/internal/fs/fs.c` | inode table, block table, two counters, block bodies on the disk | find_free_inode/block, append_data, remove_from_dir, read_dir, read_data | the commands |
| MiniFS disk image | `fs.c` (`check_exists`, `minifs_init`, `minifs_open`, `minifs_update_superblock`) | the file on the host | format, open, write the tables back | `main.c`, every command that changes a table |
| MiniFS block I/O | `fs.c` (`minifs_read_block`, `minifs_write_block`) | a byte counter | transfer with retry of short reads and writes | everything in `fs.c` |
| Line tokenizer | `utils/utils.c` | none | split_line, free_lines | the prompt loop |
| Request tokenizer | `01-kernel_module/storage.c` (`split_request`) | none | split_request | `device_write` |
| Debug log | `debug/debug.c` | none | print to stderr | everything |
| Contact device | `01-kernel_module/storage.c` | 1024 cells, one answer buffer, open counter | open, read, write (add, get, delete), release | processes, concurrently |
| Contact system calls | `03-sys_call/contact_storage/storage.c` | 1024 cells, `initialized` | add_user, get_user, del_user | threads, concurrently |

How they interact: in MiniFS `main` reads a line, `split_line` cuts it,
`minifs_execute` picks a command, the command calls `fs.c`, which keeps the
tables in memory and the bodies in the file; a command that changed a table ends
in `minifs_update_superblock`.  Everything is one thread; the only other actor
is whatever kills the process.  The two contact stores do not share code or
state with each other or with MiniFS; their operations run on behalf of several
processes at once and take no lock.

Which module models which part:

| Part | Model | Proofs |
|---|---|---|
| MiniFS commands, tables, chains, entries | `MiniFS`; `MiniFSStore` shows that it implements `InodeStore` | `MiniFSChains`, `MiniFSProofs`, `MiniFSStoreProofs` |
| MiniFS disk image: table writes | `MiniFSCrash`, on top of `MiniFS` | `MiniFSCrashProofs` |
| MiniFS disk image: format and open; block I/O | `MiniFSImage` | `MiniFSImageProofs` |
| Line tokenizer, and the one of the device | `Tokens` | `TokensProofs` |
| Contact system calls | `ContactSyscalls`, implements `ContactBook` | `ContactSyscallsProofs` |
| Contact device | `ContactDevice`, implements `ContactBook` | `ContactDeviceProofs` |

`MC` modules give the constants of a model their values for TLC.

Hard behaviour, and what makes each part correct:

* **MiniFS tables.**  Long sequences of commands that free and reuse inodes and
  blocks; counters kept beside the tables; failure half way (`exit(-1)` when an
  append finds no block); a block full to the last byte.  Correct: counters are
  exact, chains are private and finite and cover the used blocks, a file keeps
  its bytes in order, refusals are honest.
* **MiniFS directories.**  Entries are never taken out, only their byte `used` is
  cleared, names are not unique, inode numbers are reused, `parent` is never
  updated.  Correct: the current directory is a directory, `..` leads to the
  root, the arrays of `minifs_read_dir` are not overrun, a new name leads to the
  new inode.
* **Disk image.**  A crash between two writes of the tables or of the format.
* **Block I/O.**  Short transfers, and errors compared with an unsigned status.
* **Tokenizers.**  Blanks at both ends, empty input, bytes 0 in a request.
* **Contact stores.**  Two writers at the same cell, a reader of a cell being
  deleted or refilled, late initialisation, a shared read pointer.

## Plan

In order; done means modelled, checked, in the tables of runs below, and proved
as far as stated there.

1. `MiniFS` (commands, tables, chains), `InodeStore` (its abstract
   specification), `MiniFSStore` (the refinement), `MiniFSChains`,
   `MiniFSProofs` and `MiniFSStoreProofs` (lemmas and theorems).  **Done.**
2. `ContactBook` (an atomic table of contacts), `ContactSyscalls` and
   `ContactDevice` (one process per caller, one step per access to shared
   memory), each shown to implement `ContactBook` where its callers allow it, and
   a run of the device in which they do anything.  **Done**,
   proofs of both refinements included.
3. `MiniFSCrash`: the writes of `minifs_update_superblock` as single steps with a
   kill between any two, composed with the commands and the reopening of the
   file; which of the table invariants survive.  **Done.**
4. `MiniFSImage`: `minifs_read_block` and `minifs_write_block` with short
   transfers and errors, under `check_exists`, `minifs_init` and `minifs_open`
   with kills and starts, counters modulo 2^w, liveness.  **Done.**
5. `Tokens`: `split_line` and `split_request` against a definition of the words
   of a line, over all short lines.  **Done.**
6. Proofs.  **Done** for the tables, the tree of directories, the refinement of
   `InodeStore`, the killed updates, both contact stores, the format and the
   tokenizers.  Left to TLC: liveness.

## MiniFS

### Modules

* `InodeStore`: the promise. Every live inode has a kind and one sequence of
  cells; an inode is made together with an entry for it, text is added at an end,
  inodes are dropped with what they hold; a cell already written changes in one
  way only, its byte `used` is cleared.  Which of these bytes rm and rmdir clear is
  left open: the code clears more than its entries (`execute.c:302`).
* `MiniFS`: the code. One action per command of `execute.c`, with the functions
  of `fs.c` it calls, from the check of its argument to
  `minifs_update_superblock`.
* `MiniFSStore`: the mapping. `Contents` reads a chain as `minifs_read_data`
  does, a block and then the rest, and `ImplementsInodeStore` says that under it MiniFS is an `InodeStore`.
* `MCMiniFS`: constants for TLC.
* `MiniFSChains`, `MiniFSProofs`: lemmas about chains and counting (also behind
  `MiniFSCrashProofs`), the inductive invariant, the theorems.
* `MiniFSStoreProofs`: chains as sequences of cells, and the refinement.

### State and actions against the code

| TLA+ | C |
|---|---|
| `inode_map`, `block_map` | `sblock.inode_map`, `sblock.block_map` (`fs.h:30-50`) |
| `block_map[b].cells` | the first `size` bytes of body `b`, in units of 32 bytes |
| `used_inode_count`, `used_block_count` | the same fields of `SuperBlock`; neither counts the root |
| `current_dir` | `Filesystem.current_dir` |
| `reply` | what the last command printed, or that the process has gone |
| `Walk(bm, b, low)` | blocks met by `while (current_block >= low)`; the loops that free use `> 0`, those that read `>= 0` |
| `Slots`, `Precedes`, `Index` | the order in which `minifs_read_dir` numbers entries |
| `Appended`, `NewBlocks`, `BlocksNeeded` | `minifs_append_data` |
| `ClearUsed`, `RemovedCells`, `Hops`, `WildRemove` | `minifs_remove_from_dir` |
| `Mkdir`, `Touch` / `Rmdir`, `Rm` / `Write`, `Read`, `Ls`, `Cd` | the functions `minifs_*` of `execute.c` |
| `Open`, `Exit`, `EndOfInput` | `minifs_open`, `minifs_exit`, `readline` returning NULL |

**Cells.**  A directory entry is appended as three writes, 1 + 27 + 4 bytes, and
a block of 1024 bytes holds exactly 32 of them, so entries never straddle blocks.
The unit of length is therefore the entry.  Text is written in the same unit: a
file may hold any number of cells, and every case of `minifs_append_data` (room
left, last block exactly full, several new blocks) occurs.  Lengths of text that
are no multiple of 32 are left out.

**Disk and memory.**  A command that changes a table ends in
`minifs_update_superblock`, so between commands memory and disk agree and a
command that dies before it leaves the old tables: `Die(bm)` keeps the tables and
takes the bodies written so far, `bm`.  Bytes beyond a block's size are never
read before they are written, so a body written by a command that died is
invisible, except for entries whose byte `used` it cleared.  A process that is
killed inside `minifs_update_superblock` is the subject of `MiniFSCrash`, and
`DiskIsMemory` there is the proof of the first sentence.

**Undefined behaviour.**  What the C standard leaves open is a choice:
`strlen(input)` after `free(input)` gives any member of `FreedLengths` or the old
length; a command that overruns the arrays of `minifs_read_dir` or the buffer of
`minifs_read` may die or may go on; indexing a table with the bytes of a text ends
the process.

**Bounds.**  `InodeCount`, `BlockCount` and `BlockCells` are 1024, 1024 and 32 in
the code and 3 or 4, 3 or 4 and 2 for TLC.  `MaxFileSize` bounds the one
counter that can grow for ever, the size of a file (`strlen` of a freed buffer
adds to it without adding a cell).  `OnlyLeafRmdir` is a restriction of the user,
used where the property is false without it: `rmdir` of a directory that still
is a live directory's parent is not typed.

### Runs

| Run | Instance | What it shows |
|---|---|---|
| `any_user` | 3 inodes, 3 blocks of 2 cells, 2 short names, one that is cut and one too long, texts of 0 and 3 cells | types, exact counters, private chains, honest refusals, and the refinement of `InodeStore`, whatever is typed |
| `leaf_rmdir` | 4 inodes, 4 blocks of 2 cells, one name, texts of 2, 3 and 5 cells, leaf `rmdir` only | no cell of a text is lost or kept twice, nor a chain shared, also when one append takes two new blocks (`TextIsWhole`, `Ownership`); the tree: current directory, `..`, the arrays of `minifs_read_dir`; a new name leads to the new inode, among duplicates and stale entries |
| `rm_hides` | 3 inodes, 4 blocks | a disagreement, see below |

Three inodes are the fewest with a parent, a child and a sibling or grandchild;
an inode is freed and its number reused in a different directory under a
different type.  Three blocks of two cells let a directory fill its first block
and grow a second one, in an order on the disk that differs from the order in the
chain, and let every append fail for want of blocks.  A write needs a file with a block of its own beside the
root's, so an append that takes two new blocks at once needs four blocks: these
are in `leaf_rmdir`, whose texts begin in an empty, a half full and a full block
and end in a full or a half full one.  There `FreedLengths` is empty, so that the
size of a file is what was written to it; in `any_user` it is not.  Instances with
one cell per block or a fifth block take longer than a routine run should; what
they would add is covered by the proofs, which hold for all sizes.

No liveness is stated for MiniFS: the program is one loop that waits for a
person, each command is a terminating sequence (finite chains are `Ownership`),
and nothing in the code promises that a person types.  Its specification is
`Init /\ [][Next]_vars`, without fairness.

### Disagreements between code and documentation

* `rm_hides`, a run with one property that TLC refutes: rm passes an inode number
  where an index is expected (`execute.c:302`) and hides another file of the
  directory from ls.

The model shows more without a run of their own.  The size of a file grows by
`strlen` of a freed buffer (`execute.c:352`).  Rmdir does not look for children,
and `cd ..` from a child then makes something that is no directory the current
one (hence `OnlyLeafRmdir`).  Rm and rmdir never lower the size of a directory,
which `fs.h:42` calls its count of objects (`ReadDirInBounds` even needs it so).
Lookups ignore the byte `used`, so a removed name finds the next file that gets
its inode, and ls does not list it.  A name of 27 characters is accepted, 26 are
kept, and it is not found again (`Stored`).

### Proofs

`MiniFSProofs` proves for all `InodeCount`, `BlockCount`, `BlockCells`, names,
texts and for a user who types anything (`OnlyLeafRmdir` either way), from
`SizesAssumption` and `InputAssumption` alone:

* `Typing`: `Spec => []TypeOK`; in particular neither unsigned counter wraps.
* `ExactCounters`: `Spec => []Accounting`.
* `PrivateChains`: `Spec => []Ownership`.
* `HonestRefusals`: `Spec => []RefusedOnlyWhenFull`.

They follow from one inductive invariant, `IInv` (`Invariance`).  `Ownership` is
not inductive: it speaks of sets of blocks reached from an inode, and an append
or a free changes `next_block` of single blocks.  `IInv` says it locally
(`WellLinked`): live inodes start at different used blocks (`Roots`); no two used
blocks have the same successor, a first block is nobody's successor, and block 0
is nobody's successor (`Successors`); every used block is reached and every chain
has a last block (`Covered`).  That block 0 is no successor is what makes the
loops `while (current_block > 0)` of rm and rmdir free a whole chain.

The lemmas in `MiniFSChains` treat a chain as a least closed set of blocks, so
that no induction over chains is needed: something is in the chain when it is in
every closed set, and is not when some closed set leaves it out (`WalkHolds`,
`WalkLeast`, `WalkEnters`).  From there two chains are disjoint
(`WalksDisjoint`), and the three changes, `MakeKeepsLinks`, `AppendKeepsLinks`
and `FreeKeepsLinks`, keep `WellLinked`; `MakeConsistent`, `AppendConsistent` and
`FreeConsistent` add the counting.  `MiniFSProofs` has one lemma per command.

What directories promise holds for a user who removes no directory with
directories in it (`ASSUME OnlyLeafRmdir`, the instance of `leaf_rmdir`):

* `CurrentDirStands`: `Spec => []CurrentDirIsDirectory`.
* `DotDotLeadsUp`: `Spec => []DotDotReachesRoot`.
* `ReadDirFits`: `Spec => []ReadDirInBounds`.
* `NewNameIsFound`: `Spec => CreatedIsFound`.

The invariant is `TInv` (`TreeStandsAlways`): `IInv`, a current directory that is
one, `Tree` (parents are directories, and a set of directories closed under
`parent` holds the root) and `Listed` (a directory holds exactly `size` entries,
each an inode number other than its own).  The first three are not inductive
without `Listed`: only because `.` and `..` are no entries, and no entry names its
own directory, can rmdir not free the directory the user is in.  The lemmas on
entries in `MiniFSChains` say what an append does to them: entries of other
directories stay (`AppendSpares`), the directory gets one more (`EntryAppended`),
and it stands behind all others in the order of the chain (`EntryComesLast`),
which is why the last match of a lookup is the inode just made.

`MiniFSStoreProofs` proves, for any user again,

* `StoreImplemented`: `Spec => ImplementsInodeStore`.

Sets of blocks do not suffice here: `Contents` is recursive along a chain, and
the order of the cells matters.  `FromTheEnd` is the induction that is needed,
with a set of blocks in the place of a predicate: a set that holds the last block
of a chain, and every block of the chain whose successor it holds, holds the
whole chain.  (Its proof is `WalkLeast` again: `RestEnds` shows that from every
block of a chain that ends, the end is reached.)  With it `CanCollect` and
`CollectedOnce` show that the recursion has exactly one solution, `ContentsStep`
that it is read block by block, and `ContentsFrame` that it depends on the blocks
of its chain alone, so that a command leaves every other inode's cells alone
(`WalksDisjoint`).

The two things a command does to a chain are then inductions of the same kind.
`AppendExtends`: an append that fits (`CeilingEnough`, `BlocksSuffice`) adds the
new cells behind the old ones and loses none.  `NewBlockHolds` reads the new
blocks from the last one backwards, `OldBlockHolds` goes on through the old ones.
`ContentsFaint`: clearing `used` anywhere, by `minifs_remove_from_dir` or by one
of its stray writes (`WildRemove`), changes nothing else.  Every command is one
step of `InodeStore` or none: `DropRefines`, `MakeRefines` and `ExtendRefines`
build them, one lemma per command (`RmRefines`, `CreateRefines`, `WriteRefines`
and so on) shows which, a command that dies after its first append included.

Every property that `any_user` and `leaf_rmdir` check is thus proved.
`TextIsWhole` compares the cells of a file with its size and is
left to TLC; `AppendExtends` is the part of it that is about the chains.

## MiniFSCrash

What a kill inside `minifs_update_superblock` leaves.  The commands are those of
`MiniFS`; one that changes a table goes on to write the records of the file one
by one, superblock, inodes, heads of blocks, each a `minifs_write_block`, and
`Kill` may come before any of them.  `minifs_open` reads what is there.

| TLA+ | C |
|---|---|
| `image` | the file in records; a head stands with the cells below its size |
| `Record(k)`, `InodeOffset`, `HeadOffset`, `WriteRecord` | the order and the places in `minifs_update_superblock` |
| `OpenedCounters`, `OpenedInodes`, `OpenedBlocks` | the places `minifs_open` reads |
| `Quiet` | commands that write nothing, start and end of the program |
| `Makes`, `Fills`, `Drops` | mkdir and touch, write, rm and rmdir up to `minifs_update_superblock` |
| `Cleared` | the bytes `used` that both calls of `minifs_remove_from_dir` clear |
| `Again`, `Strikes`, `Under`, `stray` | the second call (`execute.c:302`), when it leaves the directory with `next_block` = -1: the heads its byte falls on, until they are written |
| `Struck` | such a head as `minifs_open` would read it: the lowest byte of a field is 0 |
| `doing`, `target`, `torn` | no code: what is being written, the inodes it is about, whether a kill has left an image that commands would misread |

Bodies are written before the tables, where no head on the disk reaches yet;
bytes `used` are cleared in place, so `Drops` changes the image at once
(`Cleared`).

**Strays.**  `minifs_rm` calls `minifs_remove_from_dir` again with an inode number
for an index.  In a directory that is just as many blocks long as the loop skips,
the block it ends at is -1, whose body would begin 1024 bytes before block 0's: in
the table of heads, in the head of another block.  The byte falls on the lowest
byte of one of its three fields.  `Under` says for each cell of block -1 which head
and field lie there: in the code heads 938 to 1023, the fields in turn.
`LowBlocks` (256) and `LowCells` (8) say what a field keeps when its lowest byte is
0: `next_block` the multiple of 256 below it, `size` the multiple of 256 bytes
below it; a type becomes EMPTY, a `next_block` below 0 stays below 0.  The
theorems hold for any `Under`, so for tables of any size and any place.  The
damage lasts until `minifs_update_superblock`, which follows at once, comes to
that head; a kill before it leaves it.

| Run | Instance | What it shows |
|---|---|---|
| `killed` | 3 inodes, 3 blocks of 2 cells, one name, texts of 0, 1 and 3 cells | the disk is what the memory is between commands; the chains of rm and rmdir are all or nothing; a command harms no inode it is not about; counters never say more than is in use |
| `struck` | 4 inodes, 4 blocks of 2 cells, directories of one entry; a stray byte falls on the type of head 2 | the first three of these when a head is struck, and also damaged: it is put right, and until it is the damage is that head |
| `wrapped_counter` | as `killed` | a disagreement: rm killed after the superblock, a start, rm again, and the counter is below 0: no file can be made any more, although the table is almost empty |

Seven records per update and kills between any two; one name is enough for a
parent, a directory and a file of the same name.  A stray byte needs an inode
number of at least the cells of a block, in a directory of that many blocks, and
a head that is in use to damage: four of each in `struck`, where `MaxEntries`, the
bound on the entries of a directory, keeps the run short.  A counter below 0
stands for the unsigned value it wraps to, and `MaxWrap` bounds how far below 0 it may be
when the process is killed: each time round takes it down by one more.  After a
killed mkdir, touch or write (`torn`) a live inode may start at a block that is
free, and the next file takes that block too; after a kill while a head is damaged
(`torn` too) a chain may lead into a free block or end early.  `OthersSurvive` shows
that the damage is confined to the inode that was being made or filled, or to the
block whose head was struck, and only starting and leaving the program is modelled
from there.  `DropIsAtomic` and `CountersNeverOver` therefore leave out images torn
in this way.  And `DropIsAtomic` is about chains only: a killed rm may leave the
entry hidden and the file where it was, or a counter that is too low.  Writes
reach the file in the order they are made: it is the process that dies, not the
machine.

`MiniFSCrashProofs` proves all four properties for all sizes of the tables and
any number of kills:

* `FileIsMemory`: `CrashSpec => []DiskIsMemory`.
* `RemovalIsAtomic`: `CrashSpec => []DropIsAtomic`.
* `OtherInodesSurvive`: `CrashSpec => []OthersSurvive`.
* `CountersStayBelow`: `CrashSpec => []CountersNeverOver`.

They assume `CrashAssumption`, which leaves open where stray bytes fall and what a
byte holds.

For the first the invariant is `DInv`: `Tables` says that the tables and the image
are functions on their places, and `Synced` that the records written so far are
those of the memory, all of them when no update is under way, and `Pending` that a
struck head is one that is still to be written.

The others rest on `KInv` (`KilledInvariance`), and what is hard there is that a
killed removal leaks blocks: they stay in use, belong to nobody, and may point
anywhere, even into chains.  So `WellLinked`, on which the proofs about `MiniFS`
rest, does not hold.  `Sound(im, bm)` says that it holds of some other block table
`vb`, in which leaked blocks count as free and which agrees with `bm` on the
rest.  Chains never leave what is in use in `vb` (`GhostWalks`), so the lemmas
of `MiniFSChains` apply to `vb`, and what they say carries over to `bm`
(`SoundChains`, `SoundMake`, `SoundAppend`, `SoundFree`); blocks outside every
chain may be anything (`SoundElsewhere`), which is how the records of a freed
chain may reach the file one by one.  `KInv` says that the memory is `Sound`, and
so is the file, read without the stray bytes (`Heads`), unless a mkdir, touch or
write is being written; that the counters are covered by what is in use, in both; and that during a removal the
file has every inode and block the memory has.  The heads as they are read,
strays included, differ from `Heads` at struck heads only (`NotStruck`), and not at
all where the byte has changed nothing.  Once `torn`, only `DInv` and the first
half of `OthersSurvive` are left.

## MiniFSImage

How the program comes up: `main` asks `check_exists`, formats with `minifs_init`
if there is no file, and reads it with `minifs_open`.

| TLA+ | C |
|---|---|
| `file`, `length`, `place` | the file and its descriptor |
| `Exists`, `blind`, `Start` | `check_exists` and the choice in `main.c`; `blind`: `stat` has returned -1 in this start, for whatever reason |
| `Begin`, `"denied"` | the `open` of `minifs_init` and `minifs_open`; it may fail, and the process exits |
| `part`, `count`, `Left`, `WriteSome`, `ReadSome` | the loops of `minifs_write_block` and `minifs_read_block`; n bytes are what `write` or `read` returns |
| `EndOfFile` | `read` returns 0, and the process exits |
| `Error` | `read` or `write` returns -1: `status <= 0` is not true of a `uint32_t`, and it is added to the count, modulo `Wrap` |
| `GoOn`, `Offset`, `Finish` | the next call, and the `lseek` it begins with |
| `Edit(n)`, `Kill` | any command that changes a table, whose writing back may be cut after byte n; the end of the process |
| `edited`, `mixed` | no code: a command has changed the image; such an image has been formatted over and not to the end |

A byte is the number of the byte of a formatted image that it is, so a byte at
the wrong place shows.  What the tables mean is `MiniFS` and `MiniFSCrash`.

| Run | Instance | What it shows |
|---|---|---|
| `image` | parts of 2, 3 and 3 bytes, `Wrap` 16, one error; fairness | commands are taken from whole images only; a start that can open the file fails only on an image that was never finished; an image in use is formatted again only by a start whose `stat` failed (`OnlyBlindFormatsAgain`); every start ends |
| `io_error` | the same | a disagreement: a failed read goes unnoticed and the tables are used half read |

Three bytes are split in all ways by short transfers, and the first part differs
in size from the others; `Wrap` only has to exceed the sizes.  Fairness is weak
fairness of the loops: `read` and `write` of a regular file return, with at least
one byte unless the file has ended or they fail.  `Kill` and `Error` are not fair, and
nobody is assumed to start the program.

`stat` may fail for a file that is there (`fs.c:15`), and `check_exists` then
answers like for none: `main` formats an image in use.  No run calls this wrong, as
no line of the repository says what should happen, but `OnlyBlindFormatsAgain`
says that it is the one way.  Killed on it, the file is part new, part old, every
byte at its place: `ReadyIsWhole` leaves such images out (`mixed`).

`MiniFSImageProofs` proves for all sizes `OnlyWholeImages` (`ReadyIsWhole`),
`OnlyTornFail` (`FailsOnlyOnTorn`) and, with any failures, `FormattedOnce`
(`OnlyBlindFormatsAgain`), which rests on `EditedIsSeen`: an image a command has
changed has room for a superblock, and while it is being formatted `stat` has
failed.  The invariant (`ImageInvariance`): while no read or
write has failed, the file is a beginning of the image, `place` is `Offset(part) + count`,
and what has been read so far is right.  With failures only ranges are left
(`ImageTyped`, `TypeOK`): each puts the count one behind the offset, or ends the
loop.

`StartsAreBounded` is the measure behind `EveryStartEnds`: `StepsLeft` counts the
bytes of the parts still to be moved and the ends of the parts, every step of the
loops lowers it, a failure adds at most one, and it never exceeds
`2 * (ImageSize + 3)`.  The property itself is only model-checked.

## Contact stores

`ContactBook` is what both promise: a table of contacts that changes in one step,
by an add that takes the lowest free cell or a delete that empties the lowest
cell with the surname.

### Atomicity

Neither store takes a lock.  In both models one action is one access to shared
memory: the test of a status, the write of a status, one field of a cell (system
calls) or one string of it (device), the flag `initialized`, the load or the
store of `++open_counter`, the text of an answer, the pointer to it.  What a
caller does on its own memory is part of the next access.  Accesses take effect
in the order of the code.  A compiler or a processor that reorders them (the
fields are plain variables) allows more behaviours than are modelled.  Two
writers mix fields of one cell in the model as they would mix bytes.

### ContactSyscalls

| TLA+ | C |
|---|---|
| `users[i]`, `status[i]`, `initialized` | the variables of `contact_storage/storage.c`; a field holds the contact it was copied from, `status` is 0 at boot |
| `Check`, `Wipe` | the first lines of each call |
| `Enter` | length check, `kmalloc`, `copy_from_user`: they succeed, or the call fails, or the caller dies |
| `Scan`, `Match` | the two halves of the conditions in the search loops |
| `Fill`, `Take` | `add_user_note`, `copy_string` |
| `Out` | the four `copy_to_user` of `get_user`, in their order (email before phone) |
| `Drop` | `delete_user_note` |
| `calm` | no code: for each thread, whether no cell has been freed since its call began |

| Run | Instance | What it shows |
|---|---|---|
| `one_writer` | 2 cells, 3 contacts (two namesakes, one too long), from boot; one thread adds them and deletes one of the two surnames, one looks up; fairness | implements `ContactBook`, the wiping at the first call included; acknowledged contacts are stored; refusals are true; a lookup during which nothing is freed answers with one whole contact; a stored surname that nobody deletes is found, and the lookup ends |

`Calls` says which calls a thread makes, and with `BootAlone` no second call
begins while the first one still frees the cells; both restrict the users, not
the code: with two writers two adds fill one cell, and a call that has seen
`initialized == 0` may free the cells after another one has stored a contact.
One writer and one reader are the fewest with a race between a scan and a
change, two cells the fewest in which a scan can pass a cell that changes behind
it.  `AnswerIsWhole` promises a whole answer to calm lookups only: `get_user` copies a
cell out after its search, when it may hold somebody else, or half of them.
What several writers or a late first call do to each other (`storage.c` promises
nothing about it) is excluded, not checked.

Fairness: weak fairness of the steps of each thread that is inside a call.  The
loops are finite and wait for nothing, and the kernel schedules every thread
that can run.  No thread is assumed to make a call.

#### Proofs

`ContactSyscallsProofs` proves for all `Thread`, `UserCount`, contacts, surnames,
and for any set `TooLong`:

* `CallsTyped`: `Spec => []TypeOK`, whoever calls whatever, without assumption.
* `RefusalsAreTrue`, `CalmAnswersAreWhole`, `CallsImplementBook`: the properties
  `RefusalIsTrue`, `AnswerIsWhole` and `ImplementsContactBook`, when one thread `w` makes all the calls that change
  the table (`OnlyWriter(w)`, which includes `BootAlone`); any number of threads look up.
  Under the same condition `AddedIsStored` is a lemma (`AddsAreStored`).

The invariants build on each other.  `Basic` is the typing with the ranges of the
loop variables at each program counter.  `Boot`: a thread that is still wiping is
the only one inside a call, so no cell is freed late.  `Kempt(w)` speaks of the
writer alone: taken cells hold one contact each in all their fields, and what the
writer has scanned is what it remembers of it, since nobody else writes.
`Reading(t)` is about a reader: as long as the call is calm, the cell it has
found stays taken and the fields copied out are those of the cell.  The
refinement maps a cell to its contact when its status is set; all steps but
`Take`, `Drop` stutter, because a cell that is being filled is not taken.

`StoredIsFound` itself stays with TLC; what it rests on is proved.
`CallsAreBounded`, for any threads that call anything: every step of a thread
lowers its `StepsLeft`, at most three steps a cell and nine, and no step of
another thread changes it, so that the loops over a table that others change
meanwhile still end.  `LookupsNeverMiss`, with one writer: a surname in `Kept`
that is stored when `get_user` is called is ahead of the loop variable until it
is found (`InSight`), because the writer fills only free cells (`There`) and frees
only the cell it was told to, and `initialized` is set as soon as a cell is taken
(`Boot`), so that the call of the reader does not wipe the table.

### ContactDevice

| TLA+ | C |
|---|---|
| `users[i]`, `status[i]` | cells of `01-kernel_module/storage.c`; a cell holds addresses |
| `heap` | the strings `copy_string` has allocated and nobody has freed |
| `open_counter`, `output_data`, `output_ptr` | the variables of the same name; an answer is a sequence of pieces |
| `Open`, `Test`, `Load`, `Store` / `Close`, `Load`, `Store` | `device_open`, `device_release`; `loaded` is the register of `++` and `--` |
| `Write`, `Invalid` | `device_write` up to the choice of the request, or its `-EINVAL` |
| `Scan`, `Match`, `Fill`, `Take` / `Format` / `Free`, `Drop` | `add_user_note` / `get_user_note` / `delete_user_note` |
| `Say`, `Point` | `set_message` |
| `Read`, `ReadRest`, `ReadNull` | a round of `device_read`; with `output_ptr` past a shorter text; with `output_ptr` NULL |
| `UseAfterFree` | `strcmp`, `sprintf` or `kfree` of a freed string; nothing is modelled after it |
| `Reload` | `storage_exit` and the next `storage_init`, when no process is inside a call |
| `UsesModule`, `RmmodInside` | `try_module_get` comes after the test of `open_counter` and `module_put` before its decrement, so `rmmod` may take the code away from a process in between |

| Run | Instance | What it shows |
|---|---|---|
| `polite` | 2 processes, never both inside open or close; 2 cells of 2 strings, 3 contacts | one holder at a time, no leak, no double free, own answers, implements `ContactBook` |
| `crowd` | 2 processes in every interleaving; 1 cell of 2 strings | a taken cell has all its strings |

`OneAtATime` is the assumption on the users under which the test of `open_counter`
does exclude: `device_open` calls that do not overlap each other or a
`device_release`, and no `rmmod` during either.  No lock gives it, so what `polite`
and the theorems below say is about such users; it does not speak of the race on
`open_counter`.  Without it two processes may both pass the test, and `crowd`
reaches what follows: two adds into one cell, both told OK, strings freed twice
or read after they are freed, a process whose code is gone.  Two strings stand for the five of the code: the first and the
last of a sequence of allocations, of frees and of formats, with a state between
them.  `Addr` has as many addresses as the cells have strings (one more in
`crowd`, where strings leak): `kmalloc` does not fail while one is free, its
failure is left out.  `MaxDrift` bounds how far lost increments take
`open_counter` below 0, `MaxRead` how much a process reads without writing.  In
`crowd` the processes may use up the addresses or reach a fault and stop: it is
checked without the check for deadlock.

#### Proofs

For all `Process`, `UserCount`, `Addr`, `FieldOrder`, contacts and surnames,
`ContactDeviceProofs` proves

* `NoMissingString`: `Spec => []TakenCellsHaveStrings`, in every interleaving and
  without any assumption on the users;
* `NoFreedString`, `NothingLeaks`, `AnswersAreOwn`, `DeviceTyped`,
  `DeviceImplementsBook`: the properties `NoWildAccess`, `StringsOwned`,
  `AnswerIsOwn`, `TypeOK` and `ImplementsContactBook`, under `OneAtATime`
  (`DeviceTyped` also for finitely many processes, as it counts them).  That there
  is one holder, `OpenedOnce`, is a lemma on the way (`OneHolder`).

`Basic` is the typing, with the range of the string in hand at each program
counter, and `Strings` the addresses of taken and half filled cells.
`Exclusive`: at most one process is between a successful test of
`open_counter` and the store that undoes it, and the counter says whether one
is.  From there everything inside a request is sequential, and `Owned` can count
the strings: an allocated one belongs to a taken cell, or to the cell the one
request under way fills or frees, at one place only (`AllocatedOnce`), and the
statuses fit (`StatusFits`).  `Truthful` says what the strings are: those of one
contact in a cell that is `Whole`, the contact of the request up to the string
in hand in the cell it fills; and that the cells a scan has passed, or copied to
the answer, are as it found them.  The refinement follows: the book changes in
`Take`, and in the `Match` of a delete, the two steps that decide.  `Answering` follows an answer
from the strings through `output_data` to the reader, and that `output_ptr` goes
back to the start with each text.

### What concurrent callers get

No line of the repository says what concurrent callers may expect, so no run calls
these wrong: two `add_user` calls at once fill one cell and both return 0; a
call that has seen `initialized == 0` frees the cells after another one has
stored a contact; `cat` after `echo 'get ...'` prints the answer to a request
another process has made in between, since the answer outlives the open; `cat
/dev/storage` before any request follows a NULL pointer (`ReadNull`).

## Tokens

`split_line` (`utils.c`) and `split_request` (the device) do the same: one pass
counts the words, an array of that many tokens is allocated, a second pass cuts
them.  The two passes use different conditions, and the second one has two loops
more in `split_request`.

| TLA+ | C |
|---|---|
| `Counted`, `Split` | the first pass and the allocation |
| `SkipBlank`, `BeginToken`, `InToken`, `EndToken` | the loops of the second pass; `at` is the pointer |
| `GiveUp` | `split_request` at a byte 0 before the last word |
| `EndTrailing` | the last loop of `split_request` |
| `Release` | `free_lines`; the two `kfree` of `device_write` |

A character is a letter, a blank or a byte 0; `split_line` never meets the last,
its line comes from `readline`.  `Words` is the definition the tokens are
compared with: maximal runs of letters.

Run `tokens`: every line of up to `MaxLength` = 7 characters, through both
functions.  Seven are enough for a blank at both ends, two in a row, and three
words, which are the shapes of the lines `utils-test.c` uses.  The tokens are the
words in their order, all that are counted are set, the pointer stays in the
buffer, and every line is finished, under weak fairness of the step of a
function, which waits for nothing.

`TokensProofs` proves `PointerInside` (`TypeOK`), `PassesAgree`
(`CountedAreSet`) and `WordsAreCut` (`TokensAreWords`) for lines of any length.
The invariant (`TokensInvariance`) counts what is ahead: the ends of words behind
the pointer, `Ahead`, are as many as the tokens still to be set.  `CInv` adds
what has been cut: the tokens are the words that begin before the pointer
(`CutSoFar`), the pointer never passes a byte 0 of the line (`CleanBehind`), and
the counts agree until it meets one (`EndsAhead`), so that no word before it is
left out; `split_request` has put a terminator behind each token that ended at a
blank (`Blanked`).  `SplitIsLinear` is the measure behind `EverySplitEnds`: every
step lowers `StepsLeft`, which is at most three steps a character and three.  The
property itself stays with TLC.

A byte 0 inside a request is the one case in which fewer tokens are set than are
counted; `device_write` then follows the others, which nobody has set.
`CountedAreSet` excludes it in its premise.

## Not modelled

* In the contact stores: failure of `kmalloc` in the device (a writer that is
  killed leaves the cell free and loses the strings); reordering of accesses by
  the compiler or the processor; a file of the device shared by several threads
  or inherited by a child.
* In MiniFS: texts whose length is no multiple of 32; writes that reach the disk
  out of order when the machine, not the process, stops; commands that are typed
  at an image torn by a killed mkdir, touch or write.
* `debug.c`, messages and formatting: no state, and no property depends on them.
* The Linux files the patch carries along (`syscalls.h`, 1431 lines, three of
  them added, and the system call tables) and the build scripts: no state.

Only model-checked, as the prover treats neither fairness nor ENABLED: the
liveness properties `StoredIsFound`, `EveryStartEnds` and `EverySplitEnds`.  What
is proved for them is that every step of the loops lowers a bounded number
(`CallsAreBounded`, `StartsAreBounded`, `SplitIsLinear`); that a step can be
taken, and is, is what TLC adds.  `TextIsWhole` is model-checked only as well.
Every other property of a passing run is proved, `AddedIsStored` and `OpenedOnce`
as lemmas.
