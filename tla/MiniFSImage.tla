----------------------------- MODULE MiniFSImage -----------------------------
(***************************************************************************)
(* How MiniFS comes up: main asks check_exists for the file, formats it    *)
(* with minifs_init when it is not there, and reads it with minifs_open.   *)
(* Both move the superblock, the inode table and the block table, through  *)
(* the loops of minifs_write_block and minifs_read_block, which retry what *)
(* write and read leave over.  The process may be killed at any moment and *)
(* started again.                                                          *)
(*                                                                         *)
(* Bytes are counted, not interpreted: byte p of the file, and of what has *)
(* been read into memory, is the number of the byte of a formatted image   *)
(* that it is, 0 when it is none.  In an image that is right, it is p.     *)
(***************************************************************************)
EXTENDS Integers

CONSTANTS
  SuperSize, InodesSize, BlocksSize,   \* bytes of the three parts
  Wrap,                                \* 2^32, for the counts of bytes
  MaxErrors                            \* bound on failures of read and write

Parts == {"superblock", "inodes", "blocks"}
Size == [part \in Parts |->
  IF part = "superblock" THEN SuperSize ELSE IF part = "inodes" THEN InodesSize ELSE BlocksSize]

(* Bug: the inode table is added up twice.                                 *)
OffsetTwice(part) ==
  IF part = "superblock" THEN 0
  ELSE IF part = "inodes" THEN SuperSize ELSE SuperSize + 2 * InodesSize

(* Where minifs_init writes each part and minifs_open looks for it.        *)
Offset(part) ==
  IF part = "superblock" THEN 0
  ELSE IF part = "inodes" THEN SuperSize ELSE SuperSize + InodesSize

ImageSize == SuperSize + InodesSize + BlocksSize
Byte == 1 .. ImageSize

ASSUME ImageAssumption ==
  /\ SuperSize \in Nat \ {0} /\ InodesSize \in Nat \ {0} /\ BlocksSize \in Nat \ {0}
  /\ Wrap \in Nat /\ Wrap > ImageSize + 1
  /\ MaxErrors \in Nat

VARIABLES
  file, length,  \* the file on the host; length 0 also when there is none
  edited,        \* some command has changed the image since it was formatted
  mixed,         \* history: it was then formatted over, and not to the end
  memory,        \* what minifs_open has read
  pc,            \* "down", "writing" and "reading" the image, "ready" for
                 \* commands, "failed": exit(-1) in a loop, or "denied":
                 \* exit(-1) because open failed
  blind,         \* stat has failed in this start
  part,          \* the part on its way
  count,         \* write_size or read_size, a uint32_t
  place,         \* the offset of the file descriptor
  errors

disk == <<file, length, edited, mixed>>
loop == <<part, count, place>>
vars == <<disk, memory, pc, blind, loop, errors>>

Nothing == [p \in Byte |-> 0]
Right(bytes, last) == \A p \in 1 .. last : bytes[p] = p

Init ==
  /\ file = Nothing /\ length = 0 /\ edited = FALSE /\ mixed = FALSE
  /\ memory = Nothing
  /\ pc = "down" /\ blind = FALSE
  /\ part = "superblock" /\ count = 0 /\ place = 0
  /\ errors = 0

-----------------------------------------------------------------------------
(* minifs_init or minifs_open begins with open, and exits when it fails.   *)
Begin(what) ==
  \/ pc' = what /\ part' = "superblock" /\ count' = 0 /\ place' = 0
  \/ pc' = "denied" /\ UNCHANGED loop

(* Bug: a file without blocks of its own is taken for none.                *)
ExistsWhenGrown(statFails) == ~ statFails /\ length > ImageSize

(* check_exists: a file with room for a superblock; when stat fails, for   *)
(* whatever reason, the file is taken for none.                            *)
Exists(statFails) == ~ statFails /\ length >= SuperSize

Start ==
  /\ pc \in {"down", "failed", "denied"}
  /\ blind' \in BOOLEAN
  /\ Begin(IF Exists(blind') THEN "reading" ELSE "writing")
  /\ memory' = Nothing
  /\ UNCHANGED <<disk, errors>>

(* The process is killed, or the user leaves it.                           *)
Kill ==
  /\ pc \in {"writing", "reading", "ready"}
  /\ pc' = "down"
  /\ UNCHANGED <<disk, memory, blind, loop, errors>>

(* A command changes the tables, in memory and on the disk: it writes them *)
(* back up to byte n, the superblock first.                                *)
Edit(n) ==
  /\ pc = "ready"
  /\ file' = [p \in Byte |-> IF p <= n THEN memory[p] ELSE file[p]]
  /\ length' = IF n > length THEN n ELSE length
  /\ edited' = TRUE
  /\ UNCHANGED <<mixed, memory, pc, blind, loop, errors>>

Left == count < Size[part]

(* write takes n bytes of the part, from `count' on.                       *)
WriteSome(n) ==
  /\ pc = "writing" /\ Left
  /\ file' = [p \in Byte |->
       IF place < p /\ p <= place + n THEN Offset(part) + count + p - place ELSE file[p]]
  /\ length' = IF place + n > length THEN place + n ELSE length
  /\ edited' = FALSE
  /\ mixed' = (mixed \/ edited)
  /\ count' = count + n
  /\ place' = place + n
  /\ UNCHANGED <<memory, pc, blind, part, errors>>

(* read finds n bytes of the file.                                         *)
ReadSome(n) ==
  /\ pc = "reading" /\ Left
  /\ place + n <= length
  /\ memory' = [p \in Byte |->
       LET q == p - Offset(part) - count + place
       IN  IF place < q /\ q <= place + n /\ q \in Byte THEN file[q] ELSE memory[p]]
  /\ count' = count + n
  /\ place' = place + n
  /\ UNCHANGED <<disk, pc, blind, part, errors>>

(* Bug: a read of nothing is tried again.                                  *)
EndOfFileRetried ==
  /\ pc = "reading" /\ Left
  /\ place >= length
  /\ UNCHANGED vars

(* read returns 0 at the end of the file, and the process exits.           *)
EndOfFile ==
  /\ pc = "reading" /\ Left
  /\ place >= length
  /\ pc' = "failed"
  /\ UNCHANGED <<disk, memory, blind, loop, errors>>

(* read or write returns -1, which is 2^32 - 1 in a uint32_t, and no error *)
(* for `status <= 0': it is added to the count.                            *)
Error ==
  /\ pc \in {"writing", "reading"} /\ Left
  /\ errors < MaxErrors
  /\ errors' = errors + 1
  /\ count' = (count + Wrap - 1) % Wrap
  /\ UNCHANGED <<disk, memory, pc, blind, part, place>>

(* Bug: the offset leaves out the table in between.                        *)
GoOnTooEarly(next) ==
  part' = next /\ count' = 0 /\ place' = SuperSize /\ UNCHANGED pc

(* Bug: lseek counts from where it is.                                     *)
GoOnFromHere(next) ==
  part' = next /\ count' = 0 /\ place' = place + Offset(next) /\ UNCHANGED pc

(* The next call of minifs_read_block or minifs_write_block.               *)
GoOn(next) ==
  part' = next /\ count' = 0 /\ place' = Offset(next) /\ UNCHANGED pc

(* The sizes of the tables come from the superblock: when that is not what *)
(* minifs_init writes, minifs_open succeeds or fails with any sizes.       *)
Finish ==
  /\ pc \in {"writing", "reading"} /\ ~ Left
  /\ \/ pc = "reading" /\ part = "superblock" /\ ~ Right(memory, SuperSize)
        /\ pc' \in {"ready", "failed"} /\ UNCHANGED loop
     \/ /\ part = "superblock"
        /\ pc = "reading" => Right(memory, SuperSize)
        /\ GoOn("inodes")
     \/ part = "inodes" /\ GoOn("blocks")
     \/ part = "blocks" /\ pc = "writing" /\ Begin("reading")
     \/ part = "blocks" /\ pc = "reading" /\ pc' = "ready" /\ UNCHANGED loop
  /\ mixed' = (mixed /\ ~ (part = "blocks" /\ pc = "writing"))
  /\ UNCHANGED <<file, length, edited, memory, blind, errors>>

Loops ==
  \/ \E n \in 1 .. Size[part] - count : WriteSome(n) \/ ReadSome(n)
  \/ EndOfFile \/ Finish

Next ==
  \/ Start \/ Kill \/ Loops \/ Error
  \/ \E n \in SuperSize .. ImageSize : Edit(n)

Spec == Init /\ [][Next]_vars

(* read and write of a regular file return, with at least one byte unless  *)
(* the file has ended or they fail.                                        *)
FairSpec == Spec /\ WF_vars(Loops)

-----------------------------------------------------------------------------
(* Properties.                                                             *)

TypeOK ==
  /\ file \in [Byte -> 0 .. ImageSize] /\ length \in 0 .. ImageSize + MaxErrors
  /\ edited \in BOOLEAN /\ mixed \in BOOLEAN /\ blind \in BOOLEAN
  /\ memory \in [Byte -> 0 .. ImageSize]
  /\ pc \in {"down", "writing", "reading", "ready", "failed", "denied"}
  /\ part \in Parts /\ count \in 0 .. Wrap - 1 /\ place \in 0 .. ImageSize + MaxErrors
  /\ errors \in 0 .. MaxErrors

(* However often formatting and opening are killed, and in however small   *)
(* pieces read and write work, a MiniFS that takes commands has read every *)
(* byte of a finished image to its place: a torn image is never used, but  *)
(* for one that stands over an older one.                                  *)
ReadyIsWhole ==
  errors = 0 /\ ~ mixed /\ pc = "ready" => length = ImageSize /\ Right(memory, ImageSize)

(* The same, when read and write may fail: the loops test their result for *)
(* an error and exit.                                                      *)
ReadyIsAlwaysWhole == pc = "ready" => Right(memory, ImageSize)

(* A start that may open the file gives up only on an image that was never *)
(* finished; on a whole one the loops never find the end of the file too   *)
(* early, also when it has been formatted over.                            *)
FailsOnlyOnTorn == errors = 0 /\ pc = "failed" => length < ImageSize

(* An image that a command has changed is formatted again only by a start  *)
(* whose stat has failed, after any kills, failed starts and failures of   *)
(* read and write.                                                         *)
OnlyBlindFormatsAgain == [][edited /\ ~ edited' => blind]_vars

(* Every start ends: the loops are never stuck, short reads and writes,    *)
(* an unfinished file and failures included.                               *)
EveryStartEnds ==
  pc \in {"writing", "reading"} ~> pc \in {"ready", "failed", "denied", "down"}
=============================================================================
