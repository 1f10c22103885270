------------------------- MODULE MiniFSImageProofs -------------------------
(***************************************************************************)
(* Theorems about MiniFSImage, for all sizes of the three parts and every  *)
(* way in which read and write split them.  While nothing has failed, the  *)
(* file is a beginning of the image, and what a transfer has moved so far  *)
(* is where it belongs.  With failures only the ranges remain, and a bound *)
(* on the steps a start takes.                                             *)
(***************************************************************************)
EXTENDS MiniFSImage, TLAPS

Typed ==
  /\ file \in [Byte -> Int] /\ memory \in [Byte -> Int]
  /\ length \in Nat /\ count \in Nat /\ place \in Nat
  /\ edited \in BOOLEAN /\ mixed \in BOOLEAN /\ blind \in BOOLEAN
  /\ pc \in {"down", "writing", "reading", "ready", "failed", "denied"}
  /\ part \in Parts
  /\ errors \in 0 .. MaxErrors

(* The file is as much of the image as has been written.                   *)
FileIsBeginning ==
  /\ length <= ImageSize
  /\ \A p \in Byte : p <= length => file[p] = p

(* A transfer has moved the bytes before `place'.                          *)
Transferring ==
  pc \in {"writing", "reading"} =>
    /\ count <= Size[part]
    /\ place = Offset(part) + count
    /\ place <= length

MemoryIsBeginning == pc = "reading" => \A p \in Byte : p <= place => memory[p] = p

WholeInUse ==
  /\ pc = "ready" => length = ImageSize /\ \A p \in Byte : memory[p] = p
  /\ pc = "failed" => length < ImageSize
  /\ edited => length = ImageSize

Good == FileIsBeginning /\ Transferring /\ MemoryIsBeginning /\ WholeInUse

IInv == Typed /\ (errors = 0 => Good)

USE DEF Parts

(* The parts lie one after the other.                                      *)
LEMMA Layout ==
  /\ ImageSize \in Nat /\ ImageSize > 0
  /\ Offset("superblock") = 0
  /\ Offset("inodes") = Size["superblock"]
  /\ Offset("blocks") = Offset("inodes") + Size["inodes"]
  /\ ImageSize = Offset("blocks") + Size["blocks"]
  /\ \A q \in Parts : Size[q] \in Nat \ {0} /\ Offset(q) \in Nat /\ Offset(q) + Size[q] <= ImageSize
  /\ Size["superblock"] = SuperSize
  BY ImageAssumption DEF ImageSize, Offset, Size

LEMMA InitHolds == Init => IInv
  <1> SUFFICES ASSUME Init PROVE IInv
    OBVIOUS
  <1>1. Typed
    <2>1. file \in [Byte -> Int] /\ memory \in [Byte -> Int]
      BY DEF Init, Nothing
    <2>2. edited \in BOOLEAN /\ mixed \in BOOLEAN /\ blind \in BOOLEAN
      BY DEF Init
    <2>3. errors \in 0 .. MaxErrors
      BY ImageAssumption DEF Init
    <2> QED
      BY <2>1, <2>2, <2>3 DEF Init, Typed
  <1>2. FileIsBeginning
    BY Layout DEF Init, FileIsBeginning, Byte
  <1>3. Transferring /\ MemoryIsBeginning /\ WholeInUse
    BY DEF Init, Transferring, MemoryIsBeginning, WholeInUse
  <1> QED
    BY <1>1, <1>2, <1>3 DEF IInv, Good

LEMMA WriteSomeHolds ==
  ASSUME IInv, NEW n \in 1 .. Size[part] - count, WriteSome(n)
  PROVE  IInv'
  <1> DEFINE end == Offset(part) + Size[part]
  <1>1. part \in Parts /\ Size[part] \in Nat /\ Offset(part) \in Nat /\ end <= ImageSize /\ ImageSize \in Nat
    BY Layout DEF IInv, Typed
  <1>2. n \in Nat /\ n > 0 /\ n <= Size[part] - count
    BY <1>1 DEF IInv, Typed
  <1>3. Typed'
    <2>1. \A p \in Byte : Offset(part) + count + p - place \in Int
      BY <1>1 DEF IInv, Typed, Byte
    <2>2. file' \in [Byte -> Int]
      BY <2>1 DEF WriteSome, IInv, Typed
    <2>3. length' \in Nat /\ count' \in Nat /\ place' \in Nat
      BY <1>2 DEF WriteSome, IInv, Typed
    <2>4. edited' \in BOOLEAN /\ mixed' \in BOOLEAN
      BY DEF WriteSome, IInv, Typed
    <2> QED
      BY <2>2, <2>3, <2>4 DEF WriteSome, IInv, Typed
  <1>4. ASSUME errors = 0 PROVE Good'
    <2>1. /\ count + n <= Size[part]
          /\ place = Offset(part) + count /\ place <= length
          /\ place + n <= ImageSize
      BY <1>1, <1>2, <1>4 DEF IInv, Typed, Good, Transferring, WholeInUse, WriteSome
    <2>2. FileIsBeginning'
      <3>1. length' <= ImageSize
        BY <1>1, <1>2, <1>4, <2>1 DEF IInv, Typed, Good, FileIsBeginning, WriteSome
      <3>2. ASSUME NEW p \in Byte, p <= length' PROVE file'[p] = p
        <4>1. CASE place < p /\ p <= place + n
          BY <1>1, <1>2, <2>1, <4>1 DEF IInv, Typed, WriteSome, Byte
        <4>2. CASE ~ (place < p /\ p <= place + n)
          BY <1>1, <1>2, <1>4, <2>1, <3>2, <4>2
             DEF IInv, Typed, Good, FileIsBeginning, WriteSome, Byte
        <4> QED
          BY <4>1, <4>2
      <3> QED
        BY <3>1, <3>2 DEF FileIsBeginning, ImageSize, Byte
    <2>3. Transferring'
      BY <1>1, <1>2, <2>1 DEF IInv, Typed, Transferring, WriteSome, Offset, ImageSize
    <2>4. MemoryIsBeginning' /\ WholeInUse'
      BY DEF MemoryIsBeginning, WholeInUse, WriteSome
    <2> QED
      BY <2>2, <2>3, <2>4 DEF Good
  <1> QED
    BY <1>3, <1>4 DEF IInv, WriteSome

LEMMA ReadSomeHolds ==
  ASSUME IInv, NEW n \in 1 .. Size[part] - count, ReadSome(n)
  PROVE  IInv'
  <1>1. part \in Parts /\ Size[part] \in Nat /\ Offset(part) \in Nat
        /\ Offset(part) + Size[part] <= ImageSize /\ ImageSize \in Nat
    BY Layout DEF IInv, Typed
  <1>2. n \in Nat /\ n > 0 /\ n <= Size[part] - count
    BY <1>1 DEF IInv, Typed
  <1>3. Typed'
    BY <1>1, <1>2 DEF ReadSome, IInv, Typed, disk
  <1>4. ASSUME errors = 0 PROVE Good'
    <2>1. /\ count + n <= Size[part]
          /\ place = Offset(part) + count
          /\ place + n <= length
      BY <1>1, <1>2, <1>4 DEF IInv, Typed, Good, Transferring, ReadSome
    <2>2. MemoryIsBeginning'
      <3> SUFFICES ASSUME NEW p \in Byte, p <= place + n PROVE memory'[p] = p
        BY DEF MemoryIsBeginning, ReadSome, ImageSize, Byte
      <3>1. p - Offset(part) - count + place = p
        BY <1>1, <2>1 DEF Byte, IInv, Typed
      <3>2. memory'[p] = IF place < p /\ p <= place + n /\ p \in Byte THEN file[p] ELSE memory[p]
        BY <3>1 DEF ReadSome
      <3>3. CASE place < p
        <4>1. memory'[p] = file[p]
          BY <3>2, <3>3
        <4>2. p <= length
          BY <1>2, <2>1 DEF IInv, Typed, Byte
        <4> QED
          BY <1>4, <4>1, <4>2 DEF IInv, Good, FileIsBeginning
      <3>4. CASE ~ (place < p)
        <4>1. memory'[p] = memory[p] /\ p <= place
          BY <3>2, <3>4 DEF IInv, Typed, Byte
        <4> QED
          BY <1>4, <4>1 DEF IInv, Good, MemoryIsBeginning, ReadSome
      <3> QED
        BY <3>3, <3>4
    <2>3. Transferring'
      BY <1>1, <1>2, <2>1 DEF IInv, Typed, Transferring, ReadSome, disk, Offset, ImageSize
    <2>4. FileIsBeginning' /\ WholeInUse'
      BY <1>4 DEF IInv, Good, FileIsBeginning, WholeInUse, ReadSome, disk
    <2> QED
      BY <2>2, <2>3, <2>4 DEF Good
  <1> QED
    BY <1>3, <1>4 DEF IInv, ReadSome

LEMMA StartHolds ==
  ASSUME IInv, Start
  PROVE  IInv'
  <1>1. Typed'
    BY DEF Start, Begin, disk, loop, IInv, Typed, Nothing
  <1>2. ASSUME errors = 0 PROVE Good'
    <2>1. FileIsBeginning'
      BY <1>2 DEF IInv, Good, FileIsBeginning, Start, disk
    <2>2. Transferring'
      BY Layout DEF IInv, Typed, Transferring, Start, Begin, disk
    <2>3. MemoryIsBeginning'
      BY DEF MemoryIsBeginning, Start, Begin, Byte
    <2>4. WholeInUse'
      BY <1>2 DEF IInv, Good, WholeInUse, Start, Begin, disk
    <2> QED
      BY <2>1, <2>2, <2>3, <2>4 DEF Good
  <1> QED
    BY <1>1, <1>2 DEF IInv, Start

LEMMA FinishHolds ==
  ASSUME IInv, Finish
  PROVE  IInv'
  <1>1. Typed'
    BY Layout DEF Finish, GoOn, Begin, loop, IInv, Typed
  <1>2. ASSUME errors = 0 PROVE Good'
    <2>1. /\ part \in Parts /\ Size[part] \in Nat /\ Offset(part) \in Nat
          /\ count = Size[part] /\ place = Offset(part) + Size[part] /\ place <= length
          /\ length \in Nat /\ length <= ImageSize
      BY <1>2, Layout
         DEF Finish, Left, IInv, Typed, Good, FileIsBeginning, Transferring
    <2>2. FileIsBeginning'
      BY <1>2 DEF IInv, Good, FileIsBeginning, Finish
    <2>3. pc = "reading" /\ part = "superblock" => Right(memory, SuperSize)
      BY <1>2, <2>1, Layout, ImageAssumption
         DEF IInv, Good, MemoryIsBeginning, Right, Byte, ImageSize
    <2>4. CASE part = "superblock" /\ GoOn("inodes")
      BY <1>2, <2>1, <2>2, <2>4, Layout
         DEF Finish, GoOn, IInv, Good, Transferring, MemoryIsBeginning, WholeInUse
    <2>5. CASE part = "inodes" /\ GoOn("blocks")
      BY <1>2, <2>1, <2>2, <2>5, Layout
         DEF Finish, GoOn, IInv, Good, Transferring, MemoryIsBeginning, WholeInUse
    <2>6. CASE part = "blocks" /\ pc = "writing" /\ Begin("reading")
      BY <1>2, <2>1, <2>2, <2>6, Layout
         DEF Finish, Begin, loop, IInv, Good, Transferring, MemoryIsBeginning, WholeInUse, Byte
    <2>7. CASE part = "blocks" /\ pc = "reading" /\ pc' = "ready" /\ UNCHANGED loop
      <3>1. place = ImageSize /\ length = ImageSize
        BY <2>1, <2>7, Layout
      <3> QED
        BY <1>2, <2>2, <2>7, <3>1, Layout
           DEF Finish, loop, IInv, Good, Transferring, MemoryIsBeginning, WholeInUse, Byte
    <2> QED
      BY <2>3, <2>4, <2>5, <2>6, <2>7 DEF Finish
  <1> QED
    BY <1>1, <1>2 DEF IInv, Finish

LEMMA EditHolds ==
  ASSUME IInv, NEW n \in SuperSize .. ImageSize, Edit(n)
  PROVE  IInv'
  <1>1. n \in Nat /\ n <= ImageSize /\ ImageSize \in Nat
    BY Layout, ImageAssumption
  <1>2. Typed'
    BY <1>1 DEF Edit, loop, IInv, Typed
  <1>3. ASSUME errors = 0 PROVE Good'
    <2>1. length = ImageSize /\ \A p \in Byte : memory[p] = p /\ file[p] = p
      BY <1>3, <1>1 DEF Edit, IInv, Good, WholeInUse, FileIsBeginning, Byte
    <2>2. length' = ImageSize /\ \A p \in Byte : file'[p] = p
      BY <1>1, <2>1 DEF Edit
    <2>3. FileIsBeginning'
      BY <1>1, <2>2 DEF FileIsBeginning
    <2>4. Transferring' /\ MemoryIsBeginning'
      BY DEF Edit, Transferring, MemoryIsBeginning
    <2>5. WholeInUse'
      BY <2>1, <2>2 DEF Edit, WholeInUse
    <2> QED
      BY <2>3, <2>4, <2>5 DEF Good
  <1> QED
    BY <1>2, <1>3 DEF IInv, Edit

LEMMA OthersHold ==
  ASSUME IInv, Kill \/ EndOfFile \/ UNCHANGED vars
  PROVE  IInv'
  <1>1. CASE Kill
    BY <1>1 DEF Kill, disk, loop, IInv, Typed, Good, FileIsBeginning, Transferring,
                MemoryIsBeginning, WholeInUse
  <1>2. CASE EndOfFile
    <2>1. errors = 0 => length < ImageSize
      BY <1>2, Layout DEF EndOfFile, Left, IInv, Typed, Good, Transferring
    <2> QED
      BY <1>2, <2>1 DEF EndOfFile, disk, loop, IInv, Typed, Good, FileIsBeginning, Transferring,
                        MemoryIsBeginning, WholeInUse
  <1>3. CASE UNCHANGED vars
    BY <1>3 DEF vars, disk, loop, IInv, Typed, Good, FileIsBeginning, Transferring,
                MemoryIsBeginning, WholeInUse, Offset
  <1> QED
    BY <1>1, <1>2, <1>3

LEMMA ErrorHolds ==
  ASSUME IInv, Error
  PROVE  IInv'
  <1>1. errors' \in 1 .. MaxErrors
    BY ImageAssumption DEF Error, IInv, Typed
  <1>2. count' \in Nat
    BY ImageAssumption, Layout DEF Error, IInv, Typed
  <1> QED
    BY <1>1, <1>2 DEF Error, disk, IInv, Typed

LEMMA NextHolds ==
  ASSUME IInv, [Next]_vars
  PROVE  IInv'
  BY WriteSomeHolds, ReadSomeHolds, StartHolds, FinishHolds, EditHolds,
     OthersHold, ErrorHolds
     DEF Next, Loops

(* At every moment of formatting and opening, killed and repeated, the     *)
(* file is a beginning of the image (minifs_init, minifs_open and the two  *)
(* loops).                                                                 *)
THEOREM ImageInvariance == Spec => []IInv
  BY InitHolds, NextHolds, PTL DEF Spec

(* MiniFS takes commands only when every byte of the tables is read to its *)
(* place, unless a read or write has failed or an image in use has been    *)
(* formatted over and not to the end, for all sizes.                       *)
THEOREM OnlyWholeImages == Spec => []ReadyIsWhole
  <1>1. IInv => ReadyIsWhole
    BY DEF IInv, Good, WholeInUse, ReadyIsWhole, Right, Byte
  <1> QED
    BY <1>1, ImageInvariance, PTL

(* A start that could open the file and gives up has met an image whose    *)
(* formatting was killed: minifs_read_block finds no end of file before it *)
(* has the tables of a whole one.                                          *)
THEOREM OnlyTornFail == Spec => []FailsOnlyOnTorn
  <1>1. IInv => FailsOnlyOnTorn
    BY DEF IInv, Good, WholeInUse, FailsOnlyOnTorn
  <1> QED
    BY <1>1, ImageInvariance, PTL

(* A command leaves at least a superblock, and while such an image is      *)
(* being formatted, stat has failed.                                       *)
EditedIsSeen ==
  edited => length >= SuperSize /\ (pc = "writing" => blind)

LEMMA NextEditedIsSeen ==
  ASSUME IInv, EditedIsSeen, [Next]_vars
  PROVE  EditedIsSeen'
  <1> SUFFICES ASSUME edited' PROVE length' >= SuperSize /\ (pc' = "writing" => blind')
    BY DEF EditedIsSeen
  <1>1. length \in Nat /\ SuperSize \in Nat /\ ImageSize \in Nat
    BY Layout, ImageAssumption DEF IInv, Typed
  <1>2. CASE Start
    <2>1. edited /\ length >= SuperSize /\ length' = length
      BY <1>2 DEF Start, disk, EditedIsSeen
    <2>2. ~ blind' => Exists(blind')
      BY <2>1 DEF Exists
    <2>3. pc' = "writing" => blind'
      BY <1>2, <2>2 DEF Start, Begin
    <2> QED
      BY <2>1, <2>3
  <1>3. ASSUME NEW n \in SuperSize .. ImageSize, Edit(n) PROVE length' >= SuperSize /\ pc' = "ready"
    BY <1>1, <1>3 DEF Edit
  <1>4. CASE Finish
    <2>1. edited /\ length' = length /\ blind' = blind
      BY <1>4 DEF Finish
    <2>2. pc' = "writing" => pc = "writing"
      BY <1>4 DEF Finish, GoOn, Begin
    <2> QED
      BY <2>1, <2>2 DEF EditedIsSeen
  <1>5. ASSUME NEW n, WriteSome(n) PROVE FALSE
    BY <1>5 DEF WriteSome
  <1>6. ASSUME NEW n, ReadSome(n) PROVE length' >= SuperSize /\ (pc' = "writing" => blind')
    BY <1>6 DEF ReadSome, disk, EditedIsSeen
  <1>7. CASE Kill \/ EndOfFile \/ Error \/ UNCHANGED vars
    BY <1>7 DEF Kill, EndOfFile, Error, vars, disk, EditedIsSeen
  <1> QED
    BY <1>2, <1>3, <1>4, <1>5, <1>6, <1>7 DEF Next, Loops

(* An image that a command has changed is formatted again only after       *)
(* check_exists has got an error from stat, whatever reads and writes fail *)
(* and wherever the writing back of a command was cut.                     *)
THEOREM FormattedOnce == Spec => OnlyBlindFormatsAgain
  <1>1. Init => EditedIsSeen
    BY DEF Init, EditedIsSeen
  <1>2. IInv /\ EditedIsSeen /\ [Next]_vars => EditedIsSeen'
    BY NextEditedIsSeen
  <1>3. EditedIsSeen /\ [Next]_vars => [edited /\ ~ edited' => blind]_vars
    <2> SUFFICES ASSUME EditedIsSeen, [Next]_vars, edited, ~ edited' PROVE blind
      OBVIOUS
    <2>1. pc = "writing"
      BY DEF Next, Loops, Start, Kill, Edit, WriteSome, ReadSome, EndOfFile, Finish, Error,
             disk, vars
    <2> QED
      BY <2>1 DEF EditedIsSeen
  <1> QED
    BY <1>1, <1>2, <1>3, ImageInvariance, PTL DEF Spec, OnlyBlindFormatsAgain

-----------------------------------------------------------------------------
(* With failures.                                                          *)

(* A failure sets the count back by one, or from 0 to the greatest value   *)
(* there is, which ends the loop: it costs at most one byte of the file.   *)
CountBehind ==
  \/ count <= Size[part] /\ place <= Offset(part) + count + errors
  \/ count = Wrap - 1 /\ place <= Offset(part) + errors

InRange ==
  /\ file \in [Byte -> 0 .. ImageSize] /\ memory \in [Byte -> 0 .. ImageSize]
  /\ length <= ImageSize + errors
  /\ CountBehind

LEMMA WriteSomeInRange ==
  ASSUME Typed, InRange, NEW n \in 1 .. Size[part] - count, WriteSome(n)
  PROVE  InRange'
  <1>1. /\ part \in Parts /\ Size[part] \in Nat /\ Offset(part) \in Nat
        /\ Offset(part) + Size[part] <= ImageSize /\ ImageSize \in Nat
        /\ errors \in Nat
        /\ Size[part] < Wrap - 1 /\ Wrap \in Nat
    BY Layout, ImageAssumption DEF Typed
  <1>2. n \in Nat /\ n > 0 /\ count + n <= Size[part] /\ count \in Nat /\ place \in Nat
    BY <1>1 DEF Typed
  <1>3. place <= Offset(part) + count + errors
    BY <1>1, <1>2 DEF InRange, CountBehind
  <1>4. file' \in [Byte -> 0 .. ImageSize]
    <2>1. \A p \in Byte : place < p /\ p <= place + n =>
             Offset(part) + count + p - place \in 0 .. ImageSize
      BY <1>1, <1>2 DEF Byte
    <2> QED
      BY <2>1 DEF WriteSome, InRange
  <1>5. length' <= ImageSize + errors
    BY <1>1, <1>2, <1>3 DEF WriteSome, InRange, Typed
  <1>6. CountBehind'
    BY <1>1, <1>2, <1>3 DEF WriteSome, CountBehind, Offset
  <1> QED
    BY <1>4, <1>5, <1>6 DEF InRange, WriteSome

LEMMA ReadSomeInRange ==
  ASSUME Typed, InRange, NEW n \in 1 .. Size[part] - count, ReadSome(n)
  PROVE  InRange'
  <1>1. /\ part \in Parts /\ Size[part] \in Nat /\ Offset(part) \in Nat
        /\ errors \in Nat /\ Size[part] < Wrap - 1 /\ Wrap \in Nat
    BY Layout, ImageAssumption DEF Typed
  <1>2. n \in Nat /\ n > 0 /\ count + n <= Size[part] /\ count \in Nat /\ place \in Nat
    BY <1>1 DEF Typed
  <1>3. place <= Offset(part) + count + errors
    BY <1>1, <1>2 DEF InRange, CountBehind
  <1>4. memory' \in [Byte -> 0 .. ImageSize]
    BY DEF ReadSome, InRange
  <1>5. CountBehind'
    BY <1>1, <1>2, <1>3 DEF ReadSome, CountBehind, Offset
  <1> QED
    BY <1>4, <1>5 DEF InRange, ReadSome, disk

LEMMA ErrorInRange ==
  ASSUME Typed, InRange, Error
  PROVE  InRange'
  <1>1. /\ part \in Parts /\ Size[part] \in Nat /\ Offset(part) \in Nat
        /\ errors \in Nat /\ Size[part] < Wrap - 1 /\ Wrap \in Nat
        /\ count \in Nat /\ place \in Nat /\ length \in Nat /\ ImageSize \in Nat
    BY Layout, ImageAssumption DEF Typed
  <1>2. count < Size[part] /\ place <= Offset(part) + count + errors
    BY <1>1 DEF Error, Left, InRange, CountBehind
  <1>3. CASE count = 0
    <2>1. count' = Wrap - 1
      BY <1>1, <1>3 DEF Error
    <2> QED
      BY <1>1, <1>2, <1>3, <2>1 DEF Error, InRange, CountBehind, disk, Offset
  <1>4. CASE count > 0
    <2>1. count' = count - 1
      <3>1. count + Wrap - 1 = (count - 1) + 1 * Wrap /\ count - 1 \in 0 .. Wrap - 1
        BY <1>1, <1>2, <1>4
      <3> QED
        BY <1>1, <3>1 DEF Error
    <2> QED
      BY <1>1, <1>2, <1>4, <2>1 DEF Error, InRange, CountBehind, disk, Offset
  <1> QED
    BY <1>1, <1>3, <1>4

LEMMA OthersInRange ==
  ASSUME Typed, InRange, Start \/ Finish \/ Kill \/ EndOfFile \/ UNCHANGED vars
  PROVE  InRange'
  <1>1. /\ Size["superblock"] \in Nat /\ ImageSize \in Nat /\ errors \in Nat
        /\ \A q \in Parts : Size[q] \in Nat /\ Offset(q) \in Nat
    BY Layout DEF Typed
  <1>2. \A what : Begin(what) /\ UNCHANGED errors => CountBehind'
    BY <1>1 DEF Begin, loop, InRange, CountBehind, Offset
  <1>3. \A next \in Parts : GoOn(next) /\ UNCHANGED errors => CountBehind'
    BY <1>1 DEF GoOn, CountBehind, Offset
  <1>4. UNCHANGED <<loop, errors>> => CountBehind'
    BY DEF loop, InRange, CountBehind, Offset
  <1>5. CountBehind'
    BY <1>2, <1>3, <1>4 DEF Start, Finish, Kill, EndOfFile, vars, loop
  <1>6. file' = file /\ length' = length /\ errors' = errors
        /\ memory' \in [Byte -> 0 .. ImageSize]
    BY <1>1 DEF Start, Finish, Kill, EndOfFile, vars, disk, loop, Nothing, InRange
  <1> QED
    BY <1>5, <1>6 DEF InRange

LEMMA EditInRange ==
  ASSUME Typed, InRange, NEW n \in SuperSize .. ImageSize, Edit(n)
  PROVE  InRange'
  <1>1. n \in Nat /\ n <= ImageSize /\ ImageSize \in Nat /\ errors \in Nat /\ length \in Nat
    BY Layout, ImageAssumption DEF Typed
  <1>2. file' \in [Byte -> 0 .. ImageSize] /\ memory' = memory
    BY DEF Edit, InRange
  <1>3. length' <= ImageSize + errors'
    BY <1>1 DEF Edit, InRange
  <1>4. CountBehind'
    BY DEF Edit, loop, InRange, CountBehind, Offset
  <1> QED
    BY <1>2, <1>3, <1>4 DEF InRange

LEMMA InitInRange == Init => InRange
  BY Layout DEF Init, InRange, CountBehind, Nothing

LEMMA NextInRange ==
  ASSUME IInv, InRange, [Next]_vars
  PROVE  InRange'
  BY WriteSomeInRange, ReadSomeInRange, ErrorInRange, EditInRange, OthersInRange DEF Next, Loops, IInv

(* Whatever fails, the offset stays within one byte per failure of the     *)
(* image and the count is that of a part, or the -1 that ends its loop.    *)
THEOREM ImageTyped == Spec => []TypeOK
  <1>1. IInv /\ InRange => TypeOK
    <2> SUFFICES ASSUME IInv, InRange PROVE TypeOK
      OBVIOUS
    <2>1. /\ part \in Parts /\ Size[part] \in Nat /\ Offset(part) \in Nat
          /\ Offset(part) + Size[part] <= ImageSize /\ ImageSize \in Nat
          /\ errors \in Nat /\ errors <= MaxErrors /\ MaxErrors \in Nat
          /\ Size[part] < Wrap - 1 /\ Wrap \in Nat
          /\ count \in Nat /\ place \in Nat /\ length \in Nat
      BY Layout, ImageAssumption DEF IInv, Typed
    <2>2. length \in 0 .. ImageSize + MaxErrors
      BY <2>1 DEF InRange
    <2>3. count \in 0 .. Wrap - 1 /\ place \in 0 .. ImageSize + MaxErrors
      BY <2>1 DEF InRange, CountBehind
    <2> QED
      BY <2>2, <2>3 DEF TypeOK, IInv, Typed, InRange
  <1>2. IInv /\ InRange /\ [Next]_vars => InRange'
    BY NextInRange
  <1> QED
    BY <1>1, <1>2, InitInRange, ImageInvariance, PTL DEF Spec

-----------------------------------------------------------------------------
(* How long a start takes.                                                 *)

(* Steps of the part under way: a byte each, at least, and its end.        *)
PartLeft == (IF Left THEN Size[part] - count ELSE 0) + 1

PartsAfter ==
  IF part = "superblock" THEN InodesSize + BlocksSize + 2
  ELSE IF part = "inodes" THEN BlocksSize + 1 ELSE 0

(* Calls of read and write that a start has still to make, at most, when   *)
(* none of them fails, and the steps between its parts.                    *)
StepsLeft ==
  IF pc = "reading" THEN PartLeft + PartsAfter
  ELSE IF pc = "writing" THEN PartLeft + PartsAfter + ImageSize + 3
  ELSE 0

LEMMA Sizes ==
  /\ SuperSize \in Nat /\ InodesSize \in Nat /\ BlocksSize \in Nat
  /\ ImageSize = SuperSize + InodesSize + BlocksSize
  /\ Size["superblock"] = SuperSize /\ Size["inodes"] = InodesSize /\ Size["blocks"] = BlocksSize
  BY ImageAssumption DEF ImageSize, Size

(* Comparing sums.                                                         *)
LEMMA LessPlus ==
  ASSUME NEW a \in Nat, NEW b \in Nat, NEW c \in Nat, NEW d \in Nat
  PROVE  /\ a < b => a + c < b + c /\ a + c + d + 3 < b + c + d + 3
         /\ a <= b + 1 => a + c <= b + c + 1 /\ a + c + d + 3 <= b + c + d + 3 + 1
  OBVIOUS

LEMMA StepsCount ==
  ASSUME IInv
  PROVE  /\ PartLeft \in Nat /\ PartLeft >= 1 /\ PartLeft <= Size[part] + 1
         /\ PartsAfter \in Nat
         /\ Size[part] + 1 + PartsAfter <= ImageSize + 3
         /\ StepsLeft \in 0 .. 2 * (ImageSize + 3)
         /\ pc \in {"writing", "reading"} => StepsLeft >= 1
  <1>1. PartLeft \in Nat /\ PartLeft >= 1 /\ PartLeft <= Size[part] + 1
    BY Layout DEF IInv, Typed, PartLeft, Left
  <1>2. PartsAfter \in Nat /\ Size[part] + 1 + PartsAfter <= ImageSize + 3
    BY Sizes DEF IInv, Typed, PartsAfter
  <1>3. Size[part] \in Nat /\ ImageSize \in Nat
    BY Layout DEF IInv, Typed
  <1>4. StepsLeft \in 0 .. 2 * (ImageSize + 3)
    BY <1>1, <1>2, <1>3 DEF StepsLeft
  <1>5. pc \in {"writing", "reading"} => StepsLeft >= 1
    BY <1>1, <1>2, <1>3 DEF StepsLeft
  <1> QED
    BY <1>1, <1>2, <1>4, <1>5

LEMMA LoopIsSpent ==
  ASSUME IInv, Loops
  PROVE  StepsLeft' < StepsLeft
  <1>1. /\ PartLeft \in Nat /\ PartLeft >= 1 /\ PartsAfter \in Nat /\ ImageSize \in Nat
        /\ pc \in {"writing", "reading"} => StepsLeft >= 1
    BY StepsCount, Layout
  <1>2. ASSUME NEW n \in 1 .. Size[part] - count, WriteSome(n) \/ ReadSome(n)
        PROVE  StepsLeft' < StepsLeft
    <2>1. /\ pc \in {"writing", "reading"} /\ pc' = pc /\ part' = part
          /\ Left /\ count' = count + n
      BY <1>2 DEF WriteSome, ReadSome
    <2>2. count \in Nat /\ Size[part] \in Nat /\ n \in Nat /\ n > 0 /\ n <= Size[part] - count
      BY Layout DEF IInv, Typed
    <2>3. PartLeft' < PartLeft /\ PartLeft' \in Nat
      BY <2>1, <2>2 DEF PartLeft, Left
    <2>4. PartsAfter' = PartsAfter
      BY <2>1 DEF PartsAfter
    <2>5. CASE pc = "reading"
      BY <1>1, <2>1, <2>3, <2>4, <2>5, LessPlus DEF StepsLeft
    <2>6. CASE pc = "writing"
      BY <1>1, <2>1, <2>3, <2>4, <2>6, LessPlus DEF StepsLeft
    <2> QED
      BY <2>1, <2>5, <2>6
  <1>3. CASE EndOfFile
    BY <1>1, <1>3 DEF EndOfFile, StepsLeft
  <1>4. CASE Finish
    <2>1. pc \in {"writing", "reading"} /\ ~ Left /\ PartLeft = 1
      BY <1>4 DEF Finish, PartLeft
    <2>2. CASE pc' \in {"ready", "failed", "denied"}
      BY <1>1, <2>1, <2>2 DEF StepsLeft
    <2>3. ASSUME NEW next \in Parts, GoOn(next),
                 \/ part = "superblock" /\ next = "inodes"
                 \/ part = "inodes" /\ next = "blocks"
          PROVE  StepsLeft' < StepsLeft
      <3>1. part' = next /\ count' = 0 /\ pc' = pc
        BY <2>3 DEF GoOn
      <3>2. PartLeft' = Size[next] + 1
        BY <3>1, Layout DEF PartLeft, Left
      <3>3. PartLeft' + PartsAfter' = PartsAfter
        BY <2>3, <3>1, <3>2, Sizes DEF PartsAfter
      <3> QED
        BY <1>1, <2>1, <3>1, <3>3 DEF StepsLeft
    <2>4. CASE part = "blocks" /\ pc = "writing" /\ Begin("reading") /\ pc' # "denied"
      <3>1. part' = "superblock" /\ count' = 0 /\ pc' = "reading"
        BY <2>4 DEF Begin
      <3>2. PartLeft' = Size["superblock"] + 1
        BY <3>1, Layout DEF PartLeft, Left
      <3>3. PartLeft' + PartsAfter' = ImageSize + 3
        BY <3>1, <3>2, Sizes DEF PartsAfter
      <3>4. PartsAfter = 0
        BY <2>4 DEF PartsAfter
      <3> QED
        BY <1>1, <2>1, <2>4, <3>1, <3>3, <3>4 DEF StepsLeft
    <2> QED
      BY <1>4, <2>2, <2>3, <2>4 DEF Finish
  <1> QED
    BY <1>2, <1>3, <1>4 DEF Loops

(* A failure sets the count back by one, or to the greatest value, which   *)
(* ends the loop.                                                          *)
LEMMA ErrorAddsOne ==
  ASSUME IInv, Error
  PROVE  StepsLeft' <= StepsLeft + 1
  <1>1. /\ Left /\ pc' = pc /\ part' = part /\ count' = (count + Wrap - 1) % Wrap
        /\ count \in Nat /\ Size[part] \in Nat /\ Wrap \in Nat /\ Size[part] < Wrap - 1
    BY Layout, ImageAssumption DEF Error, IInv, Typed
  <1>2. PartLeft' <= PartLeft + 1 /\ PartLeft' \in Nat
    <2>1. CASE count = 0
      <3>1. count' = Wrap - 1
        BY <1>1, <2>1
      <3> QED
        BY <1>1, <2>1, <3>1 DEF PartLeft, Left
    <2>2. CASE count > 0
      <3>1. count' = count - 1
        <4>1. count - 1 \in 0 .. Wrap - 1 /\ count + Wrap - 1 = (count - 1) + Wrap
          BY <1>1, <2>2 DEF Left
        <4> QED
          BY <1>1, <2>2, <4>1
      <3> QED
        BY <1>1, <2>2, <3>1 DEF PartLeft, Left
    <2> QED
      BY <1>1, <2>1, <2>2
  <1>3. PartsAfter' = PartsAfter /\ PartsAfter \in Nat /\ PartLeft \in Nat /\ ImageSize \in Nat
    BY <1>1, StepsCount, Layout DEF PartsAfter
  <1>4. CASE pc = "reading"
    BY <1>1, <1>2, <1>3, <1>4, LessPlus DEF StepsLeft
  <1>5. CASE pc = "writing"
    BY <1>1, <1>2, <1>3, <1>5, LessPlus DEF StepsLeft
  <1> QED
    BY <1>4, <1>5 DEF Error

(* No start goes on for ever: the loops of minifs_write_block and          *)
(* minifs_read_block come closer to their end with every call that does    *)
(* not fail, whatever is left of an earlier format, and one that fails     *)
(* costs one call more.                                                    *)
THEOREM StartsAreBounded ==
  Spec => /\ [](StepsLeft \in 0 .. 2 * (ImageSize + 3))
          /\ [][/\ Loops => StepsLeft' < StepsLeft
                /\ Error => StepsLeft' <= StepsLeft + 1]_vars
  <1>1. IInv => StepsLeft \in 0 .. 2 * (ImageSize + 3)
    BY StepsCount
  <1>2. IInv /\ [Next]_vars =>
          [/\ Loops => StepsLeft' < StepsLeft
           /\ Error => StepsLeft' <= StepsLeft + 1]_vars
    BY LoopIsSpent, ErrorAddsOne
  <1> QED
    BY <1>1, <1>2, ImageInvariance, PTL DEF Spec
=============================================================================
