---------------------------- MODULE ContactDevice ----------------------------
(***************************************************************************)
(* The character device of 01-kernel_module: processes open /dev/storage,  *)
(* write requests to it, read the answer back and close it.  Cells,        *)
(* answer, read pointer and open counter are shared and nothing locks      *)
(* them: one action is one access to them, or to one string of a cell.     *)
(*                                                                         *)
(* The strings of a contact are kmalloc'ed one by one, so a cell holds     *)
(* addresses; a string at an address stands for the contact it came from.  *)
(* kmalloc finds memory as long as an address is free.                     *)
(***************************************************************************)
EXTENDS Integers, Sequences, FiniteSets

CONSTANTS
  Process,
  UserCount,     \* USER_COUNT
  Addr,          \* where strings may lie
  FieldOrder,    \* the strings of a contact, in the order of the code:
                 \* <<"name", "surname", "age", "phone", "email">>
  Contacts,
  Surnames,
  SurnameOf,
  Nobody,
  NULL,          \* the pointer, of output_ptr and of cells not used yet
  Ops,           \* the requests that are made
  OneAtATime,    \* TRUE: no two processes are inside open or close at once,
                 \* and rmmod is not called meanwhile
  MaxDrift,      \* bound: how far below 0 open_counter is followed
  MaxRead        \* bound: how many pieces a process reads without writing

Cell   == 0 .. UserCount - 1
Fields == {FieldOrder[k] : k \in 1 .. Len(FieldOrder)}

ASSUME DeviceAssumption ==
  /\ UserCount \in Nat \ {0}
  /\ FieldOrder \in Seq(Fields) /\ "surname" \in Fields
  /\ \A j, k \in 1 .. Len(FieldOrder) : FieldOrder[j] = FieldOrder[k] => j = k
  /\ Nobody \notin Contacts
  /\ NULL \notin Addr
  /\ SurnameOf \in [Contacts -> Surnames]
  /\ Ops \subseteq {"add", "get", "delete", "bad"}
  /\ OneAtATime \in BOOLEAN
  /\ MaxDrift \in Nat
  /\ MaxRead \in Nat

VARIABLES
  users,         \* users[i][f]: the address of string f of cell i
  status,
  heap,          \* heap[a]: the contact whose string lies at a, or Nobody
  open_counter,
  output_data,   \* the answer, in pieces
  output_ptr,    \* how many pieces have been read, or NULL
  fault,         \* the wild access after which the heap cannot be trusted
  pc,            \* where each process is; "opened" before its first request
                 \* is answered, "answered" after it
  req,           \* its last request
  index, field,  \* the loop over the cells, and over the strings of one
  loaded,        \* open_counter as the process has loaded it
  got            \* the pieces it has read since it opened or wrote last

table   == <<users, status, heap>>
answer  == <<output_data, output_ptr>>
session == <<open_counter, loaded>>
vars == <<users, status, heap, open_counter, output_data, output_ptr, fault,
          pc, req, index, field, loaded, got>>

Request ==    \* "bad": another word, or the wrong number of words
  [op : {"add"}, arg : Contacts] \cup [op : {"get", "delete"}, arg : Surnames]
    \cup [op : {"bad"}]

NoRequest == [op |-> "none"]

Init ==
  /\ users = [i \in Cell |-> [f \in Fields |-> NULL]]
  /\ status = [i \in Cell |-> "f"]
  /\ heap = [a \in Addr |-> Nobody]
  /\ open_counter = 0
  /\ output_data = <<>>
  /\ output_ptr = NULL
  /\ fault = "none"
  /\ pc = [p \in Process |-> "closed"]
  /\ req = [p \in Process |-> NoRequest]
  /\ index = [p \in Process |-> 0]
  /\ field = [p \in Process |-> 0]
  /\ loaded = [p \in Process |-> 0]
  /\ got = [p \in Process |-> <<>>]

-----------------------------------------------------------------------------
(* device_open and device_release.                                         *)

Go(p, from, to) ==
  /\ fault = "none"
  /\ pc[p] = from
  /\ pc' = [pc EXCEPT ![p] = to]

InSession(p) == pc[p] \in {"opened", "answered"}

InOpenOrClose(p) == pc[p] \in {"test", "load", "store", "unload", "unstore"}

MayStart(p) == OneAtATime => \A q \in Process \ {p} : ~ InOpenOrClose(q)

Open(p) ==
  /\ MayStart(p)
  /\ Go(p, "closed", "test")
  /\ UNCHANGED <<table, session, answer, fault, req, index, field, got>>

(* Bug: the counter is not looked at.                                      *)
TestNothing(p) ==
  /\ Go(p, "test", "load")
  /\ UNCHANGED <<table, session, answer, fault, req, index, field, got>>

(* -EBUSY while somebody has the device open.                              *)
Test(p) ==
  /\ Go(p, "test", IF open_counter > 0 THEN "closed" ELSE "load")
  /\ UNCHANGED <<table, session, answer, fault, req, index, field, got>>

(* ++open_counter and --open_counter load it and store it.                 *)
Load(p) ==
  /\ Go(p, "load", "store") \/ Go(p, "unload", "unstore")
  /\ loaded' = [loaded EXCEPT ![p] = open_counter]
  /\ UNCHANGED <<table, open_counter, answer, fault, req, index, field, got>>

Store(p) ==
  /\ \/ Go(p, "store", "opened") /\ open_counter' = loaded[p] + 1
     \/ /\ Go(p, "unstore", "closed")
        /\ loaded[p] > -MaxDrift
        /\ open_counter' = loaded[p] - 1
  /\ loaded' = [loaded EXCEPT ![p] = 0]
  /\ got' = [got EXCEPT ![p] = <<>>]
  /\ UNCHANGED <<table, answer, fault, req, index, field>>

Close(p) ==
  /\ MayStart(p)
  /\ InSession(p)
  /\ Go(p, pc[p], "unload")
  /\ UNCHANGED <<table, session, answer, fault, req, index, field, got>>

-----------------------------------------------------------------------------
(* device_write.                                                           *)

(* More than 1023 characters, or no word: -EINVAL, and the old answer      *)
(* stays.                                                                  *)
Invalid(p) ==
  /\ InSession(p)
  /\ Go(p, pc[p], "opened")
  /\ got' = [got EXCEPT ![p] = <<>>]
  /\ UNCHANGED <<table, session, answer, fault, req, index, field>>

Write(p) ==
  \E r \in {q \in Request : q.op \in Ops} :
    /\ InSession(p)
    /\ Go(p, pc[p], IF r.op = "bad" THEN "say" ELSE "scan")
    /\ req' = [req EXCEPT ![p] = r]
    /\ got' = [got EXCEPT ![p] = <<>>]
    /\ UNCHANGED <<table, session, answer, fault, index, field>>

Adds(p) == req[p].op = "add"

(* Bug: the search passes over the first cell.                             *)
ScanFromOne(p) ==
  /\ IF index[p] >= UserCount
     THEN Go(p, "scan", "say") /\ UNCHANGED index
     ELSE IF index[p] # 0 /\ status[index[p]] = (IF Adds(p) THEN "f" ELSE "t")
     THEN Go(p, "scan", IF Adds(p) THEN "fill" ELSE "match") /\ UNCHANGED index
     ELSE Go(p, "scan", "scan") /\ index' = [index EXCEPT ![p] = @ + 1]
  /\ UNCHANGED <<table, session, answer, fault, req, field, got>>

(* Bug: a cell is marked taken as soon as it is found free.                *)
ScanTakes(p) ==
  /\ IF index[p] >= UserCount
     THEN Go(p, "scan", "say") /\ UNCHANGED <<index, status>>
     ELSE IF status[index[p]] = (IF Adds(p) THEN "f" ELSE "t")
     THEN /\ Go(p, "scan", IF Adds(p) THEN "fill" ELSE "match")
          /\ status' = [status EXCEPT ![index[p]] = "t"]
          /\ UNCHANGED index
     ELSE Go(p, "scan", "scan") /\ index' = [index EXCEPT ![p] = @ + 1] /\ UNCHANGED status
  /\ UNCHANGED <<users, heap, session, answer, fault, req, field, got>>

(* The loops over the cells; index UserCount when none fits.               *)
Scan(p) ==
  /\ IF index[p] >= UserCount
     THEN Go(p, "scan", "say") /\ UNCHANGED index
     ELSE IF status[index[p]] = (IF Adds(p) THEN "f" ELSE "t")
     THEN Go(p, "scan", IF Adds(p) THEN "fill" ELSE "match") /\ UNCHANGED index
     ELSE Go(p, "scan", "scan") /\ index' = [index EXCEPT ![p] = @ + 1]
  /\ UNCHANGED <<table, session, answer, fault, req, field, got>>

StringOf(i, f) == heap[users[i][f]]
NextField(p) == FieldOrder[field[p] + 1]
LastField(p) == field[p] + 1 = Len(FieldOrder)

(* Bug: after a surname that differs, a cell is skipped.                   *)
MatchSkips(p) ==
  LET c == StringOf(index[p], "surname")
  IN  /\ pc[p] = "match" /\ c # Nobody
      /\ IF SurnameOf[c] = req[p].arg
         THEN Go(p, "match", IF req[p].op = "get" THEN "format" ELSE "free") /\ UNCHANGED index
         ELSE Go(p, "match", "scan") /\ index' = [index EXCEPT ![p] = @ + 2]
      /\ UNCHANGED <<table, session, answer, fault, req, field, got>>

(* strcmp with the surname in the cell.                                    *)
Match(p) ==
  LET c == StringOf(index[p], "surname")
  IN  /\ pc[p] = "match" /\ c # Nobody
      /\ IF SurnameOf[c] = req[p].arg
         THEN Go(p, "match", IF req[p].op = "get" THEN "format" ELSE "free") /\ UNCHANGED index
         ELSE Go(p, "match", "scan") /\ index' = [index EXCEPT ![p] = @ + 1]
      /\ UNCHANGED <<table, session, answer, fault, req, field, got>>

(* copy_string: kmalloc, and the pointer goes to the cell.                 *)
Fill(p) ==
  /\ Go(p, "fill", IF LastField(p) THEN "take" ELSE "fill")
  /\ \E a \in {x \in Addr : heap[x] = Nobody} :
       /\ heap' = [heap EXCEPT ![a] = req[p].arg]
       /\ users' = [users EXCEPT ![index[p]][NextField(p)] = a]
  /\ field' = [field EXCEPT ![p] = IF LastField(p) THEN 0 ELSE @ + 1]
  /\ UNCHANGED <<status, session, answer, fault, req, index, got>>

Take(p) ==
  /\ Go(p, "take", "say")
  /\ status' = [status EXCEPT ![index[p]] = "t"]
  /\ UNCHANGED <<users, heap, session, answer, fault, req, index, field, got>>

(* sprintf reads the strings of the cell one after the other.              *)
Format(p) ==
  LET c == StringOf(index[p], NextField(p))
  IN  /\ Go(p, "format", IF LastField(p) THEN "point" ELSE "format")
      /\ c # Nobody
      /\ output_data' = (IF field[p] = 0 THEN <<"FOUND">> ELSE output_data) \o <<c>>
      /\ field' = [field EXCEPT ![p] = IF LastField(p) THEN 0 ELSE @ + 1]
      /\ UNCHANGED <<table, session, output_ptr, fault, req, index, got>>

(* Bug: the first string is forgotten.                                     *)
FreeAllButFirst(p) ==
  LET a == users[index[p]][NextField(p)]
  IN  /\ Go(p, "free", IF LastField(p) THEN "drop" ELSE "free")
      /\ heap[a] # Nobody
      /\ heap' = IF field[p] = 0 THEN heap ELSE [heap EXCEPT ![a] = Nobody]
      /\ field' = [field EXCEPT ![p] = IF LastField(p) THEN 0 ELSE @ + 1]
      /\ UNCHANGED <<users, status, session, answer, fault, req, index, got>>

(* kfree of the strings of the cell one after the other.                   *)
Free(p) ==
  LET a == users[index[p]][NextField(p)]
  IN  /\ Go(p, "free", IF LastField(p) THEN "drop" ELSE "free")
      /\ heap[a] # Nobody
      /\ heap' = [heap EXCEPT ![a] = Nobody]
      /\ field' = [field EXCEPT ![p] = IF LastField(p) THEN 0 ELSE @ + 1]
      /\ UNCHANGED <<users, status, session, answer, fault, req, index, got>>

(* Bug: the cell stays taken.                                              *)
DropNothing(p) ==
  /\ Go(p, "drop", "say")
  /\ UNCHANGED <<table, session, answer, fault, req, index, field, got>>

Drop(p) ==
  /\ Go(p, "drop", "say")
  /\ status' = [status EXCEPT ![index[p]] = "f"]
  /\ UNCHANGED <<users, heap, session, answer, fault, req, index, field, got>>

(* The string that strcmp, sprintf or kfree is given has been freed.       *)
UseAfterFree(p) ==
  /\ \E place \in {"match", "format", "free"} : Go(p, place, place)
  /\ StringOf(index[p], IF pc[p] = "match" THEN "surname" ELSE NextField(p)) = Nobody
  /\ fault' = IF pc[p] = "free" THEN "double free" ELSE "use after free"
  /\ UNCHANGED <<table, session, answer, req, index, field, got>>

Message(p) ==
  IF req[p].op = "bad" THEN "BAD REQUEST"
  ELSE IF index[p] < UserCount THEN "OK"
  ELSE IF Adds(p) THEN "INTERNAL ERROR"
  ELSE "NOT FOUND"

(* set_message: the text, then the pointer.                                *)
Say(p) ==
  /\ Go(p, "say", "point")
  /\ output_data' = <<Message(p)>>
  /\ UNCHANGED <<table, session, output_ptr, fault, req, index, field, got>>

(* Bug: reading goes on where it was.                                      *)
PointNowhere(p) ==
  /\ Go(p, "point", "answered")
  /\ output_ptr' = IF output_ptr = NULL THEN 0 ELSE output_ptr
  /\ index' = [index EXCEPT ![p] = 0]
  /\ UNCHANGED <<table, session, output_data, fault, req, field, got>>

Point(p) ==
  /\ Go(p, "point", "answered")
  /\ output_ptr' = 0
  /\ index' = [index EXCEPT ![p] = 0]
  /\ UNCHANGED <<table, session, output_data, fault, req, field, got>>

-----------------------------------------------------------------------------
(* device_read.                                                            *)

Reads(p) == InSession(p) /\ Go(p, pc[p], pc[p]) /\ Len(got[p]) < MaxRead

(* One round of its loop: a piece is passed on and output_ptr goes up.     *)
Read(p) ==
  /\ Reads(p)
  /\ output_ptr # NULL /\ output_ptr < Len(output_data)
  /\ got' = [got EXCEPT ![p] = Append(@, output_data[output_ptr + 1])]
  /\ output_ptr' = output_ptr + 1
  /\ UNCHANGED <<table, session, output_data, fault, req, index, field>>

(* A shorter text is in place and the pointer, still in the longer one     *)
(* before it, is past its end: what is left of the longer one is read.     *)
ReadRest(p) ==
  /\ Reads(p)
  /\ output_ptr # NULL /\ output_ptr > Len(output_data)
  /\ got' = [got EXCEPT ![p] = Append(@, "rest")]
  /\ UNCHANGED <<table, session, answer, fault, req, index, field>>

(* No request has been answered yet: the NULL pointer kills the process,   *)
(* which closes the device on its way out.                                 *)
ReadNull(p) ==
  /\ MayStart(p)
  /\ InSession(p)
  /\ Go(p, pc[p], "unload")
  /\ output_ptr = NULL
  /\ UNCHANGED <<table, session, answer, fault, req, index, field, got>>

-----------------------------------------------------------------------------
(* storage_exit, and storage_init of the next insmod.  rmmod needs that    *)
(* nobody uses the module: device_open calls try_module_get right before   *)
(* ++open_counter, device_release calls module_put first, and the kernel   *)
(* adds nothing, as fops has no owner.                                     *)

UsesModule(p) == pc[p] \notin {"closed", "test", "load", "unload", "unstore"}

Taken == {i \in Cell : status[i] = "t"}
StringsOf(i) == {users[i][f] : f \in Fields}

Reload ==
  /\ fault = "none" /\ \A p \in Process : pc[p] = "closed"
  /\ heap' = [a \in Addr |-> IF \E i \in Taken : a \in StringsOf(i) THEN Nobody ELSE heap[a]]
  /\ users' = [i \in Cell |-> [f \in Fields |-> NULL]]
  /\ status' = [i \in Cell |-> "f"]
  /\ open_counter' = 0
  /\ output_data' = <<>>
  /\ output_ptr' = NULL
  /\ UNCHANGED <<fault, pc, req, index, field, loaded, got>>

(* The module is gone while a process is still inside device_open or       *)
(* device_release: it goes on in memory that is no longer its code.        *)
RmmodInside ==
  /\ ~ OneAtATime
  /\ fault = "none" /\ \A p \in Process : ~ UsesModule(p)
  /\ \E p \in Process : InOpenOrClose(p)
  /\ fault' = "code gone"
  /\ UNCHANGED <<table, session, answer, pc, req, index, field, got>>

Next ==
  \/ Reload \/ RmmodInside
  \/ \E p \in Process :
       \/ Open(p) \/ Test(p) \/ Load(p) \/ Store(p) \/ Close(p)
       \/ Invalid(p) \/ Write(p) \/ Scan(p) \/ Match(p)
       \/ Fill(p) \/ Take(p) \/ Format(p) \/ Free(p) \/ Drop(p) \/ UseAfterFree(p)
       \/ Say(p) \/ Point(p) \/ Read(p) \/ ReadRest(p) \/ ReadNull(p)

Spec == Init /\ [][Next]_vars

-----------------------------------------------------------------------------
(* Properties.                                                             *)

(* The type of every variable.                                             *)
TypeOK ==
  /\ users \in [Cell -> [Fields -> Addr \cup {NULL}]]
  /\ status \in [Cell -> {"f", "t"}]
  /\ heap \in [Addr -> Contacts \cup {Nobody}]
  /\ open_counter \in -MaxDrift .. Cardinality(Process)
  /\ output_ptr \in Nat \cup {NULL}
  /\ fault \in {"none", "use after free", "double free", "code gone"}
  /\ req \in [Process -> Request \cup {NoRequest}]
  /\ index \in [Process -> 0 .. UserCount]
  /\ field \in [Process -> 0 .. Len(FieldOrder) - 1]
  /\ loaded \in [Process -> -MaxDrift .. Cardinality(Process)]

(* The strings of a taken cell have all been allocated once, even when     *)
(* several processes fill it: no lookup follows a NULL pointer.            *)
TakenCellsHaveStrings == \A i \in Taken : NULL \notin StringsOf(i)

(* One process at a time has the device open, and open_counter says so.    *)
Holders == {p \in Process : pc[p] \notin {"closed", "test", "load", "store"}}

OpenedOnce ==
  /\ Cardinality(Holders) <= 1
  /\ (\A p \in Process : ~ InOpenOrClose(p)) => open_counter = Cardinality(Holders)

(* No string is read or freed after it has been freed.                     *)
NoWildAccess == fault = "none"

(* Between requests, what is allocated is the strings of the contacts in   *)
(* the table, each its own: nothing leaks, nothing is shared.              *)
StringsOwned ==
  (\A p \in Process : pc[p] \notin {"fill", "take", "free", "drop"}) =>
    /\ {a \in Addr : heap[a] # Nobody} = UNION {StringsOf(i) : i \in Taken}
    /\ Cardinality(UNION {StringsOf(i) : i \in Taken}) =
         Cardinality(Taken) * Len(FieldOrder)

Holds(i, c) == status[i] = "t" /\ \A f \in Fields : StringOf(i, f) = c
Under(s) == {i \in Taken : SurnameOf[StringOf(i, "surname")] = s}

(* What a process reads after a request is the beginning of the answer to  *)
(* that request, and the answer is true of the table.                      *)
RightAnswer(r, text) ==
  \/ r.op = "bad" /\ text = <<"BAD REQUEST">>
  \/ r.op = "add" /\ text = <<"OK">> /\ \E i \in Cell : Holds(i, r.arg)
  \/ r.op = "add" /\ text = <<"INTERNAL ERROR">> /\ Taken = Cell
  \/ /\ r.op = "get"
     /\ \E i \in Under(r.arg), c \in Contacts :
          /\ \A j \in Under(r.arg) : i <= j
          /\ Holds(i, c)
          /\ text = <<"FOUND">> \o [k \in 1 .. Len(FieldOrder) |-> c]
  \/ r.op = "delete" /\ text = <<"OK">>
  \/ r.op \in {"get", "delete"} /\ text = <<"NOT FOUND">> /\ Under(r.arg) = {}

AnswerIsOwn ==
  \A p \in Process : pc[p] = "answered" =>
    /\ got[p] = SubSeq(output_data, 1, output_ptr)
    /\ RightAnswer(req[p], output_data)

(* The taken cells are a table of contacts that changes one contact at a   *)
(* time, the lowest cell first, and is empty again after rmmod.            *)
book ==
  [i \in Cell |->
     IF status[i] # "t" \/ \E p \in Process : index[p] = i /\ pc[p] \in {"free", "drop"}
     THEN Nobody
     ELSE IF \E c \in Contacts : Holds(i, c) THEN StringOf(i, "surname")
     ELSE <<users[i]>>]

Book == INSTANCE ContactBook

ImplementsContactBook == Book!BookInit /\ [][Reload \/ Book!BookNext]_book
=============================================================================
