--------------------------- MODULE ContactSyscalls ---------------------------
(***************************************************************************)
(* The system calls add_user, get_user and del_user of 03-sys_call, called *)
(* by several threads at once.  The table of contacts and the flag         *)
(* `initialized' are shared and nothing locks them: one action is one      *)
(* access to one cell's status or to one field of a cell, or the flag.     *)
(*                                                                         *)
(* A field is copied in one step; a contact stands for all its fields, and *)
(* two writers of the same cell mix fields here as they would mix bytes.   *)
(* Accesses take effect in the order in which the code makes them.         *)
(***************************************************************************)
EXTENDS Integers, Sequences

CONSTANTS
  Thread,
  UserCount,     \* USER_COUNT
  Contacts,      \* what a caller passes to add_user
  Surnames,
  SurnameOf,     \* SurnameOf[c]: the surname of contact c
  TooLong,       \* TooLong[c]: the fields of c that do not end within 1024
  Nobody,        \* what the fields of a cell hold before the first add
  Calls,         \* Calls[t]: the calls thread t makes, with their arguments
  BootAlone      \* TRUE: no other call begins while the first one initialises

Cell   == 0 .. UserCount - 1
Fields == {"name", "surname", "phone", "email"}

\* The order in which add_user_note fills a cell, and get_user copies it out.
FillOrder == <<"name", "surname", "phone", "email">>
OutOrder  == <<"name", "surname", "email", "phone">>

Request ==
  [op : {"add"}, arg : Contacts] \cup [op : {"get", "del"}, arg : Surnames]

ASSUME ContactsAssumption ==
  /\ UserCount \in Nat \ {0}
  /\ Nobody \notin Contacts
  /\ SurnameOf \in [Contacts -> Surnames]
  /\ TooLong \in [Contacts -> SUBSET Fields]
  /\ Calls \in [Thread -> SUBSET Request]
  /\ BootAlone \in BOOLEAN

VARIABLES
  users,         \* users[i]: whose name, surname, ... cell i holds
  status,        \* users[i].status: 'f' free, 't' taken, 0 at boot
  initialized,
  pc,            \* where each thread is
  req,           \* the call it makes, or made last
  index,         \* the loop variable
  field,         \* how many fields it has copied
  out,           \* *output_data of get_user
  reply,         \* what the last call returned, -1 by its reason
  calm           \* history: no cell was freed since the thread's call began

shared == <<users, status, initialized>>
vars   == <<users, status, initialized, pc, req, index, field, out, reply, calm>>

Blank == [f \in Fields |-> Nobody]

Init ==
  /\ users = [i \in Cell |-> Blank]
  /\ status = [i \in Cell |-> "0"]
  /\ initialized = FALSE
  /\ pc = [t \in Thread |-> "idle"]
  /\ req \in [Thread -> {[op |-> "none"]}]
  /\ index = [t \in Thread |-> 0]
  /\ field = [t \in Thread |-> 0]
  /\ out = [t \in Thread |-> Blank]
  /\ reply = [t \in Thread |-> "none"]
  /\ calm = [t \in Thread |-> TRUE]

-----------------------------------------------------------------------------
(* Steps of thread t.                                                      *)

Go(t, from, to) == pc[t] = from /\ pc' = [pc EXCEPT ![t] = to]

Return(t, r) ==
  /\ pc' = [pc EXCEPT ![t] = "idle"]
  /\ reply' = [reply EXCEPT ![t] = r]
  /\ index' = [index EXCEPT ![t] = 0]
  /\ field' = [field EXCEPT ![t] = 0]

MayCall(t) ==
  BootAlone /\ ~ initialized => \A u \in Thread : pc[u] = "idle"

Call(t) ==
  /\ MayCall(t)
  /\ Go(t, "idle", "check")
  /\ \E r \in Calls[t] : req' = [req EXCEPT ![t] = r]
  /\ out' = [out EXCEPT ![t] = Blank]
  /\ reply' = [reply EXCEPT ![t] = "none"]
  /\ calm' = [calm EXCEPT ![t] = TRUE]
  /\ UNCHANGED <<shared, index, field>>

(* Bug: every call frees all cells first.                                  *)
CheckAlways(t) ==
  /\ Go(t, "check", "wipe")
  /\ UNCHANGED <<shared, req, index, field, out, reply>>

Check(t) ==
  /\ Go(t, "check", IF initialized THEN "enter" ELSE "wipe")
  /\ UNCHANGED <<shared, req, index, field, out, reply>>

(* The loop that frees every cell, and the flag set after it.              *)
Wipe(t) ==
  /\ pc[t] = "wipe"
  /\ IF index[t] < UserCount
     THEN /\ status' = [status EXCEPT ![index[t]] = "f"]
          /\ index' = [index EXCEPT ![t] = @ + 1]
          /\ UNCHANGED <<initialized, pc>>
     ELSE /\ initialized' = TRUE
          /\ Go(t, "wipe", "enter")
          /\ index' = [index EXCEPT ![t] = 0]
          /\ UNCHANGED status
  /\ UNCHANGED <<users, req, field, out, reply>>

(* A surname longer than 1023, memory of the caller that cannot be read,   *)
(* or no memory for the copy, which kills the caller.                      *)
Enter(t) ==
  /\ \/ Go(t, "enter", "scan") /\ UNCHANGED <<index, field, reply>>
     \/ pc[t] = "enter" /\ Return(t, "refused")
  /\ UNCHANGED <<shared, req, out>>

Adds(t) == req[t].op = "add"

(* Bug: the last cell is never looked at.                                  *)
ScanToLast(t) ==
  /\ pc[t] = "scan"
  /\ UNCHANGED <<shared, req, out>>
  /\ IF index[t] >= UserCount - 1
     THEN Return(t, IF Adds(t) THEN "full" ELSE "not found")
     ELSE /\ IF status[index[t]] = (IF Adds(t) THEN "f" ELSE "t")
             THEN Go(t, "scan", IF Adds(t) THEN "fill" ELSE "match") /\ UNCHANGED index
             ELSE index' = [index EXCEPT ![t] = @ + 1] /\ UNCHANGED pc
          /\ UNCHANGED <<field, reply>>

(* Bug: a cell is marked taken as soon as it is found free.                *)
ScanTakes(t) ==
  /\ pc[t] = "scan"
  /\ UNCHANGED <<users, initialized, req, out>>
  /\ IF index[t] >= UserCount
     THEN Return(t, IF Adds(t) THEN "full" ELSE "not found") /\ UNCHANGED status
     ELSE /\ IF status[index[t]] = (IF Adds(t) THEN "f" ELSE "t")
             THEN /\ Go(t, "scan", IF Adds(t) THEN "fill" ELSE "match")
                  /\ status' = [status EXCEPT ![index[t]] = "t"]
                  /\ UNCHANGED index
             ELSE index' = [index EXCEPT ![t] = @ + 1] /\ UNCHANGED <<pc, status>>
          /\ UNCHANGED <<field, reply>>

(* The loops look at the status of one cell after the other: add_user_note *)
(* for a free one, get_user_note and delete_user_note for a taken one.     *)
Scan(t) ==
  /\ pc[t] = "scan"
  /\ UNCHANGED <<shared, req, out>>
  /\ IF index[t] >= UserCount
     THEN Return(t, IF Adds(t) THEN "full" ELSE "not found")
     ELSE /\ IF status[index[t]] = (IF Adds(t) THEN "f" ELSE "t")
             THEN Go(t, "scan", IF Adds(t) THEN "fill" ELSE "match") /\ UNCHANGED index
             ELSE index' = [index EXCEPT ![t] = @ + 1] /\ UNCHANGED pc
          /\ UNCHANGED <<field, reply>>

(* copy_string of the next field, or -1 when it is too long: the cell      *)
(* stays free, with the fields copied so far.                              *)
Fill(t) ==
  /\ pc[t] = "fill"
  /\ UNCHANGED <<status, initialized, req, out>>
  /\ LET c == req[t].arg
         f == FillOrder[field[t] + 1]
     IN  IF f \in TooLong[c]
         THEN Return(t, "too long") /\ UNCHANGED users
         ELSE /\ users' = [users EXCEPT ![index[t]][f] = c]
              /\ field' = [field EXCEPT ![t] = @ + 1]
              /\ pc' = [pc EXCEPT ![t] = IF field[t] + 1 = Len(FillOrder) THEN "take" ELSE @]
              /\ UNCHANGED <<index, reply>>

Take(t) ==
  /\ pc[t] = "take"
  /\ status' = [status EXCEPT ![index[t]] = "t"]
  /\ Return(t, "ok")
  /\ UNCHANGED <<users, initialized, req, out>>

HasSurname(i, s) == users[i]["surname"] \in Contacts /\ SurnameOf[users[i]["surname"]] = s

(* Bug: after a surname that differs, a cell is skipped.                   *)
MatchSkips(t) ==
  /\ pc[t] = "match"
  /\ IF HasSurname(index[t], req[t].arg)
     THEN Go(t, "match", IF req[t].op = "get" THEN "out" ELSE "drop") /\ UNCHANGED index
     ELSE Go(t, "match", "scan") /\ index' = [index EXCEPT ![t] = @ + 2]
  /\ UNCHANGED <<shared, req, field, out, reply>>

(* strcmp, after the status has been found taken.                          *)
Match(t) ==
  /\ pc[t] = "match"
  /\ IF HasSurname(index[t], req[t].arg)
     THEN Go(t, "match", IF req[t].op = "get" THEN "out" ELSE "drop") /\ UNCHANGED index
     ELSE Go(t, "match", "scan") /\ index' = [index EXCEPT ![t] = @ + 1]
  /\ UNCHANGED <<shared, req, field, out, reply>>

Drop(t) ==
  /\ pc[t] = "drop"
  /\ status' = [status EXCEPT ![index[t]] = "f"]
  /\ Return(t, "ok")
  /\ calm' = [u \in Thread |-> calm[u] /\ ~ (pc[u] # "idle" /\ req[u].op = "get")]
  /\ UNCHANGED <<users, initialized, req, out>>

(* copy_to_user of the next field, which fails when the caller's memory    *)
(* cannot be written.                                                      *)
Out(t) ==
  /\ pc[t] = "out"
  /\ UNCHANGED <<shared, req>>
  /\ \/ Return(t, "fault") /\ UNCHANGED out
     \/ LET f == OutOrder[field[t] + 1]
        IN  /\ out' = [out EXCEPT ![t][f] = users[index[t]][f]]
            /\ IF field[t] + 1 = Len(OutOrder)
               THEN Return(t, "ok")
               ELSE /\ field' = [field EXCEPT ![t] = @ + 1]
                    /\ UNCHANGED <<pc, index, reply>>

Step(t) ==
  \/ /\ \/ Check(t) \/ Wipe(t) \/ Enter(t) \/ Scan(t) \/ Fill(t) \/ Take(t)
        \/ Match(t) \/ Out(t)
     /\ UNCHANGED calm
  \/ Drop(t)

Next == \E t \in Thread : Call(t) \/ Step(t)

Spec == Init /\ [][Next]_vars

(* A thread inside a call goes on: the loops are finite and wait for       *)
(* nothing, and the kernel schedules every thread that can run.            *)
FairSpec == Spec /\ \A t \in Thread : WF_vars(Step(t))

-----------------------------------------------------------------------------
(* Properties.                                                             *)

(* The type of every variable.                                             *)
TypeOK ==
  /\ users \in [Cell -> [Fields -> Contacts \cup {Nobody}]]
  /\ status \in [Cell -> {"0", "f", "t"}]
  /\ initialized \in BOOLEAN
  /\ pc \in [Thread -> {"idle", "check", "wipe", "enter", "scan", "fill",
                        "take", "match", "drop", "out"}]
  /\ req \in [Thread -> Request \cup {[op |-> "none"]}]
  /\ index \in [Thread -> 0 .. UserCount]
  /\ field \in [Thread -> 0 .. 4]
  /\ out \in [Thread -> [Fields -> Contacts \cup {Nobody}]]
  /\ reply \in [Thread -> {"none", "ok", "refused", "full", "too long", "not found", "fault"}]
  /\ calm \in [Thread -> BOOLEAN]

Holds(i, c) == status[i] = "t" /\ \A f \in Fields : users[i][f] = c

Returned(t, op, r) == pc[t] = "idle" /\ req[t].op = op /\ reply[t] = r

(* A contact whose add_user returned 0 is in the table, whole, as long as  *)
(* the thread that added it makes no other call.                           *)
AddedIsStored ==
  \A t \in Thread : Returned(t, "add", "ok") =>
    \E i \in Cell : Holds(i, req[t].arg)

OneContact(t) ==
  \E c \in Contacts : SurnameOf[c] = req[t].arg /\ \A f \in Fields : out[t][f] = c

(* What get_user has copied out when it returns 0 is one contact, and one  *)
(* with the surname it was asked for, never the fields of two, if no       *)
(* del_user freed a cell meanwhile: adds alone never disturb a lookup.     *)
AnswerIsWhole ==
  \A t \in Thread : Returned(t, "get", "ok") /\ calm[t] => OneContact(t)

(* add_user fails for want of room only when every cell is taken, and      *)
(* del_user finds nothing only when no contact has the surname.            *)
RefusalIsTrue ==
  \A t \in Thread :
    /\ Returned(t, "add", "full") => \A i \in Cell : status[i] = "t"
    /\ Returned(t, "del", "not found") =>
         \A i \in Cell : status[i] = "t" => ~ HasSurname(i, req[t].arg)

Kept == {s \in Surnames : \A t \in Thread : [op |-> "del", arg |-> s] \notin Calls[t]}

(* get_user finds a surname that is stored before it is called and that    *)
(* nobody deletes: a scan never misses a contact that the other threads    *)
(* leave alone, whatever they add and free around it, and it ends.         *)
StoredIsFound ==
  \A t \in Thread, s \in Kept :
    (/\ pc[t] = "check" /\ req[t].op = "get" /\ req[t].arg = s
     /\ \E i \in Cell : status[i] = "t" /\ HasSurname(i, s))
      ~> (pc[t] = "idle" /\ reply[t] # "not found")

(* The taken cells are a table of contacts that changes one contact at a   *)
(* time, the lowest cell first.                                            *)
book ==
  [i \in Cell |->
     IF status[i] # "t" THEN Nobody
     ELSE IF \E c \in Contacts : Holds(i, c) THEN users[i]["name"]
     ELSE <<users[i]>>]

Book == INSTANCE ContactBook

ImplementsContactBook == Book!BookSpec
=============================================================================
