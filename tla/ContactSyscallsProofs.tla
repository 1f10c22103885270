------------------------ MODULE ContactSyscallsProofs ------------------------
(***************************************************************************)
(* Theorems about ContactSyscalls, for any table and any threads.          *)
(*                                                                         *)
(* When one thread adds and deletes and any number of others look up, and  *)
(* the first call runs alone, add_user stores what it says it stores,      *)
(* refusals are true, and a lookup that no deletion crosses copies out one *)
(* contact.  The argument: only the writer changes a cell, it fills only a *)
(* free one, and it marks the cell taken after the last field.  Every call *)
(* ends after a bounded number of its steps, whoever runs in between.      *)
(***************************************************************************)
EXTENDS ContactSyscalls, TLAPS

Slot == 1 .. 4

LEMMA Orders ==
  /\ Len(FillOrder) = 4 /\ Len(OutOrder) = 4
  /\ \A k \in Slot : FillOrder[k] \in Fields /\ OutOrder[k] \in Fields
  /\ \A f \in Fields : (\E k \in Slot : FillOrder[k] = f) /\ (\E k \in Slot : OutOrder[k] = f)
  <1>1. Len(FillOrder) = 4 /\ Len(OutOrder) = 4
    BY DEF FillOrder, OutOrder
  <1>2. /\ FillOrder[1] = "name" /\ FillOrder[2] = "surname"
        /\ FillOrder[3] = "phone" /\ FillOrder[4] = "email"
        /\ OutOrder[1] = "name" /\ OutOrder[2] = "surname"
        /\ OutOrder[3] = "email" /\ OutOrder[4] = "phone"
    BY DEF FillOrder, OutOrder
  <1>3. 1 \in Slot /\ 2 \in Slot /\ 3 \in Slot /\ 4 \in Slot
        /\ \A k \in Slot : k = 1 \/ k = 2 \/ k = 3 \/ k = 4
    BY DEF Slot
  <1>4. \A f \in Fields : f = "name" \/ f = "surname" \/ f = "phone" \/ f = "email"
    BY DEF Fields
  <1>5. \A k \in Slot : FillOrder[k] \in Fields /\ OutOrder[k] \in Fields
    BY <1>2, <1>3 DEF Fields
  <1>6. \A f \in Fields : (\E k \in Slot : FillOrder[k] = f) /\ (\E k \in Slot : OutOrder[k] = f)
    BY <1>2, <1>3, <1>4
  <1> QED
    BY <1>1, <1>5, <1>6

-----------------------------------------------------------------------------
(* Types, whatever the threads do.                                         *)

Places == {"idle", "check", "wipe", "enter", "scan", "fill", "take", "match", "drop", "out"}

Asked ==
  \A t \in Thread :
    /\ pc[t] # "idle" => req[t] \in Calls[t]
    /\ pc[t] \in {"fill", "take"} => req[t].op = "add"
    /\ pc[t] = "match" => req[t].op \in {"get", "del"}
    /\ pc[t] = "drop" => req[t].op = "del"
    /\ pc[t] = "out" => req[t].op = "get"
    /\ pc[t] \in {"fill", "take", "match", "drop", "out"} => index[t] \in Cell
    /\ pc[t] \notin {"fill", "take", "out"} => field[t] = 0
    /\ pc[t] \in {"fill", "out"} => field[t] \in 0 .. 3
    /\ pc[t] \notin {"wipe", "scan", "fill", "take", "match", "drop", "out"} => index[t] = 0
    /\ pc[t] # "idle" => reply[t] = "none"
    /\ req[t] \in Calls[t] \/ req[t].op = "none"

Basic == TypeOK /\ Asked

LEMMA RequestFacts ==
  /\ \A t \in Thread : Calls[t] \subseteq Request
  /\ \A r \in Request : r.op \in {"add", "get", "del"}
  /\ \A r \in Request : r.op = "add" => r.arg \in Contacts
  /\ \A r \in Request : r.op # "add" => r.arg \in Surnames
  BY ContactsAssumption DEF Request

LEMMA CellFacts ==
  /\ UserCount \in Nat /\ UserCount > 0
  /\ 0 \in 0 .. UserCount /\ 0 \in 0 .. 4
  /\ \A i \in 0 .. UserCount : i < UserCount => i \in Cell /\ i + 1 \in 0 .. UserCount
  /\ \A i \in Cell : i + 1 \in 0 .. UserCount /\ i \in 0 .. UserCount /\ i < UserCount /\ i \in Int
  BY ContactsAssumption DEF Cell

LEMMA Below ==
  ASSUME NEW j \in Cell
  PROVE  \A i \in Cell : i < j + 1 => i < j \/ i = j
  BY CellFacts

LEMMA InitTyped == Init => Basic
  <1> SUFFICES ASSUME Init PROVE Basic
    OBVIOUS
  <1>1. /\ index \in [Thread -> 0 .. UserCount] /\ field \in [Thread -> 0 .. 4]
        /\ calm \in [Thread -> BOOLEAN]
    BY CellFacts DEF Init
  <1>2. /\ users \in [Cell -> [Fields -> Contacts \cup {Nobody}]]
        /\ out \in [Thread -> [Fields -> Contacts \cup {Nobody}]]
    BY DEF Init, Blank
  <1>3. /\ req \in [Thread -> Request \cup {[op |-> "none"]}]
        /\ \A t \in Thread : req[t].op = "none"
    BY DEF Init
  <1>4. TypeOK
    BY <1>1, <1>2, <1>3 DEF Init, TypeOK
  <1>5. Asked
    BY <1>3 DEF Init, Asked
  <1> QED
    BY <1>4, <1>5 DEF Basic

LEMMA ReturnTyped ==
  ASSUME Basic, NEW t \in Thread, NEW r \in {"ok", "refused", "full", "too long", "not found", "fault"},
         Return(t, r), UNCHANGED req
  PROVE  /\ Asked'
         /\ pc' \in [Thread -> Places]
         /\ index' \in [Thread -> 0 .. UserCount] /\ field' \in [Thread -> 0 .. 4]
         /\ reply' \in [Thread -> {"none", "ok", "refused", "full", "too long", "not found", "fault"}]
  <1>1. 0 \in 0 .. UserCount /\ 0 \in 0 .. 4
    BY CellFacts
  <1>2. Asked'
    BY DEF Basic, TypeOK, Asked, Return
  <1> QED
    BY <1>1, <1>2 DEF Basic, TypeOK, Return, Places

LEMMA TableTyped ==
  ASSUME Basic
  PROVE  /\ users \in [Cell -> [Fields -> Contacts \cup {Nobody}]]
         /\ status \in [Cell -> {"0", "f", "t"}]
         /\ out \in [Thread -> [Fields -> Contacts \cup {Nobody}]]
         /\ pc \in [Thread -> Places]
         /\ index \in [Thread -> 0 .. UserCount] /\ field \in [Thread -> 0 .. 4]
         /\ \A i \in Cell, f \in Fields : users[i][f] \in Contacts \cup {Nobody}
  <1>1. /\ users \in [Cell -> [Fields -> Contacts \cup {Nobody}]]
        /\ status \in [Cell -> {"0", "f", "t"}]
        /\ out \in [Thread -> [Fields -> Contacts \cup {Nobody}]]
        /\ pc \in [Thread -> Places]
        /\ index \in [Thread -> 0 .. UserCount] /\ field \in [Thread -> 0 .. 4]
    BY DEF Basic, TypeOK, Places
  <1>2. \A i \in Cell, f \in Fields : users[i][f] \in Contacts \cup {Nobody}
    BY <1>1
  <1> QED
    BY <1>1, <1>2

(* A thread inside a call goes to another place in it.                     *)
LEMMA MoveTyped ==
  ASSUME Basic, NEW t \in Thread, pc[t] # "idle", pc'[t] # "idle",
         pc' \in [Thread -> Places],
         index' \in [Thread -> 0 .. UserCount], field' \in [Thread -> 0 .. 4],
         \A u \in Thread \ {t} : pc'[u] = pc[u] /\ index'[u] = index[u] /\ field'[u] = field[u],
         UNCHANGED <<req, reply, calm, initialized>>,
         pc'[t] \in {"fill", "take"} => req[t].op = "add",
         pc'[t] = "match" => req[t].op \in {"get", "del"},
         pc'[t] = "drop" => req[t].op = "del",
         pc'[t] = "out" => req[t].op = "get",
         pc'[t] \in {"fill", "take", "match", "drop", "out"} => index'[t] \in Cell,
         pc'[t] \notin {"fill", "take", "out"} => field'[t] = 0,
         pc'[t] \in {"fill", "out"} => field'[t] \in 0 .. 3,
         pc'[t] \notin {"wipe", "scan", "fill", "take", "match", "drop", "out"} => index'[t] = 0,
         users' \in [Cell -> [Fields -> Contacts \cup {Nobody}]],
         status' \in [Cell -> {"0", "f", "t"}],
         out' \in [Thread -> [Fields -> Contacts \cup {Nobody}]]
  PROVE  Basic'
  <1>1. TypeOK'
    BY DEF Basic, TypeOK, Places
  <1>2. Asked'
    BY DEF Basic, Asked
  <1> QED
    BY <1>1, <1>2 DEF Basic

LEMMA CallTyped ==
  ASSUME Basic, NEW t \in Thread, Call(t)
  PROVE  Basic'
  <1>1. PICK r \in Calls[t] : req' = [req EXCEPT ![t] = r]
    BY DEF Call
  <1>2. r \in Request
    BY <1>1, RequestFacts
  <1>3. TypeOK'
    BY <1>1, <1>2 DEF Call, Go, shared, Blank, Basic, TypeOK
  <1>4. Asked'
    BY <1>1 DEF Call, Go, shared, Basic, TypeOK, Asked
  <1> QED
    BY <1>3, <1>4 DEF Basic

LEMMA EarlyTyped ==
  ASSUME Basic, NEW t \in Thread, (Check(t) \/ Wipe(t) \/ Enter(t)) /\ UNCHANGED calm
  PROVE  Basic'
  <1>1. CASE Check(t)
    BY <1>1 DEF Check, Go, shared, Basic, TypeOK, Asked
  <1>2. CASE Wipe(t) /\ index[t] < UserCount
    <2>1. index[t] + 1 \in 0 .. UserCount
      BY <1>2, CellFacts DEF Basic, TypeOK
    <2>2. /\ pc[t] = "wipe" /\ index' = [index EXCEPT ![t] = @ + 1]
          /\ status' = [status EXCEPT ![index[t]] = "f"]
          /\ UNCHANGED <<users, initialized, pc, req, field, out, reply, calm>>
      BY <1>2 DEF Wipe
    <2>3. TypeOK'
      BY <2>1, <2>2 DEF Basic, TypeOK
    <2>4. Asked'
      BY <2>2 DEF Basic, TypeOK, Asked
    <2> QED
      BY <2>3, <2>4 DEF Basic
  <1>3. CASE Wipe(t) /\ ~ (index[t] < UserCount)
    <2>1. 0 \in 0 .. UserCount
      BY CellFacts
    <2>2. /\ pc[t] = "wipe" /\ pc' = [pc EXCEPT ![t] = "enter"]
          /\ index' = [index EXCEPT ![t] = 0]
          /\ initialized' = TRUE
          /\ UNCHANGED <<users, status, req, field, out, reply, calm>>
      BY <1>3 DEF Wipe, Go
    <2>3. TypeOK'
      BY <2>1, <2>2 DEF Basic, TypeOK
    <2>4. Asked'
      BY <2>2 DEF Basic, TypeOK, Asked
    <2> QED
      BY <2>3, <2>4 DEF Basic
  <1>4. CASE Enter(t)
    <2>1. CASE Go(t, "enter", "scan") /\ UNCHANGED <<index, field, reply>>
      BY <1>4, <2>1 DEF Enter, Go, shared, Basic, TypeOK, Asked
    <2>2. CASE Return(t, "refused")
      BY <1>4, <2>2, ReturnTyped DEF Enter, shared, Basic, TypeOK, Places
    <2> QED
      BY <1>4, <2>1, <2>2 DEF Enter
  <1> QED
    BY <1>1, <1>2, <1>3, <1>4

LEMMA ScanTyped ==
  ASSUME Basic, NEW t \in Thread, (Scan(t) \/ Match(t)) /\ UNCHANGED calm
  PROVE  Basic'
  <1>1. CASE Scan(t) /\ index[t] >= UserCount
    BY <1>1, ReturnTyped DEF Scan, shared, Basic, TypeOK, Places
  <1>2. CASE Scan(t) /\ ~ (index[t] >= UserCount)
    <2>1. index[t] \in Cell /\ index[t] + 1 \in 0 .. UserCount
      <3>1. index[t] \in 0 .. UserCount
        BY DEF Basic, TypeOK
      <3>2. index[t] < UserCount
        BY <1>2, <3>1, CellFacts
      <3> QED
        BY <3>1, <3>2, CellFacts
    <2>2. /\ pc[t] = "scan" /\ field[t] = 0 /\ req[t].op \in {"add", "get", "del"}
          /\ index = [index EXCEPT ![t] = index[t]] /\ field = [field EXCEPT ![t] = 0]
          /\ pc = [pc EXCEPT ![t] = "scan"]
      BY <1>2, RequestFacts DEF Scan, Basic, TypeOK, Asked
    <2>3. UNCHANGED <<users, status, initialized, req, out, calm, field, reply>>
      BY <1>2 DEF Scan, shared
    <2>4. CASE Go(t, "scan", IF Adds(t) THEN "fill" ELSE "match") /\ UNCHANGED index
      <3>1. PICK to \in {"fill", "match"} :
              pc' = [pc EXCEPT ![t] = to] /\ (to = "fill" <=> req[t].op = "add")
        BY <2>4 DEF Go, Adds
      <3> QED
        BY <2>1, <2>2, <2>3, <2>4, <3>1, TableTyped, MoveTyped, CellFacts DEF Places
    <2>5. CASE index' = [index EXCEPT ![t] = @ + 1] /\ UNCHANGED pc
      BY <2>1, <2>2, <2>3, <2>5, TableTyped, MoveTyped, CellFacts DEF Places
    <2> QED
      BY <1>2, <2>4, <2>5 DEF Scan
  <1>3. CASE Match(t)
    <2>1. /\ index[t] + 1 \in 0 .. UserCount /\ index[t] \in 0 .. UserCount
          /\ req[t].op \in {"get", "del"} /\ index[t] \in Cell
          /\ pc[t] = "match" /\ field[t] = 0
          /\ index = [index EXCEPT ![t] = index[t]] /\ field = [field EXCEPT ![t] = 0]
      BY <1>3, CellFacts DEF Match, Basic, TypeOK, Asked
    <2>2. UNCHANGED <<users, status, initialized, req, out, calm, field, reply>>
      BY <1>3 DEF Match, shared
    <2>3. CASE HasSurname(index[t], req[t].arg)
      <3>1. PICK to \in {"out", "drop"} :
              pc' = [pc EXCEPT ![t] = to] /\ (to = "out" <=> req[t].op = "get") /\ index' = index
        BY <1>3, <2>3 DEF Match, Go
      <3> QED
        BY <2>1, <2>2, <3>1, TableTyped, MoveTyped, CellFacts DEF Places
    <2>4. CASE ~ HasSurname(index[t], req[t].arg)
      <3>1. pc' = [pc EXCEPT ![t] = "scan"] /\ index' = [index EXCEPT ![t] = @ + 1]
        BY <1>3, <2>4 DEF Match, Go
      <3> QED
        BY <2>1, <2>2, <3>1, TableTyped, MoveTyped, CellFacts DEF Places
    <2> QED
      BY <2>3, <2>4
  <1> QED
    BY <1>1, <1>2, <1>3

LEMMA FieldsTyped ==
  ASSUME Basic, NEW t \in Thread, (Fill(t) \/ Out(t)) /\ UNCHANGED calm
  PROVE  Basic'
  <1>1. field[t] \in 0 .. 3 /\ index[t] \in Cell
    BY DEF Fill, Out, Basic, Asked
  <1>2. field[t] + 1 \in Slot /\ field[t] + 1 \in 0 .. 4 /\ (field[t] + 1 # 4 => field[t] + 1 \in 0 .. 3)
    BY <1>1 DEF Slot
  <1>3. /\ FillOrder[field[t] + 1] \in Fields /\ OutOrder[field[t] + 1] \in Fields
        /\ Len(FillOrder) = 4 /\ Len(OutOrder) = 4
    BY <1>2, Orders
  <1>4. index = [index EXCEPT ![t] = index[t]] /\ index[t] \in 0 .. UserCount
    BY DEF Basic, TypeOK
  <1>5. CASE Fill(t)
    <2>1. CASE Return(t, "too long") /\ UNCHANGED users
      BY <1>5, <2>1, ReturnTyped DEF Fill, Basic, TypeOK, Places
    <2>2. CASE /\ users' = [users EXCEPT ![index[t]][FillOrder[field[t] + 1]] = req[t].arg]
               /\ field' = [field EXCEPT ![t] = @ + 1]
               /\ pc' = [pc EXCEPT ![t] = IF field[t] + 1 = 4 THEN "take" ELSE @]
               /\ UNCHANGED <<index, reply>>
      <3>1. /\ pc[t] = "fill" /\ req[t].op = "add" /\ req[t].arg \in Contacts
            /\ UNCHANGED <<status, initialized, req, out, calm>>
        BY <1>5, RequestFacts DEF Fill, Basic, TypeOK, Asked
      <3>2. users' \in [Cell -> [Fields -> Contacts \cup {Nobody}]]
        BY <1>1, <1>3, <2>2, <3>1 DEF Basic, TypeOK
      <3>3. PICK to \in {"fill", "take"} :
              pc' = [pc EXCEPT ![t] = to] /\ (to = "fill" => field[t] + 1 # 4)
        BY <2>2, <3>1
      <3> QED
        BY <1>1, <1>2, <1>4, <2>2, <3>1, <3>2, <3>3, TableTyped, MoveTyped DEF Places
    <2> QED
      BY <1>3, <1>5, <2>1, <2>2 DEF Fill
  <1>6. CASE Out(t)
    <2>1. UNCHANGED <<users, status, initialized, req, calm>> /\ pc[t] = "out" /\ req[t].op = "get"
      BY <1>6 DEF Out, shared, Basic, Asked
    <2>2. CASE Return(t, "fault") /\ UNCHANGED out
      BY <2>1, <2>2, ReturnTyped DEF Basic, TypeOK, Places
    <2>3. CASE /\ out' = [out EXCEPT ![t][OutOrder[field[t] + 1]] = users[index[t]][OutOrder[field[t] + 1]]]
               /\ IF field[t] + 1 = 4
                  THEN Return(t, "ok")
                  ELSE field' = [field EXCEPT ![t] = @ + 1] /\ UNCHANGED <<pc, index, reply>>
      <3>1. users[index[t]][OutOrder[field[t] + 1]] \in Contacts \cup {Nobody}
        BY <1>1, <1>3, TableTyped
      <3>2. out' \in [Thread -> [Fields -> Contacts \cup {Nobody}]]
        BY <1>3, <2>3, <3>1 DEF Basic, TypeOK
      <3>3. CASE Return(t, "ok")
        BY <2>1, <3>2, <3>3, ReturnTyped DEF Basic, TypeOK, Places
      <3>4. CASE field[t] + 1 # 4
        <4>1. pc' = [pc EXCEPT ![t] = "out"] /\ index' = index /\ reply' = reply
          BY <2>1, <2>3, <3>4 DEF Basic, TypeOK
        <4>2. field' = [field EXCEPT ![t] = @ + 1]
          BY <2>3, <3>4
        <4>3. pc'[t] = "out" /\ index'[t] = index[t] /\ field'[t] = field[t] + 1
              /\ field' \in [Thread -> 0 .. 4]
          BY <1>2, <4>1, <4>2, TableTyped
        <4> QED
          BY <1>1, <1>2, <2>1, <3>2, <3>4, <4>1, <4>2, <4>3, TableTyped, MoveTyped DEF Places
      <3> QED
        BY <2>3, <3>3, <3>4
    <2> QED
      BY <1>3, <1>6, <2>2, <2>3 DEF Out
  <1> QED
    BY <1>5, <1>6

LEMMA StatusTyped ==
  ASSUME Basic, NEW t \in Thread, (Take(t) /\ UNCHANGED calm) \/ Drop(t)
  PROVE  Basic'
  <1>1. Asked' /\ Return(t, "ok")
    BY ReturnTyped DEF Take, Drop
  <1>2. calm' \in [Thread -> BOOLEAN]
    BY DEF Drop, Basic, TypeOK
  <1> QED
    BY <1>1, <1>2, ReturnTyped DEF Take, Drop, Basic, TypeOK, Places

LEMMA NextTyped ==
  ASSUME Basic, [Next]_vars
  PROVE  Basic'
  <1>1. CASE UNCHANGED vars
    BY <1>1 DEF vars, shared, Basic, TypeOK, Asked
  <1> QED
    BY <1>1, CallTyped, EarlyTyped, ScanTyped, FieldsTyped, StatusTyped DEF Next, Step

(* Every cell, loop variable and answer stays in its range, for any number *)
(* of threads that call anything at any time (the loops of storage.c).     *)
THEOREM CallsTyped == Spec => []TypeOK
  <1>1. Init => Basic
    BY InitTyped
  <1>2. Basic /\ [Next]_vars => Basic'
    BY NextTyped
  <1>3. Basic => TypeOK
    BY DEF Basic
  <1> QED
    BY <1>1, <1>2, <1>3, PTL DEF Spec

-----------------------------------------------------------------------------
(* One thread writes, and the first call of all is alone.                  *)

OnlyWriter(w) ==
  BootAlone /\ \A t \in Thread \ {w} : \A r \in Calls[t] : r.op = "get"

Boot ==
  /\ ~ initialized =>
       /\ \A t, u \in Thread : pc[t] # "idle" /\ pc[u] # "idle" => t = u
       /\ \A t \in Thread : pc[t] \in {"idle", "check", "wipe"} /\ reply[t] = "none"
       /\ \A i \in Cell : status[i] # "t"
  /\ initialized => (\A t \in Thread : pc[t] # "wipe") /\ (\A i \in Cell : status[i] # "0")
  /\ \A t \in Thread : pc[t] = "wipe" => \A i \in Cell : i < index[t] => status[i] = "f"

LEMMA NextBoot ==
  ASSUME Basic, Boot, BootAlone, [Next]_vars
  PROVE  Boot'
  <1> USE DEF Boot, Go
  <1>1. CASE UNCHANGED vars
    BY <1>1 DEF vars, shared
  <1>2. ASSUME NEW t \in Thread, Call(t)
        PROVE  Boot'
    <2>1. /\ UNCHANGED <<status, initialized>>
          /\ pc' = [pc EXCEPT ![t] = "check"] /\ reply' = [reply EXCEPT ![t] = "none"]
          /\ BootAlone /\ ~ initialized => \A u \in Thread : pc[u] = "idle"
      BY <1>2 DEF Call, MayCall, shared
    <2>2. \A u \in Thread : u # t => pc'[u] = pc[u] /\ reply'[u] = reply[u]
      BY <2>1
    <2>3. pc'[t] = "check" /\ reply'[t] = "none"
      BY <2>1, TableTyped DEF Basic, TypeOK
    <2>4. CASE initialized
      BY <1>2, <2>1, <2>2, <2>3, <2>4 DEF Call
    <2>5. CASE ~ initialized
      BY <2>1, <2>2, <2>3, <2>5
    <2> QED
      BY <2>4, <2>5
  <1>3. ASSUME NEW t \in Thread, Check(t)
        PROVE  Boot'
    <2>1. /\ UNCHANGED <<status, initialized, reply, index>> /\ pc[t] = "check" /\ index[t] = 0
          /\ pc' = [pc EXCEPT ![t] = IF initialized THEN "enter" ELSE "wipe"]
      BY <1>3 DEF Check, shared, Basic, Asked
    <2>2. \A i \in Cell : ~ (i < 0)
      BY DEF Cell
    <2>3. \A u \in Thread : u # t => pc'[u] = pc[u]
      BY <2>1
    <2>4. pc'[t] = IF initialized THEN "enter" ELSE "wipe"
      BY <2>1, TableTyped
    <2> QED
      BY <2>1, <2>2, <2>3, <2>4
  <1>4. ASSUME NEW t \in Thread, Wipe(t)
        PROVE  Boot'
    <2>1. CASE index[t] < UserCount
      <3>1. /\ UNCHANGED <<pc, reply, initialized>> /\ pc[t] = "wipe" /\ ~ initialized
            /\ status' = [status EXCEPT ![index[t]] = "f"]
            /\ index' = [index EXCEPT ![t] = @ + 1]
        BY <1>4, <2>1 DEF Wipe
      <3>2. index[t] \in Cell
        BY <2>1, TableTyped, CellFacts
      <3>3. \A i \in Cell : i < index[t] + 1 => i < index[t] \/ i = index[t]
        BY <3>2 DEF Cell
      <3>4. \A i \in Cell : status'[i] = (IF i = index[t] THEN "f" ELSE status[i])
        BY <3>1, <3>2, TableTyped
      <3>5. index'[t] = index[t] + 1
        BY <3>1, TableTyped
      <3>6. \A i \in Cell : i < index'[t] => status'[i] = "f"
        BY <3>1, <3>3, <3>4, <3>5
      <3>7. \A u \in Thread : pc[u] = "wipe" => u = t
        BY <3>1
      <3> QED
        BY <3>1, <3>4, <3>6, <3>7
    <2>2. CASE ~ (index[t] < UserCount)
      <3>1. initialized' = TRUE /\ pc[t] = "wipe" /\ pc' = [pc EXCEPT ![t] = "enter"]
        BY <1>4, <2>2 DEF Wipe
      <3>2. ~ initialized
        BY <3>1
      <3>3. \A u \in Thread \ {t} : pc[u] = "idle"
        BY <3>1, <3>2
      <3>4. \A u \in Thread : pc'[u] # "wipe"
        BY <3>1, <3>3, TableTyped
      <3>5. \A i \in Cell : i < index[t]
        BY <2>2, TableTyped, CellFacts
      <3>6. \A i \in Cell : status'[i] = "f"
        BY <1>4, <2>2, <3>1, <3>5 DEF Wipe
      <3> QED
        BY <3>1, <3>4, <3>6
    <2> QED
      BY <2>1, <2>2
  <1>5. ASSUME NEW t \in Thread,
               \/ Enter(t) \/ Scan(t) \/ Fill(t) \/ Take(t) \/ Match(t) \/ Out(t) \/ Drop(t)
        PROVE  Boot'
    <2>1. pc[t] \notin {"idle", "check", "wipe"} /\ initialized' = initialized
      BY <1>5 DEF Enter, Scan, Fill, Take, Match, Out, Drop, shared
    <2>2. initialized
      BY <2>1
    <2>3. \A u \in Thread : pc'[u] # "wipe"
      BY <1>5, <2>2, TableTyped DEF Enter, Scan, Fill, Take, Match, Out, Drop, Return
    <2>4. \A i \in Cell : status'[i] # "0"
      BY <1>5, <2>2, TableTyped DEF Enter, Scan, Fill, Take, Match, Out, Drop, shared
    <2> QED
      BY <2>1, <2>2, <2>3, <2>4
  <1> QED
    BY <1>1, <1>2, <1>3, <1>4, <1>5 DEF Next, Step

LEMMA InitBoot == Init => Boot
  BY DEF Init, Boot

-----------------------------------------------------------------------------
(* The writer.                                                             *)

Whole == \A i \in Cell : status[i] = "t" => \E c \in Contacts : Holds(i, c)

(* What the writer knows of the cells it has passed, of the cell it is at, *)
(* of the contact it fills in, and what it said last.                      *)
Passed(w) ==
  /\ pc[w] \in {"scan", "fill", "take"} /\ Adds(w) =>
       \A i \in Cell : i < index[w] => status[i] = "t"
  /\ pc[w] \in {"scan", "match", "drop"} /\ req[w].op = "del" =>
       \A i \in Cell : i < index[w] /\ status[i] = "t" => ~ HasSurname(i, req[w].arg)

There(w) ==
  /\ pc[w] \in {"fill", "take"} => status[index[w]] = "f"
  /\ pc[w] \in {"match", "drop"} => status[index[w]] = "t"
  /\ pc[w] = "drop" => HasSurname(index[w], req[w].arg)

Copied(w) ==
  /\ pc[w] = "fill" => \A k \in 1 .. field[w] : users[index[w]][FillOrder[k]] = req[w].arg
  /\ pc[w] = "take" => \A f \in Fields : users[index[w]][f] = req[w].arg

Said(w) ==
  /\ Returned(w, "add", "ok") => \E i \in Cell : Holds(i, req[w].arg)
  /\ Returned(w, "add", "full") => \A i \in Cell : status[i] = "t"
  /\ Returned(w, "del", "not found") =>
       \A i \in Cell : status[i] = "t" => ~ HasSurname(i, req[w].arg)

Writing(w) == Passed(w) /\ There(w) /\ Copied(w) /\ Said(w)

Kempt(w) == Whole /\ Writing(w)

LEMMA WriterAlone ==
  ASSUME NEW w \in Thread, OnlyWriter(w), Basic, NEW t \in Thread,
         Fill(t) \/ Take(t) \/ Drop(t)
  PROVE  t = w
  <1>1. req[t] \in Calls[t] /\ req[t].op # "get"
    BY DEF Fill, Take, Drop, Basic, Asked
  <1> QED
    BY <1>1 DEF OnlyWriter

LEMMA OtherKempt ==
  ASSUME NEW w \in Thread, Kempt(w), UNCHANGED <<users, status>>,
         pc'[w] = pc[w], req'[w] = req[w], index'[w] = index[w], field'[w] = field[w],
         reply'[w] = reply[w]
  PROVE  Kempt(w)'
  <1>1. Whole'
    BY DEF Kempt, Whole, Holds
  <1>2. users' = users /\ status' = status
    OBVIOUS
  <1>3. Passed(w)'
    BY <1>2 DEF Kempt, Writing, Passed, HasSurname, Adds
  <1>4. There(w)'
    BY <1>2 DEF Kempt, Writing, There, HasSurname
  <1>5. Copied(w)'
    BY <1>2 DEF Kempt, Writing, Copied
  <1>6. Said(w)'
    BY <1>2 DEF Kempt, Writing, Said, Returned, Holds, HasSurname
  <1> QED
    BY <1>1, <1>3, <1>4, <1>5, <1>6 DEF Kempt, Writing

LEMMA BootKempt ==
  ASSUME NEW w \in Thread, Basic, Boot, Kempt(w), NEW t \in Thread, Wipe(t)
  PROVE  Kempt(w)'
  <1>1. pc[t] = "wipe" /\ ~ initialized /\ UNCHANGED <<users, req, reply>>
    BY DEF Wipe, Boot
  <1>2. \A i \in Cell : status'[i] # "t"
    BY <1>1, TableTyped DEF Wipe, Boot
  <1>3. pc'[w] \in {"idle", "check", "wipe", "enter"} /\ reply'[w] = "none"
    BY <1>1, TableTyped DEF Wipe, Go, Boot
  <1> QED
    BY <1>2, <1>3 DEF Kempt, Whole, Writing, Passed, There, Copied, Said, Returned

LEMMA CallKempt ==
  ASSUME NEW w \in Thread, Basic, Kempt(w), Call(w) \/ Check(w) \/ Enter(w)
  PROVE  Kempt(w)'
  <1>1. UNCHANGED <<users, status>>
    BY DEF Call, Check, Enter, shared
  <1>2. /\ pc'[w] \in {"check", "enter", "wipe", "scan", "idle"}
        /\ pc'[w] = "idle" => reply'[w] = "refused"
        /\ pc'[w] = "scan" => index'[w] = 0
    BY TableTyped DEF Call, Check, Enter, Go, Return, Basic, TypeOK, Asked
  <1>3. \A i \in Cell : ~ (i < 0)
    BY DEF Cell
  <1> QED
    BY <1>1, <1>2, <1>3 DEF Kempt, Whole, Writing, Passed, There, Copied, Said, Holds, Returned

LEMMA ScanKempt ==
  ASSUME NEW w \in Thread, Basic, Boot, Kempt(w), Scan(w)
  PROVE  Kempt(w)'
  <1>1. /\ UNCHANGED <<users, status, req>> /\ pc[w] = "scan" /\ field[w] = 0
        /\ index[w] \in 0 .. UserCount
    BY TableTyped DEF Scan, shared, Basic, Asked
  <1>2. Whole'
    BY <1>1 DEF Kempt, Whole, Holds
  <1>3. CASE index[w] >= UserCount
    <2>1. pc'[w] = "idle" /\ reply'[w] = (IF Adds(w) THEN "full" ELSE "not found")
      BY <1>3, TableTyped DEF Scan, Return, Basic, TypeOK
    <2>2. \A i \in Cell : i < index[w]
      BY <1>1, <1>3, CellFacts DEF Cell
    <2>3. Writing(w)'
      BY <1>1, <2>1, <2>2 DEF Kempt, Writing, Passed, There, Copied, Said, Returned, Adds, HasSurname
    <2> QED
      BY <1>2, <2>3 DEF Kempt
  <1>4. CASE ~ (index[w] >= UserCount) /\ status[index[w]] = (IF Adds(w) THEN "f" ELSE "t")
    <2>1. /\ pc'[w] = (IF Adds(w) THEN "fill" ELSE "match") /\ index'[w] = index[w] /\ field'[w] = 0
      BY <1>1, <1>4, TableTyped DEF Scan, Go
    <2>2. Writing(w)'
      BY <1>1, <1>4, <2>1 DEF Kempt, Writing, Passed, There, Copied, Said, Returned, Adds, HasSurname
    <2> QED
      BY <1>2, <2>2 DEF Kempt
  <1>5. CASE ~ (index[w] >= UserCount) /\ status[index[w]] # (IF Adds(w) THEN "f" ELSE "t")
    <2>1. pc'[w] = "scan" /\ index'[w] = index[w] + 1
      BY <1>1, <1>5, TableTyped DEF Scan
    <2>2. \A i \in Cell : i < index[w] + 1 => i < index[w] \/ i = index[w]
      BY <1>1 DEF Cell
    <2>3. index[w] \in Cell
      BY <1>1, <1>5, CellFacts
    <2>4. status[index[w]] = (IF Adds(w) THEN "t" ELSE "f")
      BY <1>1, <1>5, <2>3, TableTyped DEF Boot
    <2>5. Writing(w)'
      BY <1>1, <2>1, <2>2, <2>4 DEF Kempt, Writing, Passed, There, Copied, Said, Returned, Adds, HasSurname
    <2> QED
      BY <1>2, <2>5 DEF Kempt
  <1> QED
    BY <1>3, <1>4, <1>5

LEMMA MatchKempt ==
  ASSUME NEW w \in Thread, Basic, Kempt(w), Match(w) \/ Out(w)
  PROVE  Kempt(w)'
  <1> USE DEF Kempt, Writing, Passed, There, Copied, Said
  <1>1. /\ UNCHANGED <<users, status, req>> /\ req[w].op \in {"get", "del"}
        /\ index[w] \in Cell /\ pc[w] \in {"match", "out"}
        /\ pc[w] = "out" => req[w].op = "get"
    BY DEF Match, Out, shared, Basic, Asked
  <1>2. Whole'
    BY <1>1 DEF Whole, Holds
  <1>3. CASE Match(w) /\ HasSurname(index[w], req[w].arg)
    <2>1. /\ pc'[w] = (IF req[w].op = "get" THEN "out" ELSE "drop") /\ index'[w] = index[w]
          /\ pc[w] = "match"
      BY <1>3, TableTyped DEF Match, Go
    <2> QED
      BY <1>1, <1>2, <1>3, <2>1 DEF Returned, Adds, HasSurname
  <1>4. CASE Match(w) /\ ~ HasSurname(index[w], req[w].arg)
    <2>1. pc'[w] = "scan" /\ index'[w] = index[w] + 1 /\ pc[w] = "match"
      BY <1>4, TableTyped DEF Match, Go
    <2>2. \A i \in Cell : i < index[w] + 1 => i < index[w] \/ i = index[w]
      BY <1>1, Below
    <2> QED
      BY <1>1, <1>2, <1>4, <2>1, <2>2 DEF Returned, Adds, HasSurname
  <1>5. CASE Out(w)
    <2>1. pc'[w] \in {"out", "idle"} /\ req[w].op = "get"
      BY <1>1, <1>5, TableTyped DEF Out, Return
    <2> QED
      BY <1>1, <1>2, <2>1 DEF Returned
  <1> QED
    BY <1>3, <1>4, <1>5

LEMMA FillKempt ==
  ASSUME NEW w \in Thread, Basic, Kempt(w), Fill(w)
  PROVE  Kempt(w)'
  <1> DEFINE c == index[w]
             f == FillOrder[field[w] + 1]
  <1>1. /\ UNCHANGED <<status, req>> /\ pc[w] = "fill" /\ req[w].op = "add" /\ c \in Cell
        /\ status[c] = "f" /\ field[w] \in 0 .. 3 /\ field[w] + 1 \in Slot /\ f \in Fields
        /\ \A k \in 1 .. field[w] : users[c][FillOrder[k]] = req[w].arg
        /\ \A i \in Cell : i < c => status[i] = "t"
    <2>1. pc[w] = "fill" /\ UNCHANGED <<status, req>> /\ req[w].op = "add"
      BY DEF Fill, Basic, Asked
    <2>2. c \in Cell /\ field[w] \in 0 .. 3
      BY <2>1 DEF Basic, Asked
    <2>3. field[w] + 1 \in Slot
      BY <2>2 DEF Slot
    <2> QED
      BY <2>1, <2>2, <2>3, Orders DEF Kempt, Writing, Passed, There, Copied, Adds
  <1>2. CASE Return(w, "too long") /\ UNCHANGED users
    <2>1. pc'[w] = "idle" /\ reply'[w] = "too long"
      BY <1>2, TableTyped DEF Return, Basic, TypeOK
    <2> QED
      BY <1>1, <1>2, <2>1 DEF Kempt, Writing, Passed, There, Copied, Said, Whole, Holds, Returned
  <1>3. CASE /\ users' = [users EXCEPT ![c][f] = req[w].arg]
             /\ field' = [field EXCEPT ![w] = @ + 1]
             /\ pc' = [pc EXCEPT ![w] = IF field[w] + 1 = 4 THEN "take" ELSE @]
             /\ UNCHANGED <<index, reply>>
    <2>1. /\ pc'[w] = (IF field[w] + 1 = 4 THEN "take" ELSE "fill")
          /\ field'[w] = field[w] + 1 /\ index' = index
      BY <1>1, <1>3, TableTyped
    <2>2. \A i \in Cell : i # c => users'[i] = users[i]
      BY <1>3, TableTyped
    <2>3. users'[c][f] = req[w].arg /\ \A g \in Fields : g # f => users'[c][g] = users[c][g]
      BY <1>1, <1>3, TableTyped
    <2>4. \A k \in 1 .. field[w] + 1 : users'[c][FillOrder[k]] = req[w].arg
      <3> SUFFICES ASSUME NEW k \in 1 .. field[w] + 1
                   PROVE  users'[c][FillOrder[k]] = req[w].arg
        OBVIOUS
      <3>1. k \in Slot /\ (k \in 1 .. field[w] \/ k = field[w] + 1)
        BY <1>1 DEF Slot
      <3>2. FillOrder[k] \in Fields
        BY <3>1, Orders
      <3> QED
        BY <1>1, <2>3, <3>1, <3>2
    <2>5. Whole'
      BY <1>1, <2>2 DEF Kempt, Whole, Holds
    <2>6. Passed(w)' /\ There(w)' /\ Said(w)'
      BY <1>1, <2>1 DEF Passed, There, Said, Returned, Adds
    <2>7. pc'[w] = "take" => \A g \in Fields : users'[c][g] = req[w].arg
      <3> SUFFICES ASSUME pc'[w] = "take", NEW g \in Fields
                   PROVE  users'[c][g] = req[w].arg
        OBVIOUS
      <3>1. field[w] + 1 = 4
        BY <2>1
      <3>2. PICK k \in Slot : FillOrder[k] = g
        BY Orders
      <3>3. k \in 1 .. field[w] + 1
        BY <3>1 DEF Slot
      <3> QED
        BY <2>4, <3>2, <3>3
    <2>8. Copied(w)'
      BY <1>1, <2>1, <2>4, <2>7 DEF Copied
    <2> QED
      BY <2>5, <2>6, <2>8 DEF Kempt, Writing
  <1> QED
    BY <1>2, <1>3, Orders DEF Fill

LEMMA TakeKempt ==
  ASSUME NEW w \in Thread, Basic, Kempt(w), Take(w) \/ Drop(w)
  PROVE  Kempt(w)'
  <1>1. /\ UNCHANGED <<users, req>> /\ index[w] \in Cell
        /\ pc'[w] = "idle" /\ reply'[w] = "ok"
    BY TableTyped DEF Take, Drop, Return, Basic, TypeOK, Asked
  <1>2. Passed(w)' /\ There(w)' /\ Copied(w)'
    BY <1>1 DEF Passed, There, Copied
  <1>3. CASE Take(w)
    <2>1. /\ pc[w] = "take" /\ req[w].op = "add" /\ req[w].arg \in Contacts
          /\ \A f \in Fields : users[index[w]][f] = req[w].arg
          /\ status' = [status EXCEPT ![index[w]] = "t"]
      BY <1>3, RequestFacts DEF Take, Basic, Asked, Kempt, Writing, Copied
    <2>2. status'[index[w]] = "t" /\ \A f \in Fields : users'[index[w]][f] = req'[w].arg
      BY <1>1, <2>1, TableTyped
    <2>3. Whole'
      BY <1>1, <2>1, <2>2, TableTyped DEF Kempt, Whole, Holds
    <2>4. Said(w)'
      BY <1>1, <2>1, <2>2 DEF Said, Returned, Holds
    <2> QED
      BY <1>2, <2>3, <2>4 DEF Kempt, Writing
  <1>4. CASE Drop(w)
    <2>1. req[w].op = "del" /\ status' = [status EXCEPT ![index[w]] = "f"]
      BY <1>4 DEF Drop, Basic, Asked
    <2>2. Whole'
      BY <1>1, <2>1, TableTyped DEF Kempt, Whole, Holds
    <2>3. Said(w)'
      BY <1>1, <2>1 DEF Said, Returned
    <2> QED
      BY <1>2, <2>2, <2>3 DEF Kempt, Writing
  <1> QED
    BY <1>3, <1>4

LEMMA NextKempt ==
  ASSUME NEW w \in Thread, OnlyWriter(w), Basic, Boot, Kempt(w), [Next]_vars
  PROVE  Kempt(w)'
  <1>1. CASE UNCHANGED vars
    BY <1>1, OtherKempt DEF vars, shared
  <1>2. ASSUME NEW t \in Thread, Wipe(t)
        PROVE  Kempt(w)'
    BY <1>2, BootKempt
  <1>3. ASSUME NEW t \in Thread, Call(t) \/ Check(t) \/ Enter(t) \/ Scan(t) \/ Match(t) \/ Out(t)
        PROVE  Kempt(w)'
    <2>1. CASE t = w
      BY <1>3, <2>1, CallKempt, ScanKempt, MatchKempt
    <2>2. CASE t # w
      <3>1. UNCHANGED <<users, status>>
        BY <1>3 DEF Call, Check, Enter, Scan, Match, Out, shared
      <3>2. /\ pc'[w] = pc[w] /\ req'[w] = req[w] /\ index'[w] = index[w] /\ field'[w] = field[w]
            /\ reply'[w] = reply[w]
        BY <1>3, <2>2 DEF Call, Check, Enter, Scan, Match, Out, Go, Return, shared, Basic, TypeOK
      <3> QED
        BY <3>1, <3>2, OtherKempt
    <2> QED
      BY <2>1, <2>2
  <1>4. ASSUME NEW t \in Thread, Fill(t) \/ Take(t) \/ Drop(t)
        PROVE  Kempt(w)'
    BY <1>4, WriterAlone, FillKempt, TakeKempt
  <1> QED
    BY <1>1, <1>2, <1>3, <1>4 DEF Next, Step

LEMMA InitKempt ==
  ASSUME NEW w \in Thread, Init
  PROVE  Kempt(w)
  BY DEF Init, Kempt, Whole, Writing, Passed, There, Copied, Said, Returned

LEMMA KemptInvariance ==
  ASSUME NEW w \in Thread, OnlyWriter(w)
  PROVE  Spec => [](Basic /\ Boot /\ Kempt(w))
  <1>1. Init => Basic /\ Boot /\ Kempt(w)
    BY InitTyped, InitBoot, InitKempt
  <1>2. Basic /\ Boot /\ Kempt(w) /\ [Next]_vars => (Basic /\ Boot /\ Kempt(w))'
    BY NextTyped, NextBoot, NextKempt DEF OnlyWriter
  <1> QED
    BY <1>1, <1>2, PTL DEF Spec

LEMMA OnlyWriterSays ==
  ASSUME NEW w \in Thread, OnlyWriter(w), Basic, NEW t \in Thread, req[t].op \in {"add", "del"}
  PROVE  t = w
  BY DEF OnlyWriter, Basic, Asked

(* A contact whose add_user returned 0 is in the table, whole, until its   *)
(* caller calls again, if nobody else writes and no other call begins      *)
(* while the first one initialises.                                        *)
LEMMA AddsAreStored ==
  ASSUME NEW w \in Thread, OnlyWriter(w)
  PROVE  Spec => []AddedIsStored
  <1>1. Basic /\ Boot /\ Kempt(w) => AddedIsStored
    BY OnlyWriterSays DEF AddedIsStored, Kempt, Writing, Said, Returned
  <1> QED
    BY <1>1, KemptInvariance, PTL

(* With one writer, add_user fails for want of room only when the table is *)
(* full, and del_user finds nothing only when there is nothing to find.    *)
THEOREM RefusalsAreTrue ==
  ASSUME NEW w \in Thread, OnlyWriter(w)
  PROVE  Spec => []RefusalIsTrue
  <1>1. Basic /\ Boot /\ Kempt(w) => RefusalIsTrue
    BY OnlyWriterSays DEF RefusalIsTrue, Kempt, Writing, Said, Returned
  <1> QED
    BY <1>1, KemptInvariance, PTL

-----------------------------------------------------------------------------
(* The readers.                                                            *)

(* A lookup that no deletion has crossed: its cell is still taken, and     *)
(* what it has copied out is what the cell holds.                          *)
Reading(t) ==
  calm[t] /\ req[t].op = "get" =>
    /\ pc[t] \in {"match", "out"} => status[index[t]] = "t"
    /\ pc[t] = "out" => HasSurname(index[t], req[t].arg)
    /\ pc[t] = "out" =>
         \A k \in 1 .. field[t] : out[t][OutOrder[k]] = users[index[t]][OutOrder[k]]
    /\ reply[t] = "ok" => OneContact(t)

(* What another thread does leaves a taken cell as it is.                  *)
LEMMA OtherReading ==
  ASSUME NEW t \in Thread, Basic, Reading(t),
         pc'[t] = pc[t], req'[t] = req[t], index'[t] = index[t], field'[t] = field[t],
         out'[t] = out[t], reply'[t] = reply[t], calm'[t] => calm[t],
         calm'[t] /\ pc[t] \in {"match", "out"} /\ req[t].op = "get" /\ status[index[t]] = "t" =>
           status'[index[t]] = "t" /\ users'[index[t]] = users[index[t]]
  PROVE  Reading(t)'
  <1> SUFFICES ASSUME calm'[t], req[t].op = "get"
               PROVE  /\ pc[t] \in {"match", "out"} => status'[index[t]] = "t"
                      /\ pc[t] = "out" => HasSurname(index[t], req[t].arg)'
                      /\ pc[t] = "out" =>
                           \A k \in 1 .. field[t] : out[t][OutOrder[k]] = users'[index[t]][OutOrder[k]]
                      /\ reply[t] = "ok" => OneContact(t)'
    BY DEF Reading, HasSurname
  <1>1. calm[t]
    OBVIOUS
  <1>2. OneContact(t)' <=> OneContact(t)
    BY DEF OneContact
  <1>3. CASE pc[t] \in {"match", "out"}
    <2>1. status[index[t]] = "t" /\ status'[index[t]] = "t" /\ users'[index[t]] = users[index[t]]
      BY <1>1, <1>3 DEF Reading
    <2> QED
      BY <1>1, <1>2, <2>1 DEF Reading, HasSurname
  <1>4. CASE pc[t] \notin {"match", "out"}
    BY <1>1, <1>2, <1>4 DEF Reading
  <1> QED
    BY <1>3, <1>4

LEMMA WriterReading ==
  ASSUME NEW w \in Thread, Basic, Kempt(w), NEW t \in Thread, Reading(t),
         (Fill(w) \/ Take(w)) /\ UNCHANGED calm
  PROVE  Reading(t)'
  <1>1. /\ pc[w] \in {"fill", "take"} /\ status[index[w]] = "f" /\ req[w].op = "add"
        /\ UNCHANGED <<req, out>> /\ index[w] \in Cell
    BY DEF Fill, Take, Basic, Asked, Kempt, Writing, There
  <1>2. CASE t = w
    BY <1>1, <1>2 DEF Reading
  <1>3. CASE t # w
    <2>1. /\ pc'[t] = pc[t] /\ index'[t] = index[t] /\ field'[t] = field[t] /\ reply'[t] = reply[t]
      BY <1>3 DEF Fill, Take, Return, Basic, TypeOK
    <2>2. \A i \in Cell : i # index[w] => users'[i] = users[i] /\ status'[i] = status[i]
      BY <1>1, TableTyped DEF Fill, Take
    <2>3. pc[t] \in {"match", "out"} => index[t] \in Cell
      BY DEF Basic, Asked
    <2> QED
      BY <1>1, <2>1, <2>2, <2>3, OtherReading
  <1> QED
    BY <1>2, <1>3

LEMMA OwnReading ==
  ASSUME NEW t \in Thread, Basic, Boot, Whole, Reading(t),
         \/ Call(t)
         \/ (Check(t) \/ Wipe(t) \/ Enter(t) \/ Scan(t) \/ Match(t)) /\ UNCHANGED calm
  PROVE  Reading(t)'
  <1>1. CASE Call(t) \/ Check(t) \/ Wipe(t) \/ Enter(t)
    <2>1. pc'[t] \notin {"match", "out"} /\ reply'[t] # "ok"
      <3>1. CASE Call(t)
        BY <3>1, TableTyped DEF Call, Go, Basic, TypeOK
      <3>2. CASE Check(t) \/ Wipe(t)
        BY <3>2, TableTyped DEF Check, Wipe, Go, Basic, Asked
      <3>3. CASE Enter(t)
        BY <3>3, TableTyped DEF Enter, Go, Return, Basic, TypeOK, Asked
      <3> QED
        BY <1>1, <3>1, <3>2, <3>3
    <2> QED
      BY <2>1 DEF Reading
  <1>2. CASE Scan(t)
    <2>1. UNCHANGED <<users, status, req, out, calm>> /\ pc[t] = "scan" /\ reply[t] = "none"
      BY <1>2 DEF Call, Check, Wipe, Enter, Match, Go, Scan, shared, Basic, Asked
    <2>2. CASE index[t] >= UserCount
      <3>1. pc'[t] = "idle" /\ reply'[t] \in {"full", "not found"}
        BY <1>2, <2>2, TableTyped DEF Scan, Return, Basic, TypeOK
      <3> QED
        BY <3>1 DEF Reading
    <2>3. CASE ~ (index[t] >= UserCount) /\ status[index[t]] = (IF Adds(t) THEN "f" ELSE "t")
      <3>1. pc'[t] = (IF Adds(t) THEN "fill" ELSE "match") /\ index' = index /\ reply' = reply
        BY <1>2, <2>3, TableTyped DEF Scan, Go
      <3> QED
        BY <2>1, <2>3, <3>1 DEF Reading, Adds
    <2>4. CASE ~ (index[t] >= UserCount) /\ status[index[t]] # (IF Adds(t) THEN "f" ELSE "t")
      <3>1. pc'[t] = "scan" /\ reply' = reply
        BY <1>2, <2>1, <2>4 DEF Scan
      <3> QED
        BY <2>1, <3>1 DEF Reading
    <2> QED
      BY <2>2, <2>3, <2>4
  <1>3. CASE Match(t)
    <2>1. /\ UNCHANGED <<users, status, req, out, calm, field, reply>> /\ pc[t] = "match"
          /\ reply[t] = "none" /\ field[t] = 0
      BY <1>3 DEF Call, Check, Wipe, Enter, Scan, Go, Match, shared, Basic, Asked
    <2>2. CASE HasSurname(index[t], req[t].arg)
      <3>1. pc'[t] = (IF req[t].op = "get" THEN "out" ELSE "drop") /\ index' = index
        BY <1>3, <2>2, TableTyped DEF Match, Go
      <3>2. HasSurname(index[t], req[t].arg)'
        BY <2>1, <2>2, <3>1 DEF HasSurname
      <3> QED
        BY <2>1, <3>1, <3>2 DEF Reading
    <2>3. CASE ~ HasSurname(index[t], req[t].arg)
      <3>1. pc'[t] = "scan"
        BY <1>3, <2>3, TableTyped DEF Match, Go
      <3> QED
        BY <2>1, <3>1 DEF Reading
    <2> QED
      BY <2>2, <2>3
  <1> QED
    BY <1>1, <1>2, <1>3

LEMMA OutReading ==
  ASSUME NEW t \in Thread, Basic, Whole, Reading(t), Out(t), UNCHANGED calm
  PROVE  Reading(t)'
  <1> DEFINE c == index[t]
             f == OutOrder[field[t] + 1]
  <1>1. /\ UNCHANGED <<users, status, req>> /\ pc[t] = "out" /\ req[t].op = "get" /\ reply[t] = "none"
        /\ c \in Cell /\ field[t] \in 0 .. 3 /\ field[t] + 1 \in Slot
    <2>1. UNCHANGED <<users, status, req>> /\ pc[t] = "out" /\ req[t].op = "get" /\ reply[t] = "none"
      BY DEF Out, shared, Basic, Asked
    <2>2. c \in Cell /\ field[t] \in 0 .. 3
      BY <2>1 DEF Basic, Asked
    <2> QED
      BY <2>1, <2>2 DEF Slot
  <1>2. f \in Fields /\ Len(OutOrder) = 4
    BY <1>1, Orders
  <1>3. CASE Return(t, "fault") /\ UNCHANGED out
    <2>1. pc'[t] = "idle" /\ reply'[t] = "fault"
      BY <1>3, TableTyped DEF Return, Basic, TypeOK
    <2> QED
      BY <2>1 DEF Reading
  <1>4. CASE /\ out' = [out EXCEPT ![t][f] = users[c][f]]
             /\ IF field[t] + 1 = 4
                THEN Return(t, "ok")
                ELSE field' = [field EXCEPT ![t] = @ + 1] /\ UNCHANGED <<pc, index, reply>>
    <2> SUFFICES ASSUME calm[t] PROVE Reading(t)'
      BY DEF Reading
    <2>1. /\ status[c] = "t" /\ HasSurname(c, req[t].arg)
          /\ \A k \in 1 .. field[t] : out[t][OutOrder[k]] = users[c][OutOrder[k]]
      BY <1>1 DEF Reading
    <2>2. out'[t][f] = users[c][f] /\ \A g \in Fields : g # f => out'[t][g] = out[t][g]
      BY <1>2, <1>4, TableTyped
    <2>3. \A k \in 1 .. field[t] + 1 : out'[t][OutOrder[k]] = users[c][OutOrder[k]]
      <3> SUFFICES ASSUME NEW k \in 1 .. field[t] + 1
                   PROVE  out'[t][OutOrder[k]] = users[c][OutOrder[k]]
        OBVIOUS
      <3>1. k \in Slot /\ (k \in 1 .. field[t] \/ k = field[t] + 1)
        BY <1>1 DEF Slot
      <3>2. OutOrder[k] \in Fields
        BY <3>1, Orders
      <3> QED
        BY <2>1, <2>2, <3>1, <3>2
    <2>4. CASE field[t] + 1 = 4
      <3>1. pc'[t] = "idle"
        BY <1>4, <2>4, TableTyped DEF Return
      <3>2. \A g \in Fields : out'[t][g] = users[c][g]
        <4> SUFFICES ASSUME NEW g \in Fields PROVE out'[t][g] = users[c][g]
          OBVIOUS
        <4>1. PICK k \in Slot : OutOrder[k] = g
          BY Orders
        <4>2. k \in 1 .. field[t] + 1
          BY <2>4 DEF Slot
        <4> QED
          BY <2>3, <4>1, <4>2
      <3>3. PICK d \in Contacts : \A g \in Fields : users[c][g] = d
        BY <1>1, <2>1 DEF Whole, Holds
      <3>4. SurnameOf[d] = req[t].arg
        BY <2>1, <3>3 DEF HasSurname, Fields
      <3>5. OneContact(t)'
        BY <1>1, <3>2, <3>3, <3>4 DEF OneContact
      <3> QED
        BY <3>1, <3>5 DEF Reading
    <2>5. CASE field[t] + 1 # 4
      <3>1. /\ field'[t] = field[t] + 1 /\ index' = index /\ reply' = reply
        BY <1>4, <2>5, TableTyped
      <3>2. HasSurname(index[t], req[t].arg)'
        BY <1>1, <2>1, <3>1 DEF HasSurname
      <3> QED
        BY <1>1, <2>1, <2>3, <3>1, <3>2 DEF Reading
    <2> QED
      BY <2>4, <2>5
  <1> QED
    BY <1>2, <1>3, <1>4 DEF Out

LEMMA NextReading ==
  ASSUME NEW w \in Thread, OnlyWriter(w), Basic, Boot, Kempt(w), NEW t \in Thread, Reading(t),
         [Next]_vars
  PROVE  Reading(t)'
  <1>1. CASE UNCHANGED vars
    BY <1>1, OtherReading DEF vars, shared
  <1>2. ASSUME NEW u \in Thread, u # t,
               \/ Call(u)
               \/ (Check(u) \/ Enter(u) \/ Scan(u) \/ Match(u) \/ Out(u)) /\ UNCHANGED calm
        PROVE  Reading(t)'
    <2>1. UNCHANGED <<users, status>>
      BY <1>2 DEF Call, Check, Enter, Scan, Match, Out, shared
    <2>2. /\ pc'[t] = pc[t] /\ req'[t] = req[t] /\ index'[t] = index[t] /\ field'[t] = field[t]
          /\ out'[t] = out[t] /\ reply'[t] = reply[t] /\ calm'[t] = calm[t]
      <3>1. CASE Call(u)
        BY <1>2, <3>1 DEF Call, Go, shared, Basic, TypeOK
      <3>2. CASE (Check(u) \/ Enter(u)) /\ UNCHANGED calm
        BY <1>2, <3>2 DEF Check, Enter, Go, Return, shared, Basic, TypeOK
      <3>3. CASE (Scan(u) \/ Match(u) \/ Out(u)) /\ UNCHANGED calm
        BY <1>2, <3>3 DEF Scan, Match, Out, Go, Return, shared, Basic, TypeOK
      <3> QED
        BY <1>2, <3>1, <3>2, <3>3
    <2> QED
      BY <2>1, <2>2, OtherReading
  <1>3. ASSUME NEW u \in Thread, Wipe(u)
        PROVE  Reading(t)'
    <2>1. pc'[t] \notin {"match", "out"} /\ reply'[t] # "ok"
      <3>1. pc[u] = "wipe" /\ ~ initialized /\ reply' = reply
        BY <1>3 DEF Wipe, Boot
      <3>2. pc[t] \in {"idle", "check", "wipe"} /\ reply[t] = "none"
        BY <3>1 DEF Boot
      <3>3. pc' = pc \/ pc' = [pc EXCEPT ![u] = "enter"]
        BY <1>3 DEF Wipe, Go
      <3> QED
        BY <3>1, <3>2, <3>3, TableTyped
    <2> QED
      BY <2>1 DEF Reading
  <1>4. ASSUME NEW u \in Thread, (Fill(u) \/ Take(u)) /\ UNCHANGED calm
        PROVE  Reading(t)'
    BY <1>4, WriterAlone, WriterReading
  <1>5. ASSUME NEW u \in Thread, Drop(u)
        PROVE  Reading(t)'
    <2>1. calm'[t] = (calm[t] /\ ~ (pc[t] # "idle" /\ req[t].op = "get"))
          /\ UNCHANGED <<req, out>> /\ pc[u] = "drop" /\ req[u].op = "del"
      BY <1>5 DEF Drop, Basic, Asked
    <2>2. CASE t = u
      BY <2>1, <2>2 DEF Reading
    <2>3. CASE t # u
      <3>1. pc'[t] = pc[t] /\ index'[t] = index[t] /\ field'[t] = field[t] /\ reply'[t] = reply[t]
        BY <1>5, <2>3, TableTyped DEF Drop, Return, Basic, TypeOK
      <3> QED
        BY <2>1, <3>1, OtherReading
    <2> QED
      BY <2>2, <2>3
  <1> QED
    BY <1>1, <1>2, <1>3, <1>4, <1>5, OwnReading, OutReading DEF Next, Step, Kempt

LEMMA InitReading ==
  ASSUME NEW t \in Thread, Init
  PROVE  Reading(t)
  BY DEF Init, Reading

(* Adds alone never disturb a lookup: however the writer's steps fall      *)
(* between those of a get_user, if no del_user freed a cell meanwhile the  *)
(* answer is one contact, with the surname asked for, for any number of    *)
(* readers at once.                                                        *)
THEOREM CalmAnswersAreWhole ==
  ASSUME NEW w \in Thread, OnlyWriter(w)
  PROVE  Spec => []AnswerIsWhole
  <1> DEFINE I == Basic /\ Boot /\ Kempt(w) /\ \A t \in Thread : Reading(t)
  <1>1. Init => I
    BY InitTyped, InitBoot, InitKempt, InitReading
  <1>2. I /\ [Next]_vars => I'
    BY NextTyped, NextBoot, NextKempt, NextReading DEF OnlyWriter
  <1>3. I => AnswerIsWhole
    BY DEF AnswerIsWhole, Returned, Reading
  <1> HIDE DEF I
  <1> QED
    BY <1>1, <1>2, <1>3, PTL DEF Spec

-----------------------------------------------------------------------------
(* The table of contacts.                                                  *)

LEMMA BookOf ==
  ASSUME Whole
  PROVE  book = [i \in Cell |-> IF status[i] = "t" THEN users[i]["name"] ELSE Nobody]
  BY DEF Whole, book

LEMMA TakenHolds ==
  ASSUME Whole, NEW i \in Cell, status[i] = "t"
  PROVE  /\ book[i] = users[i]["name"] /\ book[i] \in Contacts /\ book[i] # Nobody
         /\ \A s : HasSurname(i, s) <=> SurnameOf[book[i]] = s
  <1>1. PICK c \in Contacts : Holds(i, c)
    BY DEF Whole
  <1>2. book[i] = users[i]["name"]
    BY BookOf
  <1>3. users[i]["name"] = c /\ users[i]["surname"] = c
    BY <1>1 DEF Holds, Fields
  <1> QED
    BY <1>2, <1>3, ContactsAssumption DEF HasSurname

LEMMA EmptyIsFree ==
  ASSUME Whole
  PROVE  Book!Empty = {i \in Cell : status[i] # "t"}
  BY BookOf, TakenHolds DEF Book!Empty

LEMMA SameBook ==
  ASSUME Whole, Whole',
         \A i \in Cell : (status'[i] = "t" <=> status[i] = "t")
                           /\ (status[i] = "t" => users'[i] = users[i])
  PROVE  book' = book
  <1>1. book' = [i \in Cell |-> IF status'[i] = "t" THEN users'[i]["name"] ELSE Nobody]
    BY DEF Whole, book
  <1> QED
    BY <1>1, BookOf

LEMMA TakeAdds ==
  ASSUME NEW w \in Thread, Basic, Kempt(w), Kempt(w)', Take(w)
  PROVE  \E c \in Contacts : Book!Add(c)
  <1> DEFINE i == index[w]
             c == req[w].arg
  <1>1. /\ pc[w] = "take" /\ i \in Cell /\ req[w].op = "add" /\ c \in Contacts
        /\ users' = users /\ status' = [status EXCEPT ![i] = "t"]
        /\ status[i] = "f" /\ users[i]["name"] = c
        /\ \A j \in Cell : j < i => status[j] = "t"
    <2>1. /\ pc[w] = "take" /\ req[w].op = "add" /\ req[w].arg \in Contacts
          /\ users' = users /\ status' = [status EXCEPT ![i] = "t"]
      BY RequestFacts DEF Take, Basic, Asked
    <2>2. i \in Cell
      BY <2>1 DEF Basic, Asked
    <2> QED
      BY <2>1, <2>2 DEF Kempt, Writing, Passed, There, Copied, Adds, Fields
  <1> HIDE DEF i, c
  <1>2. Whole /\ Whole'
    BY DEF Kempt
  <1>3. Book!LowestWith(Book!Empty, i)
    <2>1. i \in Book!Empty /\ \A j \in Book!Empty : j \in Cell /\ ~ (j < i)
      BY <1>1, <1>2, EmptyIsFree
    <2> QED
      BY <1>1, <2>1, CellFacts DEF Book!LowestWith
  <1>4. book' = [book EXCEPT ![i] = c]
    <2>1. book' = [j \in Cell |-> IF status'[j] = "t" THEN users'[j]["name"] ELSE Nobody]
      BY <1>2 DEF Whole, book
    <2> QED
      BY <1>1, <1>2, <2>1, BookOf, TableTyped
  <1> QED
    BY <1>1, <1>3, <1>4 DEF Book!Add

LEMMA DropDeletes ==
  ASSUME NEW w \in Thread, Basic, Kempt(w), Kempt(w)', Drop(w)
  PROVE  \E s \in Surnames : Book!Delete(s)
  <1> DEFINE i == index[w]
             s == req[w].arg
  <1>1. /\ i \in Cell /\ s \in Surnames
        /\ users' = users /\ status' = [status EXCEPT ![i] = "f"]
        /\ status[i] = "t" /\ HasSurname(i, s)
        /\ \A j \in Cell : j < i /\ status[j] = "t" => ~ HasSurname(j, s)
    <2>1. /\ pc[w] = "drop" /\ req[w].op = "del" /\ req[w].arg \in Surnames
          /\ users' = users /\ status' = [status EXCEPT ![i] = "f"]
      BY RequestFacts DEF Drop, Basic, Asked
    <2>2. i \in Cell
      BY <2>1 DEF Basic, Asked
    <2> QED
      BY <2>1, <2>2 DEF Kempt, Writing, Passed, There
  <1> HIDE DEF i, s
  <1>2. Whole /\ Whole'
    BY DEF Kempt
  <1>3. Book!Under(s) = {j \in Cell : status[j] = "t" /\ HasSurname(j, s)}
    BY <1>2, EmptyIsFree, TakenHolds DEF Book!Under
  <1>4. Book!LowestWith(Book!Under(s), i)
    <2>1. i \in Book!Under(s) /\ \A j \in Book!Under(s) : j \in Cell /\ ~ (j < i)
      BY <1>1, <1>3
    <2> QED
      BY <1>1, <2>1, CellFacts DEF Book!LowestWith
  <1>5. book' = [book EXCEPT ![i] = Nobody]
    <2>1. book' = [j \in Cell |-> IF status'[j] = "t" THEN users'[j]["name"] ELSE Nobody]
      BY <1>2 DEF Whole, book
    <2> QED
      BY <1>1, <1>2, <2>1, BookOf, TableTyped
  <1> QED
    BY <1>1, <1>4, <1>5 DEF Book!Delete

LEMMA NextBook ==
  ASSUME NEW w \in Thread, OnlyWriter(w), Basic, Boot, Kempt(w), Kempt(w)', [Next]_vars
  PROVE  [Book!BookNext]_book
  <1>1. Whole /\ Whole'
    BY DEF Kempt
  <1>2. ASSUME UNCHANGED <<users, status>>
        PROVE  book' = book
    BY <1>1, <1>2, SameBook
  <1>3. ASSUME NEW t \in Thread, Wipe(t)
        PROVE  book' = book
    <2>1. pc[t] = "wipe" /\ ~ initialized
      BY <1>3 DEF Wipe, Boot
    <2>2. \A i \in Cell : status[i] # "t" /\ status'[i] # "t"
      BY <1>3, <2>1, TableTyped DEF Wipe, Boot
    <2> QED
      BY <1>1, <2>2, SameBook
  <1>4. ASSUME NEW t \in Thread, Fill(t)
        PROVE  book' = book
    <2>1. t = w
      BY <1>4, WriterAlone
    <2>2. status' = status /\ status[index[w]] = "f" /\ index[w] \in Cell
      BY <1>4, <2>1 DEF Fill, Basic, Asked, Kempt, Writing, There
    <2>3. \A i \in Cell : i # index[w] => users'[i] = users[i]
      BY <1>4, <2>1, <2>2, TableTyped DEF Fill
    <2> QED
      BY <1>1, <2>2, <2>3, SameBook
  <1>5. ASSUME NEW t \in Thread, Take(t)
        PROVE  Book!BookNext
    BY <1>5, WriterAlone, TakeAdds DEF Book!BookNext
  <1>6. ASSUME NEW t \in Thread, Drop(t)
        PROVE  Book!BookNext
    BY <1>6, WriterAlone, DropDeletes DEF Book!BookNext
  <1>7. ASSUME NEW t \in Thread, Call(t) \/ Check(t) \/ Enter(t) \/ Scan(t) \/ Match(t) \/ Out(t)
        PROVE  book' = book
    BY <1>2, <1>7 DEF Call, Check, Enter, Scan, Match, Out, shared
  <1>8. CASE UNCHANGED vars
    BY <1>2, <1>8 DEF vars, shared
  <1> QED
    BY <1>3, <1>4, <1>5, <1>6, <1>7, <1>8 DEF Next, Step

(* One writer's system calls, in all their steps and with any number of    *)
(* readers between them, are a table of contacts that changes one whole    *)
(* contact at a time, the lowest free cell or the lowest match first.      *)
THEOREM CallsImplementBook ==
  ASSUME NEW w \in Thread, OnlyWriter(w)
  PROVE  Spec => ImplementsContactBook
  <1>1. Init => Book!BookInit
    BY DEF Init, Book!BookInit, book
  <1>2. Basic /\ Boot /\ Kempt(w) /\ (Kempt(w))' /\ [Next]_vars => [Book!BookNext]_book
    BY NextBook
  <1> QED
    BY <1>1, <1>2, KemptInvariance, PTL DEF Spec, ImplementsContactBook, Book!BookSpec

-----------------------------------------------------------------------------
(* Lookups that end and find.                                              *)

(* Steps of its call that thread t has still to make, at most.             *)
StepsLeft(t) ==
  LET cells == UserCount - index[t]
  IN  IF pc[t] = "check" THEN 3 * UserCount + 9
      ELSE IF pc[t] = "wipe" THEN 2 * UserCount + 8 + cells
      ELSE IF pc[t] = "enter" THEN 2 * UserCount + 7
      ELSE IF pc[t] = "scan" THEN 2 * cells + 6
      ELSE IF pc[t] = "match" THEN 2 * cells + 5
      ELSE IF pc[t] = "fill" THEN 5 - field[t]
      ELSE IF pc[t] = "out" THEN 4 - field[t]
      ELSE IF pc[t] \in {"take", "drop"} THEN 1
      ELSE 0

LEMMA StepIsSpent ==
  ASSUME Basic, NEW t \in Thread, Step(t)
  PROVE  StepsLeft(t)' < StepsLeft(t)
  <1>1. /\ UserCount \in Nat /\ index[t] \in 0 .. UserCount /\ field[t] \in 0 .. 4
        /\ pc[t] \in Places
    BY TableTyped, CellFacts
  <1>2. /\ pc[t] \in {"fill", "out"} => field[t] \in 0 .. 3
        /\ pc[t] \in {"scan", "match"} => field[t] = 0
        /\ pc[t] \in {"check", "enter"} => index[t] = 0
        /\ pc[t] \in {"match", "fill", "take", "drop", "out"} => index[t] < UserCount
    BY CellFacts DEF Basic, Asked
  <1>3. ASSUME pc'[t] = "idle", pc[t] # "idle"
        PROVE  StepsLeft(t)' < StepsLeft(t)
    BY <1>1, <1>2, <1>3 DEF StepsLeft, Places
  <1>4. \A r : Return(t, r) => pc'[t] = "idle"
    BY TableTyped DEF Return
  <1>5. CASE Check(t)
    <2>1. pc[t] = "check" /\ pc'[t] \in {"enter", "wipe"} /\ index'[t] = index[t]
      BY <1>5, TableTyped DEF Check, Go
    <2> QED
      BY <1>1, <1>2, <2>1 DEF StepsLeft
  <1>6. CASE Wipe(t)
    <2>1. pc[t] = "wipe"
      BY <1>6 DEF Wipe
    <2>2. \/ pc'[t] = "wipe" /\ index'[t] = index[t] + 1
          \/ pc'[t] = "enter"
      BY <1>6, TableTyped DEF Wipe, Go
    <2> QED
      BY <1>1, <2>1, <2>2 DEF StepsLeft
  <1>7. CASE Enter(t)
    <2>1. /\ pc[t] = "enter"
          /\ \/ pc'[t] = "idle"
             \/ pc'[t] = "scan" /\ index'[t] = index[t]
      <3>1. CASE Return(t, "refused")
        <4>1. pc[t] = "enter"
          BY <1>7 DEF Enter, Go
        <4>2. pc'[t] = "idle"
          BY <3>1, TableTyped DEF Return
        <4> QED
          BY <4>1, <4>2
      <3>2. CASE Go(t, "enter", "scan") /\ UNCHANGED index
        BY <3>2, TableTyped DEF Go
      <3> QED
        BY <1>7, <3>1, <3>2 DEF Enter, Go
    <2> QED
      BY <1>1, <1>2, <1>3, <2>1 DEF StepsLeft
  <1>8. CASE Scan(t)
    <2>1. /\ pc[t] = "scan"
          /\ \/ pc'[t] = "idle"
             \/ pc'[t] \in {"fill", "match"} /\ index'[t] = index[t] /\ field'[t] = field[t]
                /\ index[t] < UserCount
             \/ pc'[t] = "scan" /\ index'[t] = index[t] + 1 /\ index[t] < UserCount
      <3>1. CASE index[t] >= UserCount
        BY <1>4, <1>8, <3>1 DEF Scan
      <3>2. CASE ~ (index[t] >= UserCount)
        <4>1. index[t] < UserCount /\ pc[t] = "scan" /\ field' = field
          <5>1. pc[t] = "scan" /\ field' = field
            BY <1>8, <3>2 DEF Scan
          <5> QED
            BY <1>1, <3>2, <5>1
        <4>2. CASE status[index[t]] = (IF Adds(t) THEN "f" ELSE "t")
          BY <1>8, <3>2, <4>1, <4>2, TableTyped DEF Scan, Go
        <4>3. CASE status[index[t]] # (IF Adds(t) THEN "f" ELSE "t")
          BY <1>8, <3>2, <4>1, <4>3, TableTyped DEF Scan, Go
        <4> QED
          BY <4>2, <4>3
      <3> QED
        BY <3>1, <3>2
    <2> QED
      BY <1>1, <1>2, <1>3, <2>1 DEF StepsLeft
  <1>9. CASE Fill(t)
    <2>1. /\ pc[t] = "fill"
          /\ \/ pc'[t] = "idle"
             \/ pc'[t] \in {"fill", "take"} /\ field'[t] = field[t] + 1
                /\ (field[t] + 1 = 4 <=> pc'[t] = "take")
      BY <1>4, <1>9, TableTyped, Orders DEF Fill
    <2> QED
      BY <1>1, <1>2, <1>3, <2>1 DEF StepsLeft
  <1>10. CASE Take(t) \/ Drop(t)
    BY <1>3, <1>4, <1>10 DEF Take, Drop
  <1>11. CASE Match(t)
    <2>1. /\ pc[t] = "match" /\ field'[t] = field[t]
          /\ \/ pc'[t] \in {"out", "drop"}
             \/ pc'[t] = "scan" /\ index'[t] = index[t] + 1
      BY <1>11, TableTyped DEF Match, Go
    <2> QED
      BY <1>1, <1>2, <2>1 DEF StepsLeft
  <1>12. CASE Out(t)
    <2>1. /\ pc[t] = "out"
          /\ \/ pc'[t] = "idle"
             \/ pc'[t] = "out" /\ field'[t] = field[t] + 1
      BY <1>4, <1>12, TableTyped DEF Out
    <2> QED
      BY <1>1, <1>2, <1>3, <2>1 DEF StepsLeft
  <1> QED
    BY <1>5, <1>6, <1>7, <1>8, <1>9, <1>10, <1>11, <1>12 DEF Step

(* No other thread takes a call back or makes it longer.                   *)
LEMMA OthersSpendNothing ==
  ASSUME Basic, NEW t \in Thread, NEW u \in Thread \ {t}, Call(u) \/ Step(u)
  PROVE  /\ pc'[t] = pc[t] /\ index'[t] = index[t] /\ field'[t] = field[t]
         /\ req'[t] = req[t] /\ reply'[t] = reply[t]
  <1>1. CASE Call(u) \/ Check(u) \/ Wipe(u) \/ Enter(u)
    BY <1>1, TableTyped DEF Call, Check, Wipe, Enter, Go, Return, Basic, TypeOK
  <1>2. CASE Scan(u) \/ Match(u) \/ Out(u)
    BY <1>2, TableTyped DEF Scan, Match, Out, Go, Return, Basic, TypeOK
  <1>3. CASE Fill(u) \/ Take(u) \/ Drop(u)
    BY <1>3, TableTyped DEF Fill, Take, Drop, Go, Return, Basic, TypeOK
  <1> QED
    BY <1>1, <1>2, <1>3 DEF Step

(* A call is over after at most three steps a cell and nine, whatever the  *)
(* other threads do meanwhile: none of the loops of storage.c starts again *)
(* or waits, with any number of threads that call anything.                *)
THEOREM CallsAreBounded ==
  Spec => /\ [](\A t \in Thread : StepsLeft(t) \in 0 .. 3 * UserCount + 9)
          /\ [][\A t \in Thread :
                  /\ Step(t) => StepsLeft(t)' < StepsLeft(t)
                  /\ \A u \in Thread \ {t} : Step(u) => StepsLeft(t)' = StepsLeft(t)]_vars
  <1>1. Basic => \A t \in Thread : StepsLeft(t) \in 0 .. 3 * UserCount + 9
    <2> SUFFICES ASSUME Basic, NEW t \in Thread PROVE StepsLeft(t) \in 0 .. 3 * UserCount + 9
      OBVIOUS
    <2>1. UserCount \in Nat /\ index[t] \in 0 .. UserCount /\ field[t] \in 0 .. 4
      BY TableTyped, CellFacts
    <2> QED
      BY <2>1 DEF StepsLeft
  <1>2. Basic /\ [Next]_vars =>
          [\A t \in Thread :
             /\ Step(t) => StepsLeft(t)' < StepsLeft(t)
             /\ \A u \in Thread \ {t} : Step(u) => StepsLeft(t)' = StepsLeft(t)]_vars
    <2> SUFFICES ASSUME Basic, NEW t \in Thread
                 PROVE  /\ Step(t) => StepsLeft(t)' < StepsLeft(t)
                        /\ \A u \in Thread \ {t} : Step(u) => StepsLeft(t)' = StepsLeft(t)
      OBVIOUS
    <2>1. ASSUME NEW u \in Thread \ {t}, Step(u)
          PROVE  StepsLeft(t)' = StepsLeft(t)
      BY <2>1, OthersSpendNothing DEF StepsLeft
    <2> QED
      BY <2>1, StepIsSpent
  <1>3. Init => Basic
    BY InitTyped
  <1>4. Basic /\ [Next]_vars => Basic'
    BY NextTyped
  <1> QED
    BY <1>1, <1>2, <1>3, <1>4, PTL DEF Spec

(* Thread t looks for surname s, and has found it or will.                 *)
InSight(t, s) ==
  /\ req[t].op = "get" /\ req[t].arg = s
  /\ \/ pc[t] = "out"
     \/ /\ pc[t] \in {"check", "enter", "scan", "match"}
        /\ \E i \in Cell : i >= index[t] /\ status[i] = "t" /\ HasSurname(i, s)

Found(t) == pc[t] = "idle" /\ reply[t] # "not found"

(* The lookup's own steps: a scan passes only cells that are free, or hold *)
(* another surname.                                                        *)
LEMMA OwnSight ==
  ASSUME Basic, Boot, NEW t \in Thread, Step(t), NEW s, InSight(t, s)
  PROVE  InSight(t, s)' \/ Found(t)'
  <1>1. /\ req[t].op = "get" /\ req[t].arg = s /\ ~ Adds(t)
        /\ pc[t] \in {"check", "enter", "scan", "match", "out"}
        /\ index[t] \in 0 .. UserCount
    BY TableTyped DEF InSight, Adds
  <1>2. Check(t) \/ Enter(t) \/ Scan(t) \/ Match(t) \/ Out(t)
    BY <1>1 DEF Step, Wipe, Fill, Take, Drop
  <1>3. UNCHANGED <<users, status, req>>
    BY <1>2 DEF Check, Enter, Scan, Match, Out, shared
  <1>4. \A i \in Cell : HasSurname(i, s)' <=> HasSurname(i, s)
    BY <1>3 DEF HasSurname
  <1>5. \A r : Return(t, r) /\ r # "not found" => Found(t)'
    BY DEF Return, Found, Basic, TypeOK
  <1>6. CASE pc[t] = "out"
    <2>1. Out(t)
      BY <1>2, <1>6 DEF Check, Enter, Scan, Match, Go
    <2>2. CASE pc' = pc
      BY <1>1, <1>3, <1>6, <2>2 DEF InSight
    <2>3. CASE Return(t, "fault") \/ Return(t, "ok")
      <3>1. CASE Return(t, "fault")
        BY <1>5, <3>1
      <3>2. CASE Return(t, "ok")
        BY <1>5, <3>2
      <3> QED
        BY <2>3, <3>1, <3>2
    <2> QED
      BY <2>1, <2>2, <2>3 DEF Out
  <1>7. CASE pc[t] # "out"
    <2>1. PICK i \in Cell : i >= index[t] /\ status[i] = "t" /\ HasSurname(i, s)
      BY <1>7 DEF InSight
    <2>2. i \in Int /\ i < UserCount
      BY CellFacts
    <2>3. ASSUME pc'[t] \in {"check", "enter", "scan", "match"}, i >= index'[t]
          PROVE  InSight(t, s)'
      BY <1>1, <1>3, <1>4, <2>1, <2>3 DEF InSight
    <2>4. CASE Check(t)
      <3>1. initialized
        BY <2>1 DEF Boot
      <3>2. pc'[t] = "enter" /\ index' = index
        BY <2>4, <3>1, TableTyped DEF Check, Go
      <3> QED
        BY <2>1, <2>3, <3>2
    <2>5. CASE Enter(t)
      <3>1. CASE Return(t, "refused")
        BY <1>5, <3>1
      <3>2. CASE Go(t, "enter", "scan") /\ UNCHANGED index
        BY <2>1, <2>3, <3>2, TableTyped DEF Go
      <3> QED
        BY <2>5, <3>1, <3>2 DEF Enter
    <2>6. CASE Scan(t)
      <3>1. ~ (index[t] >= UserCount)
        BY <1>1, <2>1, <2>2, CellFacts
      <3>2. CASE status[index[t]] = "t"
        <4>1. pc'[t] = "match" /\ index' = index
          BY <1>1, <2>6, <3>1, <3>2, TableTyped DEF Scan, Go
        <4> QED
          BY <2>1, <2>3, <4>1
      <3>3. CASE status[index[t]] # "t"
        <4>1. pc[t] = "scan" /\ pc' = pc /\ index' = [index EXCEPT ![t] = @ + 1]
          BY <1>1, <2>6, <3>1, <3>3 DEF Scan
        <4>2. index'[t] = index[t] + 1
          BY <4>1, TableTyped
        <4>3. i # index[t]
          BY <2>1, <3>3
        <4>4. i >= index'[t]
          BY <1>1, <2>1, <2>2, <4>2, <4>3
        <4> QED
          BY <2>3, <4>1, <4>4
      <3> QED
        BY <3>2, <3>3
    <2>7. CASE Match(t)
      <3>1. CASE HasSurname(index[t], s)
        <4>1. pc'[t] = "out"
          BY <1>1, <2>7, <3>1, TableTyped DEF Match, Go
        <4> QED
          BY <1>1, <1>3, <4>1 DEF InSight
      <3>2. CASE ~ HasSurname(index[t], s)
        <4>1. pc'[t] = "scan" /\ index'[t] = index[t] + 1
          BY <1>1, <2>7, <3>2, TableTyped DEF Match, Go
        <4>2. i # index[t]
          BY <2>1, <3>2
        <4>3. i >= index'[t]
          BY <1>1, <2>1, <2>2, <4>1, <4>2
        <4> QED
          BY <2>3, <4>1, <4>3
      <3> QED
        BY <3>1, <3>2
    <2>8. ~ Out(t)
      BY <1>7 DEF Out
    <2> QED
      BY <1>2, <2>4, <2>5, <2>6, <2>7, <2>8
  <1> QED
    BY <1>6, <1>7

(* The other threads, the writer among them: it fills only a free cell and *)
(* frees only one whose surname it was told to delete.                     *)
LEMMA OthersSight ==
  ASSUME NEW w \in Thread, OnlyWriter(w), Basic, Boot, Kempt(w),
         NEW t \in Thread, NEW u \in Thread \ {t}, Call(u) \/ Step(u),
         NEW s \in Kept, InSight(t, s)
  PROVE  InSight(t, s)'
  <1>1. pc'[t] = pc[t] /\ index'[t] = index[t] /\ req'[t] = req[t]
    BY OthersSpendNothing
  <1>2. ASSUME \A i \in Cell : status[i] = "t" /\ HasSurname(i, s) =>
                 status'[i] = "t" /\ HasSurname(i, s)'
        PROVE  InSight(t, s)'
    BY <1>1, <1>2 DEF InSight
  <1>3. CASE Call(u) \/ Check(u) \/ Enter(u) \/ Scan(u) \/ Match(u) \/ Out(u)
    <2>1. UNCHANGED <<users, status>>
      BY <1>3 DEF Call, Check, Enter, Scan, Match, Out, shared
    <2> QED
      BY <1>2, <2>1 DEF HasSurname
  <1>4. CASE Wipe(u)
    <2>1. ~ initialized
      BY <1>4 DEF Wipe, Boot
    <2> QED
      BY <2>1 DEF Boot, InSight
  <1>5. CASE Fill(u) \/ Take(u)
    <2>1. u = w
      BY <1>5, WriterAlone
    <2>2. status[index[w]] = "f"
      BY <1>5, <2>1 DEF Fill, Take, Kempt, Writing, There
    <2>3. \A i \in Cell : i # index[w] => users'[i] = users[i] /\ status'[i] = status[i]
      BY <1>5, <2>1, TableTyped DEF Fill, Take
    <2> QED
      BY <1>2, <2>2, <2>3 DEF HasSurname
  <1>6. CASE Drop(u)
    <2>1. u = w
      BY <1>6, WriterAlone
    <2>2. pc[w] = "drop" /\ HasSurname(index[w], req[w].arg)
      BY <1>6, <2>1 DEF Drop, Kempt, Writing, There
    <2>3. req[w].arg # s
      <3>1. req[w] \in Calls[w] /\ req[w] \in Request /\ req[w].op = "del"
        BY <2>2, RequestFacts DEF Basic, Asked
      <3>2. req[w] = [op |-> "del", arg |-> req[w].arg]
        BY <3>1 DEF Request
      <3> QED
        BY <3>1, <3>2 DEF Kept
    <2>4. ~ HasSurname(index[w], s)
      BY <2>2, <2>3 DEF HasSurname
    <2>5. \A i \in Cell : i # index[w] => status'[i] = status[i]
      BY <1>6, <2>1, TableTyped DEF Drop
    <2>6. users' = users
      BY <1>6 DEF Drop
    <2> QED
      BY <1>2, <2>4, <2>5, <2>6 DEF HasSurname
  <1> QED
    BY <1>3, <1>4, <1>5, <1>6 DEF Step

(* A surname that is stored when get_user is called, and that nobody       *)
(* deletes, stays ahead of the scan until it is found: with one writer and *)
(* any number of readers a lookup can fail, but not miss it, whatever is   *)
(* added and freed around it.  With CallsAreBounded, this is what          *)
(* StoredIsFound says of a thread that goes on.                            *)
THEOREM LookupsNeverMiss ==
  ASSUME NEW w \in Thread, OnlyWriter(w)
  PROVE  Spec =>
           /\ [](\A t \in Thread, s \in Kept :
                   /\ pc[t] = "check" /\ req[t].op = "get" /\ req[t].arg = s
                   /\ \E i \in Cell : status[i] = "t" /\ HasSurname(i, s)
                   => InSight(t, s))
           /\ [][\A t \in Thread, s \in Kept :
                   InSight(t, s) => InSight(t, s)' \/ Found(t)']_vars
  <1>1. Basic =>
          \A t \in Thread, s \in Kept :
            /\ pc[t] = "check" /\ req[t].op = "get" /\ req[t].arg = s
            /\ \E i \in Cell : status[i] = "t" /\ HasSurname(i, s)
            => InSight(t, s)
    <2> SUFFICES ASSUME Basic, NEW t \in Thread, NEW s \in Kept,
                        pc[t] = "check", req[t].op = "get", req[t].arg = s,
                        NEW i \in Cell, status[i] = "t", HasSurname(i, s)
                 PROVE  InSight(t, s)
      OBVIOUS
    <2>1. index[t] = 0 /\ i >= 0
      BY DEF Basic, Asked, Cell
    <2> QED
      BY <2>1 DEF InSight
  <1>2. Basic /\ Boot /\ Kempt(w) /\ [Next]_vars =>
          [\A t \in Thread, s \in Kept : InSight(t, s) => InSight(t, s)' \/ Found(t)']_vars
    <2> SUFFICES ASSUME Basic, Boot, Kempt(w), NEW u \in Thread, Call(u) \/ Step(u),
                        NEW t \in Thread, NEW s \in Kept, InSight(t, s)
                 PROVE  InSight(t, s)' \/ Found(t)'
      BY DEF Next
    <2>1. CASE u = t
      <3>1. ~ Call(t)
        BY DEF InSight, Call, Go
      <3> QED
        BY <2>1, <3>1, OwnSight
    <2>2. CASE u # t
      BY <2>2, OthersSight
    <2> QED
      BY <2>1, <2>2
  <1> QED
    BY <1>1, <1>2, KemptInvariance, PTL DEF Spec
=============================================================================
