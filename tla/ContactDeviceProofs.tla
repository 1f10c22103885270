------------------------ MODULE ContactDeviceProofs ------------------------
(***************************************************************************)
(* Theorems about ContactDevice, for any number of processes, cells and    *)
(* strings.  Whatever the processes do, a taken cell has all its strings.  *)
(* When no two of them are inside device_open or device_release at once,   *)
(* the open counter keeps them apart, and then every string belongs to one *)
(* cell and is freed once.                                                 *)
(***************************************************************************)
EXTENDS ContactDevice, FiniteSetTheorems, SequenceTheorems, TLAPS

Places ==
  {"closed", "test", "load", "store", "unload", "unstore", "opened", "answered",
   "scan", "match", "fill", "take", "format", "free", "drop", "say", "point"}

Slot == 1 .. Len(FieldOrder)

Typed ==
  /\ users \in [Cell -> [Fields -> Addr \cup {NULL}]]
  /\ status \in [Cell -> {"f", "t"}]
  /\ heap \in [Addr -> Contacts \cup {Nobody}]
  /\ open_counter \in Int
  /\ pc \in [Process -> Places]
  /\ req \in [Process -> Request \cup {NoRequest}]
  /\ index \in [Process -> 0 .. UserCount]
  /\ field \in [Process -> 0 .. Len(FieldOrder) - 1]
  /\ loaded \in [Process -> Int]

(* What a process does fits its request, and its loops are inside.         *)
InPlace ==
  \A p \in Process :
    /\ pc[p] \in {"match", "fill", "take", "format", "free", "drop"} => index[p] \in Cell
    /\ pc[p] \notin {"fill", "format", "free"} => field[p] = 0
    /\ pc[p] \in {"fill", "take"} => req[p].op = "add"
    /\ pc[p] \in {"scan", "match", "fill", "take", "format", "free", "drop"} =>
         req[p].op \in {"add", "get", "delete"}

(* The strings a process has put into the cell it fills are there.         *)
Filled ==
  \A p \in Process :
    /\ pc[p] = "fill" =>
         \A k \in 1 .. field[p] : users[index[p]][FieldOrder[k]] # NULL
    /\ pc[p] = "take" => NULL \notin StringsOf(index[p])

Basic == Typed /\ InPlace

LEMMA FieldFacts ==
  /\ Len(FieldOrder) \in Nat \ {0}
  /\ \A k \in Slot : FieldOrder[k] \in Fields
  /\ \A f \in Fields : \E k \in Slot : FieldOrder[k] = f
  /\ Cell = 0 .. UserCount - 1 /\ UserCount \in Nat \ {0}
  <1>1. Len(FieldOrder) \in Nat
    BY DeviceAssumption
  <1>2. \A f \in Fields : \E k \in Slot : FieldOrder[k] = f
    BY DEF Fields, Slot
  <1>3. \A k \in Slot : FieldOrder[k] \in Fields
    BY DEF Fields, Slot
  <1>4. Len(FieldOrder) # 0
    BY <1>1, <1>2, DeviceAssumption DEF Slot
  <1> QED
    BY <1>1, <1>2, <1>3, <1>4, DeviceAssumption DEF Cell

LEMMA InitTyped == Init => Basic
  <1> SUFFICES ASSUME Init PROVE Basic
    OBVIOUS
  <1>1. Len(FieldOrder) \in Nat \ {0} /\ UserCount \in Nat \ {0}
    BY FieldFacts
  <1>2. field \in [Process -> 0 .. Len(FieldOrder) - 1] /\ index \in [Process -> 0 .. UserCount]
    BY <1>1 DEF Init
  <1>3. users \in [Cell -> [Fields -> Addr \cup {NULL}]]
    BY DEF Init
  <1>4. status \in [Cell -> {"f", "t"}] /\ heap \in [Addr -> Contacts \cup {Nobody}]
    BY DEF Init
  <1>5. pc \in [Process -> Places] /\ req \in [Process -> Request \cup {NoRequest}]
        /\ loaded \in [Process -> Int] /\ open_counter \in Int
    BY DEF Init, Places
  <1>6. InPlace
    BY DEF Init, InPlace
  <1> QED
    BY <1>2, <1>3, <1>4, <1>5, <1>6 DEF Basic, Typed

LEMMA OpenCloseTyped ==
  ASSUME Basic, NEW p \in Process,
         Open(p) \/ Test(p) \/ Load(p) \/ Store(p) \/ Close(p) \/ ReadNull(p)
  PROVE  Basic'
  <1>1. CASE Open(p) \/ Test(p) \/ Close(p) \/ ReadNull(p)
    BY <1>1 DEF Open, Test, Close, ReadNull, Go, table, session, Basic, Typed, InPlace, Places,
                InSession
  <1>2. CASE Load(p)
    BY <1>2 DEF Load, Go, table, Basic, Typed, InPlace, Places
  <1>3. CASE Store(p)
    <2>1. /\ pc[p] \in {"store", "unstore"}
          /\ \E to \in {"opened", "closed"} : pc' = [pc EXCEPT ![p] = to]
      BY <1>3 DEF Store, Go
    <2>2. loaded[p] + 1 \in Int /\ loaded[p] - 1 \in Int
      BY DEF Basic, Typed
    <2>3. open_counter' \in Int
      BY <1>3, <2>2 DEF Store
    <2>4. loaded' \in [Process -> Int]
      BY <1>3 DEF Store, Basic, Typed
    <2>5. pc' \in [Process -> Places]
      BY <2>1 DEF Basic, Typed, Places
    <2>6. InPlace'
      BY <1>3, <2>1 DEF Store, Basic, Typed, InPlace
    <2> QED
      BY <1>3, <2>3, <2>4, <2>5, <2>6 DEF Store, table, Basic, Typed
  <1> QED
    BY <1>1, <1>2, <1>3

LEMMA RequestTyped ==
  ASSUME Basic, NEW p \in Process,
         Invalid(p) \/ Write(p) \/ Say(p) \/ Point(p) \/ Read(p) \/ ReadRest(p) \/ UseAfterFree(p)
  PROVE  Basic'
  <1>1. CASE Invalid(p)
    BY <1>1 DEF Invalid, Go, table, session, Basic, Typed, InPlace, Places, InSession
  <1>2. CASE Write(p)
    <2>1. PICK r \in Request :
            /\ InSession(p)
            /\ Go(p, pc[p], IF r.op = "bad" THEN "say" ELSE "scan")
            /\ req' = [req EXCEPT ![p] = r]
            /\ UNCHANGED <<table, session, index, field>>
      BY <1>2 DEF Write
    <2>2. r.op \in {"bad", "add", "get", "delete"}
      BY DEF Request
    <2>3. Typed'
      BY <2>1 DEF Go, table, session, Basic, Typed, Places
    <2>4. InPlace'
      BY <2>1, <2>2 DEF Go, Basic, Typed, InPlace, InSession
    <2> QED
      BY <2>3, <2>4 DEF Basic
  <1>3. CASE Say(p)
    BY <1>3 DEF Say, Go, table, session, Basic, Typed, InPlace, Places
  <1>4. CASE Point(p)
    BY <1>4, FieldFacts DEF Point, Go, table, session, Basic, Typed, InPlace, Places
  <1>5. CASE Read(p) \/ ReadRest(p)
    BY <1>5 DEF Read, ReadRest, Reads, Go, table, session, answer, Basic, Typed, InPlace
  <1>6. CASE UseAfterFree(p)
    BY <1>6 DEF UseAfterFree, Go, table, session, Basic, Typed, InPlace
  <1> QED
    BY <1>1, <1>2, <1>3, <1>4, <1>5, <1>6

LEMMA ScanTyped ==
  ASSUME Basic, NEW p \in Process, Scan(p) \/ Match(p) \/ Take(p) \/ Drop(p)
  PROVE  Basic'
  <1>1. CASE Scan(p)
    <2> USE DEF Go, Basic, Typed, InPlace
    <2>1. CASE index[p] >= UserCount
      BY <1>1, <2>1 DEF Scan, table, session, Places
    <2>2. CASE ~ (index[p] >= UserCount) /\ status[index[p]] = (IF Adds(p) THEN "f" ELSE "t")
      <3>1. index[p] \in Cell
        BY <2>2, FieldFacts
      <3>2. pc[p] = "scan" /\ pc' = [pc EXCEPT ![p] = IF req[p].op = "add" THEN "fill" ELSE "match"]
        BY <1>1, <2>2 DEF Scan, Adds
      <3>3. InPlace'
        BY <1>1, <2>2, <3>1, <3>2 DEF Scan
      <3> QED
        BY <1>1, <2>2, <3>2, <3>3 DEF Scan, table, session, Places
    <2>3. CASE ~ (index[p] >= UserCount) /\ status[index[p]] # (IF Adds(p) THEN "f" ELSE "t")
      <3>1. index[p] + 1 \in 0 .. UserCount
        BY <2>3, FieldFacts
      <3>2. index' = [index EXCEPT ![p] = @ + 1] /\ pc[p] = "scan" /\ pc' = [pc EXCEPT ![p] = "scan"]
        BY <1>1, <2>3 DEF Scan
      <3>3. index' \in [Process -> 0 .. UserCount]
        BY <3>1, <3>2
      <3>4. InPlace'
        BY <1>1, <3>2 DEF Scan
      <3> QED
        BY <1>1, <3>2, <3>3, <3>4 DEF Scan, table, session, Places
    <2> QED
      BY <2>1, <2>2, <2>3
  <1>2. CASE Match(p)
    <2>1. index[p] + 1 \in 0 .. UserCount
      BY <1>2, FieldFacts DEF Match, Basic, InPlace
    <2> QED
      BY <1>2, <2>1 DEF Match, Go, table, session, Basic, Typed, InPlace, Places
  <1>3. CASE Take(p) \/ Drop(p)
    BY <1>3 DEF Take, Drop, Go, session, Basic, Typed, InPlace, Places
  <1> QED
    BY <1>1, <1>2, <1>3

LEMMA NextSlot ==
  ASSUME Basic, NEW p \in Process
  PROVE  /\ field[p] + 1 \in Slot /\ NextField(p) = FieldOrder[field[p] + 1]
         /\ NextField(p) \in Fields
         /\ ~ LastField(p) => field[p] + 1 \in 0 .. Len(FieldOrder) - 1
  BY FieldFacts DEF Basic, Typed, NextField, LastField, Slot

LEMMA StringsTyped ==
  ASSUME Basic, NEW p \in Process, Fill(p) \/ Format(p) \/ Free(p)
  PROVE  Basic'
  <1>1. field' \in [Process -> 0 .. Len(FieldOrder) - 1]
        /\ field' = [field EXCEPT ![p] = IF LastField(p) THEN 0 ELSE @ + 1]
    BY NextSlot, FieldFacts DEF Fill, Format, Free, Basic, Typed
  <1>2. CASE Fill(p)
    <2>1. PICK a \in Addr :
            /\ heap' = [heap EXCEPT ![a] = req[p].arg]
            /\ users' = [users EXCEPT ![index[p]][NextField(p)] = a]
      BY <1>2 DEF Fill
    <2>2. req[p].arg \in Contacts
      <3>1. req[p] \in Request \cup {NoRequest} /\ req[p].op = "add"
        BY <1>2 DEF Fill, Go, Basic, Typed, InPlace
      <3>2. req[p] # NoRequest
        BY <3>1 DEF NoRequest
      <3>3. \A r \in [op : {"get", "delete"}, arg : Surnames] \cup [op : {"bad"}] : r.op # "add"
        OBVIOUS
      <3>4. req[p] \in [op : {"add"}, arg : Contacts]
        BY <3>1, <3>2, <3>3 DEF Request
      <3> QED
        BY <3>4
    <2>3. heap' \in [Addr -> Contacts \cup {Nobody}]
      BY <2>1, <2>2 DEF Basic, Typed
    <2>4. users' \in [Cell -> [Fields -> Addr \cup {NULL}]]
      BY <2>1, NextSlot DEF Basic, Typed
    <2>5. InPlace'
      BY <1>1, <1>2 DEF Fill, Go, Basic, Typed, InPlace
    <2> QED
      BY <1>1, <1>2, <2>3, <2>4, <2>5 DEF Fill, Go, session, Basic, Typed, Places
  <1>3. CASE Format(p)
    BY <1>1, <1>3 DEF Format, Go, table, session, Basic, Typed, InPlace, Places
  <1>4. CASE Free(p)
    BY <1>1, <1>4 DEF Free, Go, session, Basic, Typed, InPlace, Places
  <1> QED
    BY <1>2, <1>3, <1>4

LEMMA ReloadTyped ==
  ASSUME Basic, Reload
  PROVE  Basic'
  BY DEF Reload, Basic, Typed, InPlace

(* rmmod while a process is inside open or close changes nothing here; no  *)
(* more is said of such a state.                                           *)
LEMMA RmmodInsideIsLast ==
  ASSUME RmmodInside
  PROVE  /\ ~ OneAtATime
         /\ UNCHANGED <<users, status, heap, open_counter, pc, req, index, field, loaded>>
  BY DEF RmmodInside, table, session

LEMMA RmmodInsideTyped ==
  ASSUME Basic, RmmodInside
  PROVE  Basic'
  BY RmmodInsideIsLast DEF Basic, Typed, InPlace

LEMMA NextTyped ==
  ASSUME Basic, [Next]_vars
  PROVE  Basic'
  <1>1. CASE UNCHANGED vars
    BY <1>1 DEF vars, Basic, Typed, InPlace
  <1> QED
    BY <1>1, OpenCloseTyped, RequestTyped, ScanTyped, StringsTyped, ReloadTyped, RmmodInsideTyped DEF Next

-----------------------------------------------------------------------------
(* Taken cells have strings.                                               *)

Strings == Filled /\ TakenCellsHaveStrings

LEMMA QuietStrings ==
  ASSUME Basic, Strings, NEW p \in Process,
         UNCHANGED <<users, status>>,
         \A q \in Process : pc'[q] \in {"fill", "take"} =>
                              pc'[q] = pc[q] /\ index'[q] = index[q] /\ field'[q] = field[q]
  PROVE  Strings'
  BY DEF Strings, Filled, TakenCellsHaveStrings, Taken, StringsOf

LEMMA FillStrings ==
  ASSUME Basic, Strings, NEW p \in Process, Fill(p)
  PROVE  Strings'
  <1>1. PICK a \in Addr : users' = [users EXCEPT ![index[p]][NextField(p)] = a]
    BY DEF Fill
  <1>2. a # NULL /\ index[p] \in Cell /\ NextField(p) \in Fields
    BY DeviceAssumption, NextSlot DEF Fill, Go, Basic, InPlace
  <1>3. \A i \in Cell, f \in Fields : users[i][f] # NULL => users'[i][f] # NULL
    BY <1>1, <1>2 DEF Basic, Typed
  <1>4. users'[index[p]][NextField(p)] # NULL
    BY <1>1, <1>2 DEF Basic, Typed
  <1>5. pc[p] = "fill" /\ pc' = [pc EXCEPT ![p] = IF LastField(p) THEN "take" ELSE "fill"]
        /\ index' = index /\ status' = status
        /\ field' = [field EXCEPT ![p] = IF LastField(p) THEN 0 ELSE @ + 1]
    BY DEF Fill, Go
  <1>6. \A k \in 1 .. field[p] + 1 : users'[index[p]][FieldOrder[k]] # NULL
    <2> SUFFICES ASSUME NEW k \in 1 .. field[p] + 1 PROVE users'[index[p]][FieldOrder[k]] # NULL
      OBVIOUS
    <2>1. CASE k = field[p] + 1
      BY <1>4, <2>1, NextSlot
    <2>2. CASE k # field[p] + 1
      <3>1. k \in 1 .. field[p] /\ k \in Slot
        BY <2>2, NextSlot DEF Basic, Typed, Slot
      <3>2. users[index[p]][FieldOrder[k]] # NULL
        BY <1>5, <3>1 DEF Strings, Filled
      <3> QED
        BY <1>2, <1>3, <3>1, <3>2, FieldFacts
    <2> QED
      BY <2>1, <2>2
  <1>7. TakenCellsHaveStrings'
    BY <1>3, <1>5 DEF Strings, TakenCellsHaveStrings, Taken, StringsOf
  <1>8. ASSUME NEW q \in Process, pc'[q] = "fill", NEW k \in 1 .. field'[q]
        PROVE  users'[index'[q]][FieldOrder[k]] # NULL
    <2>1. CASE q = p
      BY <1>5, <1>6, <1>8, <2>1 DEF Basic, Typed
    <2>2. CASE q # p
      <3>1. pc[q] = "fill" /\ field'[q] = field[q] /\ index[q] \in Cell
        BY <1>5, <1>8, <2>2 DEF Basic, Typed, InPlace
      <3>2. k \in Slot
        BY <1>8, <3>1, FieldFacts DEF Basic, Typed, Slot
      <3>3. users[index[q]][FieldOrder[k]] # NULL
        BY <1>8, <3>1 DEF Strings, Filled
      <3> QED
        BY <1>3, <1>5, <3>1, <3>2, <3>3, FieldFacts
    <2> QED
      BY <2>1, <2>2
  <1>9. ASSUME NEW q \in Process, pc'[q] = "take"
        PROVE  \A f \in Fields : users'[index'[q]][f] # NULL
    <2>1. CASE q = p
      <3>1. LastField(p)
        BY <1>5, <1>9, <2>1 DEF Basic, Typed
      <3>2. \A k \in Slot : users'[index[p]][FieldOrder[k]] # NULL
        BY <1>6, <3>1 DEF LastField, Slot
      <3> QED
        BY <1>5, <2>1, <3>2, FieldFacts
    <2>2. CASE q # p
      <3>1. pc[q] = "take" /\ index[q] \in Cell
        BY <1>5, <1>9, <2>2 DEF Basic, Typed, InPlace
      <3>2. \A f \in Fields : users[index[q]][f] # NULL
        BY <3>1 DEF Strings, Filled, StringsOf
      <3> QED
        BY <1>3, <1>5, <3>1, <3>2
    <2> QED
      BY <2>1, <2>2
  <1> QED
    BY <1>7, <1>8, <1>9 DEF Strings, Filled, StringsOf

LEMMA TakeStrings ==
  ASSUME Basic, Strings, NEW p \in Process, Take(p) \/ Drop(p)
  PROVE  Strings'
  <1>1. /\ users' = users /\ index' = index /\ field' = field
        /\ pc' = [pc EXCEPT ![p] = "say"]
        /\ index[p] \in Cell
    BY DEF Take, Drop, Go, Basic, InPlace
  <1>2. Filled'
    BY <1>1 DEF Strings, Filled, StringsOf, Basic, Typed
  <1>3. CASE Take(p)
    <2>1. NULL \notin StringsOf(index[p])
      BY <1>3 DEF Take, Go, Strings, Filled
    <2>2. \A i \in Cell : status'[i] = "t" => status[i] = "t" \/ i = index[p]
      BY <1>1, <1>3 DEF Take, Basic, Typed
    <2> QED
      BY <1>1, <1>2, <2>1, <2>2 DEF Strings, TakenCellsHaveStrings, Taken, StringsOf
  <1>4. CASE Drop(p)
    <2>1. \A i \in Cell : status'[i] = "t" => status[i] = "t"
      BY <1>1, <1>4 DEF Drop, Basic, Typed
    <2> QED
      BY <1>1, <1>2, <2>1 DEF Strings, TakenCellsHaveStrings, Taken, StringsOf
  <1> QED
    BY <1>3, <1>4

LEMMA ScanStrings ==
  ASSUME Basic, Strings, NEW p \in Process, Scan(p)
  PROVE  Strings'
  <1>1. UNCHANGED <<users, status, field>> /\ pc[p] = "scan" /\ field[p] = 0
    BY DEF Scan, Go, table, Basic, InPlace
  <1>2. pc'[p] # "take" /\ \A q \in Process \ {p} : pc'[q] = pc[q] /\ index'[q] = index[q]
    BY DEF Scan, Go, Basic, Typed
  <1>3. TakenCellsHaveStrings'
    BY <1>1 DEF Strings, TakenCellsHaveStrings, Taken, StringsOf
  <1> QED
    BY <1>1, <1>2, <1>3 DEF Strings, Filled, StringsOf

LEMMA NextStrings ==
  ASSUME Basic, Strings, [Next]_vars
  PROVE  Strings'
  <1>1. CASE UNCHANGED vars
    BY <1>1 DEF vars, Strings, Filled, TakenCellsHaveStrings, Taken, StringsOf
  <1>7. CASE RmmodInside
    BY <1>7, RmmodInsideIsLast DEF Strings, Filled, TakenCellsHaveStrings, Taken, StringsOf
  <1>2. CASE Reload
    <2>1. \A p \in Process : pc'[p] = "closed"
      BY <1>2 DEF Reload
    <2>2. \A i \in Cell : status'[i] = "f"
      BY <1>2 DEF Reload
    <2> QED
      BY <2>1, <2>2 DEF Strings, Filled, TakenCellsHaveStrings, Taken
  <1>3. ASSUME NEW p \in Process, Open(p) \/ Test(p) \/ Load(p) \/ Store(p) \/ Close(p) \/ ReadNull(p)
        PROVE  Strings'
    <2>1. UNCHANGED <<users, status, index, field>>
      BY <1>3 DEF Open, Test, Load, Store, Close, ReadNull, table
    <2>2. \A q \in Process : pc'[q] \in {"fill", "take"} => pc'[q] = pc[q]
      BY <1>3 DEF Open, Test, Load, Store, Close, ReadNull, Go, Basic, Typed
    <2> QED
      BY <2>1, <2>2, QuietStrings
  <1>4. ASSUME NEW p \in Process, Invalid(p) \/ Write(p) \/ Say(p) \/ Point(p)
        PROVE  Strings'
    <2>1. UNCHANGED <<users, status, field>>
      BY <1>4 DEF Invalid, Write, Say, Point, table
    <2>2. \A q \in Process : pc'[q] \in {"fill", "take"} => pc'[q] = pc[q] /\ index'[q] = index[q]
      BY <1>4 DEF Invalid, Write, Say, Point, Go, Basic, Typed
    <2> QED
      BY <2>1, <2>2, QuietStrings
  <1>5. ASSUME NEW p \in Process, Read(p) \/ ReadRest(p) \/ UseAfterFree(p)
        PROVE  Strings'
    <2>1. UNCHANGED <<users, status, index, field>>
      BY <1>5 DEF Read, ReadRest, UseAfterFree, table
    <2>2. \A q \in Process : pc'[q] \in {"fill", "take"} => pc'[q] = pc[q]
      BY <1>5 DEF Read, ReadRest, Reads, UseAfterFree, Go, Basic, Typed
    <2> QED
      BY <2>1, <2>2, QuietStrings
  <1>6. ASSUME NEW p \in Process, Match(p) \/ Format(p) \/ Free(p)
        PROVE  Strings'
    <2>1. UNCHANGED <<users, status>>
      BY <1>6 DEF Match, Format, Free, table
    <2>2. \A q \in Process : pc'[q] \in {"fill", "take"} =>
            pc'[q] = pc[q] /\ index'[q] = index[q] /\ field'[q] = field[q]
      BY <1>6 DEF Match, Format, Free, Go, Basic, Typed
    <2> QED
      BY <2>1, <2>2, QuietStrings
  <1> QED
    BY <1>1, <1>2, <1>3, <1>4, <1>5, <1>6, <1>7, FillStrings, TakeStrings, ScanStrings DEF Next

LEMMA InitStrings == Init => Strings
  BY DEF Init, Strings, Filled, TakenCellsHaveStrings, Taken

(* Whatever any number of processes do at once, without any rule about who *)
(* opens the device when: the strings of a taken cell have been allocated, *)
(* so that get_user_note and delete_user_note never follow a NULL pointer. *)
THEOREM NoMissingString == Spec => []TakenCellsHaveStrings
  <1>1. Init => Basic /\ Strings
    BY InitTyped, InitStrings
  <1>2. Basic /\ Strings /\ [Next]_vars => (Basic /\ Strings)'
    BY NextTyped, NextStrings
  <1>3. Basic /\ Strings => TakenCellsHaveStrings
    BY DEF Strings
  <1> QED
    BY <1>1, <1>2, <1>3, PTL DEF Spec

-----------------------------------------------------------------------------
(* One process at a time.                                                  *)

Holding(p) == pc[p] \notin {"closed", "test", "load", "store"}

Exclusive ==
  /\ \A p, q \in Process : InOpenOrClose(p) /\ InOpenOrClose(q) => p = q
  /\ \A p, q \in Process : Holding(p) /\ Holding(q) => p = q
  /\ \A p, q \in Process : pc[p] \in {"load", "store"} => ~ Holding(q)
  /\ (\A p \in Process : ~ Holding(p)) => open_counter = 0
  /\ \A p \in Process : Holding(p) => open_counter = 1
  /\ \A p \in Process : pc[p] \in {"store", "unstore"} => loaded[p] = open_counter

(* Where a process is between opening and closing.                         *)
Inside(p) == Holding(p) /\ ~ InOpenOrClose(p)

LEMMA InsideExclusive ==
  ASSUME Basic, Exclusive, NEW p \in Process, NEW to \in Places,
         pc' = [pc EXCEPT ![p] = to], Inside(p),
         to \notin {"closed", "test", "load", "store", "unload", "unstore"},
         UNCHANGED session
  PROVE  Exclusive'
  BY DEF Exclusive, Inside, Holding, InOpenOrClose, session, Basic, Typed

(* The steps of a request stay inside.                                     *)
LEMMA RequestInside ==
  ASSUME Basic, NEW p \in Process,
         \/ Invalid(p) \/ Write(p) \/ Scan(p) \/ Match(p) \/ Fill(p) \/ Take(p)
         \/ Format(p) \/ Free(p) \/ Drop(p) \/ UseAfterFree(p)
         \/ Say(p) \/ Point(p) \/ Read(p) \/ ReadRest(p)
  PROVE  /\ \E to \in Places :
              /\ pc' = [pc EXCEPT ![p] = to]
              /\ to \notin {"closed", "test", "load", "store", "unload", "unstore"}
         /\ Inside(p)
         /\ UNCHANGED session
  <1> USE DEF Go, Inside, Holding, InOpenOrClose, Places
  <1>1. CASE Invalid(p) \/ Write(p)
    BY <1>1 DEF Invalid, Write, InSession
  <1>2. CASE Scan(p)
    BY <1>2 DEF Scan
  <1>3. CASE Match(p)
    BY <1>3 DEF Match
  <1>4. CASE Fill(p) \/ Take(p) \/ Drop(p)
    BY <1>4 DEF Fill, Take, Drop
  <1>5. CASE Format(p) \/ Free(p)
    BY <1>5 DEF Format, Free
  <1>6. CASE UseAfterFree(p)
    BY <1>6 DEF UseAfterFree
  <1>7. CASE Say(p) \/ Point(p)
    BY <1>7 DEF Say, Point
  <1>8. CASE Read(p) \/ ReadRest(p)
    BY <1>8 DEF Read, ReadRest, Reads, InSession
  <1> QED
    BY <1>1, <1>2, <1>3, <1>4, <1>5, <1>6, <1>7, <1>8

LEMMA OpenCloseExclusive ==
  ASSUME Basic, Exclusive, OneAtATime, NEW p \in Process,
         Open(p) \/ Test(p) \/ Load(p) \/ Store(p) \/ Close(p) \/ ReadNull(p)
  PROVE  Exclusive'
  <1> USE DEF Go, Exclusive, Holding, InOpenOrClose, Basic, Typed
  <1>1. CASE Open(p)
    BY <1>1 DEF Open, MayStart, session
  <1>2. CASE Test(p)
    <2>1. CASE open_counter > 0
      BY <1>2, <2>1 DEF Test, session
    <2>2. CASE ~ (open_counter > 0)
      <3>1. \A q \in Process : ~ Holding(q)
        BY <2>2
      <3> QED
        BY <1>2, <2>2, <3>1 DEF Test, session
    <2> QED
      BY <2>1, <2>2
  <1>3. CASE Load(p)
    <2>1. open_counter' = open_counter /\ loaded' = [loaded EXCEPT ![p] = open_counter]
      BY <1>3 DEF Load
    <2>2. CASE pc[p] = "load" /\ pc' = [pc EXCEPT ![p] = "store"]
      BY <2>1, <2>2
    <2>3. CASE pc[p] = "unload" /\ pc' = [pc EXCEPT ![p] = "unstore"]
      BY <2>1, <2>3
    <2> QED
      BY <1>3, <2>2, <2>3 DEF Load
  <1>4. CASE Store(p)
    <2>1. loaded' = [loaded EXCEPT ![p] = 0]
      BY <1>4 DEF Store
    <2>2. CASE pc[p] = "store" /\ pc' = [pc EXCEPT ![p] = "opened"] /\ open_counter' = loaded[p] + 1
      <3>1. open_counter' = 1
        BY <2>2
      <3> QED
        BY <2>1, <2>2, <3>1
    <2>3. CASE pc[p] = "unstore" /\ pc' = [pc EXCEPT ![p] = "closed"] /\ open_counter' = loaded[p] - 1
      <3>1. open_counter' = 0
        <4>1. Holding(p) /\ loaded[p] = open_counter
          BY <2>3
        <4>2. open_counter = 1
          BY <4>1
        <4> QED
          BY <2>3, <4>1, <4>2
      <3>2. \A q \in Process : ~ Holding(q)' /\ (q # p => ~ InOpenOrClose(q)')
        BY <2>3
      <3>3. \A q \in Process : pc'[q] \notin {"load", "store", "unstore"}
        BY <2>3, <3>2
      <3> QED
        BY <2>3, <3>1, <3>2, <3>3
    <2> QED
      BY <1>4, <2>2, <2>3 DEF Store
  <1>5. CASE Close(p) \/ ReadNull(p)
    <2>1. /\ pc[p] \in {"opened", "answered"} /\ pc' = [pc EXCEPT ![p] = "unload"]
          /\ UNCHANGED session
          /\ \A q \in Process \ {p} : ~ InOpenOrClose(q)
      BY <1>5 DEF Close, ReadNull, MayStart, InSession
    <2>2. \A q \in Process : InOpenOrClose(q)' <=> q = p
      BY <2>1
    <2>3. \A q \in Process : Holding(q)' <=> Holding(q)
      BY <2>1
    <2>4. \A q \in Process : pc'[q] \notin {"load", "store", "unstore"}
      BY <2>1, <2>2
    <2> QED
      BY <2>1, <2>2, <2>3, <2>4 DEF session
  <1> QED
    BY <1>1, <1>2, <1>3, <1>4, <1>5

LEMMA NextExclusive ==
  ASSUME Basic, Exclusive, OneAtATime, [Next]_vars
  PROVE  Exclusive'
  <1>1. CASE UNCHANGED vars
    BY <1>1 DEF vars, Exclusive, Holding, InOpenOrClose
  <1>2. CASE Reload
    BY <1>2 DEF Reload, Exclusive, Holding, InOpenOrClose
  <1>3. ASSUME NEW p \in Process,
               \/ Invalid(p) \/ Write(p) \/ Scan(p) \/ Match(p) \/ Fill(p) \/ Take(p)
               \/ Format(p) \/ Free(p) \/ Drop(p) \/ UseAfterFree(p)
               \/ Say(p) \/ Point(p) \/ Read(p) \/ ReadRest(p)
        PROVE  Exclusive'
    BY <1>3, RequestInside, InsideExclusive
  <1> QED
    BY <1>1, <1>2, <1>3, OpenCloseExclusive, RmmodInsideIsLast DEF Next

LEMMA InitExclusive == Init => Exclusive
  BY DEF Init, Exclusive, Holding, InOpenOrClose

LEMMA ExclusiveOpenedOnce ==
  ASSUME Exclusive
  PROVE  OpenedOnce
  <1>1. CASE \A p \in Process : ~ Holding(p)
    <2>1. Holders = {}
      BY <1>1 DEF Holders, Holding
    <2> QED
      BY <1>1, <2>1, FS_EmptySet DEF OpenedOnce, Exclusive
  <1>2. ASSUME NEW p \in Process, Holding(p)
        PROVE  OpenedOnce
    <2>1. Holders = {p}
      BY <1>2 DEF Holders, Holding, Exclusive
    <2>2. Cardinality(Holders) = 1
      BY <2>1, FS_Singleton
    <2> QED
      BY <1>2, <2>2 DEF OpenedOnce, Exclusive
  <1> QED
    BY <1>1, <1>2

(* Opens and closes that do not overlap exclude each other: any number of  *)
(* processes, one holder, counted by open_counter (device_open and         *)
(* device_release).                                                        *)
LEMMA OneHolder ==
  ASSUME OneAtATime
  PROVE  Spec => []OpenedOnce
  <1>1. Init => Basic /\ Exclusive
    BY InitTyped, InitExclusive
  <1>2. Basic /\ Exclusive /\ [Next]_vars => (Basic /\ Exclusive)'
    BY NextTyped, NextExclusive
  <1>3. Basic /\ Exclusive => OpenedOnce
    BY ExclusiveOpenedOnce
  <1> QED
    BY <1>1, <1>2, <1>3, PTL DEF Spec

-----------------------------------------------------------------------------
(* Every string has one owner.                                             *)

Working == {"fill", "take", "free", "drop"}

At(i, k) == users[i][FieldOrder[k]]

(* What of cell i process p has put into it, or freed.                     *)
Put(p, i, k)   == index[p] = i /\ ((pc[p] = "fill" /\ k <= field[p]) \/ pc[p] = "take")
Freed(p, i, k) == index[p] = i /\ ((pc[p] = "free" /\ k <= field[p]) \/ pc[p] = "drop")

(* The strings that are allocated, when nothing leaks.                     *)
Live(i, k) ==
  IF status[i] = "t" THEN \A p \in Process : ~ Freed(p, i, k)
                     ELSE \E p \in Process : Put(p, i, k)

AllocatedOnce ==
  /\ \A i \in Cell, k \in Slot : Live(i, k) => At(i, k) \in Addr /\ heap[At(i, k)] # Nobody
  /\ \A i, j \in Cell, k, l \in Slot :
       Live(i, k) /\ Live(j, l) /\ At(i, k) = At(j, l) => i = j /\ k = l
  /\ \A a \in Addr : heap[a] # Nobody => \E i \in Cell, k \in Slot : Live(i, k) /\ At(i, k) = a

StatusFits ==
  \A p \in Process :
    /\ pc[p] \in {"match", "format", "free", "drop"} => status[index[p]] = "t"
    /\ pc[p] \in {"fill", "take"} => status[index[p]] = "f"

Owned == AllocatedOnce /\ StatusFits /\ fault = "none"

(* Nobody but p is at work.                                                *)
Alone(p) == \A q \in Process \ {p} : pc[q] \notin Working \cup {"match", "format"}

LiveOf(p, i, k) == IF status[i] = "t" THEN ~ Freed(p, i, k) ELSE Put(p, i, k)

LEMMA InsideAlone ==
  ASSUME Basic, Exclusive, NEW p \in Process, Inside(p)
  PROVE  Alone(p)
  BY DEF Alone, Exclusive, Inside, Holding, Working, Basic, Typed

LEMMA LiveWhenAlone ==
  ASSUME NEW p \in Process, Alone(p), NEW i \in Cell, NEW k \in Slot
  PROVE  Live(i, k) <=> LiveOf(p, i, k)
  BY DEF Alone, Live, LiveOf, Freed, Put, Working

LEMMA LiveWhenAloneNext ==
  ASSUME NEW p \in Process, Alone(p)', NEW i \in Cell, NEW k \in Slot
  PROVE  Live(i, k)' <=> LiveOf(p, i, k)'
  BY DEF Alone, Live, LiveOf, Freed, Put, Working

LEMMA AloneStays ==
  ASSUME Basic, NEW p \in Process, Alone(p), NEW to, pc' = [pc EXCEPT ![p] = to]
  PROVE  Alone(p)'
  BY DEF Alone, Basic, Typed

LEMMA AllocationKept ==
  ASSUME AllocatedOnce, UNCHANGED <<users, heap>>,
         \A i \in Cell, k \in Slot : Live(i, k)' <=> Live(i, k)
  PROVE  AllocatedOnce'
  BY DEF AllocatedOnce, At

(* A process alone moves on without touching strings.                      *)
LEMMA MovesOn ==
  ASSUME Basic, Owned, NEW p \in Process, Alone(p), NEW to, pc' = [pc EXCEPT ![p] = to],
         UNCHANGED <<users, heap, fault>>,
         \A q \in Process \ {p} : index'[q] = index[q] /\ field'[q] = field[q],
         \A i \in Cell, k \in Slot : LiveOf(p, i, k)' <=> LiveOf(p, i, k),
         to \in {"match", "format", "free", "drop"} => status'[index'[p]] = "t",
         to \in {"fill", "take"} => status'[index'[p]] = "f"
  PROVE  Owned'
  <1>1. Alone(p)'
    BY AloneStays
  <1>2. \A i \in Cell, k \in Slot : Live(i, k)' <=> Live(i, k)
    BY <1>1, LiveWhenAlone, LiveWhenAloneNext
  <1>3. AllocatedOnce'
    BY <1>2, AllocationKept DEF Owned
  <1>4. StatusFits'
    BY <1>1 DEF StatusFits, Alone, Working, Basic, Typed
  <1> QED
    BY <1>3, <1>4 DEF Owned

LEMMA FillOwned ==
  ASSUME Basic, Owned, NEW p \in Process, Alone(p), Fill(p)
  PROVE  Owned'
  <1> DEFINE c == index[p]
             n == field[p] + 1
  <1>1. PICK a \in Addr :
          /\ heap[a] = Nobody
          /\ heap' = [heap EXCEPT ![a] = req[p].arg]
          /\ users' = [users EXCEPT ![c][NextField(p)] = a]
    BY DEF Fill
  <1>2. req'[p] = req[p] /\ req[p].arg \in Contacts /\ req[p].arg # Nobody
    <2>1. req[p] \in Request \cup {NoRequest} /\ req[p].op = "add"
      BY DEF Fill, Go, Basic, Typed, InPlace
    <2>2. req[p] # NoRequest
      BY <2>1 DEF NoRequest
    <2>3. \A r \in [op : {"get", "delete"}, arg : Surnames] \cup [op : {"bad"}] : r.op # "add"
      OBVIOUS
    <2>4. req[p] \in [op : {"add"}, arg : Contacts]
      BY <2>1, <2>2, <2>3 DEF Request
    <2> QED
      BY <2>4, DeviceAssumption DEF Fill
  <1>3. /\ c \in Cell /\ n \in Slot /\ NextField(p) = FieldOrder[n] /\ NextField(p) \in Fields
        /\ status[c] = "f" /\ pc[p] = "fill" /\ status' = status /\ index' = index /\ fault' = fault
        /\ pc' = [pc EXCEPT ![p] = IF LastField(p) THEN "take" ELSE "fill"]
        /\ field' = [field EXCEPT ![p] = IF LastField(p) THEN 0 ELSE @ + 1]
    BY NextSlot DEF Fill, Go, Basic, InPlace, Owned, StatusFits
  <1>4. Alone(p)'
    BY <1>3, AloneStays
  <1>5. \A i \in Cell, k \in Slot : Live(i, k)' <=> (Live(i, k) \/ (i = c /\ k = n))
    <2>1. \A k \in Slot : Put(p, c, k)' <=> (Put(p, c, k) \/ k = n)
      BY <1>3, FieldFacts DEF Put, Basic, Typed, Slot, LastField
    <2>2. ASSUME NEW i \in Cell, NEW k \in Slot
          PROVE  LiveOf(p, i, k)' <=> (LiveOf(p, i, k) \/ (i = c /\ k = n))
      <3>1. CASE i = c
        <4>1. LiveOf(p, i, k)' <=> Put(p, c, k)'
          BY <1>3, <3>1 DEF LiveOf
        <4>2. LiveOf(p, i, k) <=> Put(p, c, k)
          BY <1>3, <3>1 DEF LiveOf
        <4> QED
          BY <2>1, <3>1, <4>1, <4>2
      <3>2. CASE i # c
        <4>1. ~ Put(p, i, k) /\ ~ Freed(p, i, k)
          BY <3>2 DEF Put, Freed
        <4>2. ~ Put(p, i, k)' /\ ~ Freed(p, i, k)'
          BY <1>3, <3>2 DEF Put, Freed
        <4>3. status'[i] = status[i]
          BY <1>3
        <4> QED
          BY <3>2, <4>1, <4>2, <4>3 DEF LiveOf
      <3> QED
        BY <3>1, <3>2
    <2> QED
      BY <1>4, <2>2, LiveWhenAlone, LiveWhenAloneNext
  <1>6. ~ Live(c, n)
    <2>1. ~ LiveOf(p, c, n)
      BY <1>3 DEF LiveOf, Put, Basic, Typed
    <2> QED
      BY <1>3, <2>1, LiveWhenAlone
  <1>7. \A i \in Cell, k \in Slot : At(i, k)' = IF i = c /\ k = n THEN a ELSE At(i, k)
    <2> SUFFICES ASSUME NEW i \in Cell, NEW k \in Slot
                 PROVE  At(i, k)' = IF i = c /\ k = n THEN a ELSE At(i, k)
      OBVIOUS
    <2>1. FieldOrder[k] = FieldOrder[n] => k = n
      BY <1>3, DeviceAssumption DEF Slot
    <2>2. FieldOrder[k] \in Fields
      BY FieldFacts
    <2> QED
      BY <1>1, <1>3, <2>1, <2>2 DEF At, Basic, Typed
  <1>8. \A b \in Addr : heap'[b] # Nobody <=> (heap[b] # Nobody \/ b = a)
    BY <1>1, <1>2 DEF Basic, Typed
  <1> HIDE DEF c, n
  <1>9. AllocatedOnce'
    <2>1. ASSUME NEW i \in Cell, NEW k \in Slot, Live(i, k)'
          PROVE  At(i, k)' \in Addr /\ heap'[At(i, k)'] # Nobody
      BY <1>5, <1>7, <1>8, <2>1 DEF Owned, AllocatedOnce
    <2>2. \A i \in Cell, k \in Slot : Live(i, k) => At(i, k) # a
      BY <1>1 DEF Owned, AllocatedOnce
    <2>3. ASSUME NEW i \in Cell, NEW j \in Cell, NEW k \in Slot, NEW l \in Slot,
                 Live(i, k)', Live(j, l)', At(i, k)' = At(j, l)'
          PROVE  i = j /\ k = l
      BY <1>5, <1>6, <1>7, <2>2, <2>3 DEF Owned, AllocatedOnce
    <2>4. ASSUME NEW b \in Addr, heap'[b] # Nobody
          PROVE  \E i \in Cell, k \in Slot : Live(i, k)' /\ At(i, k)' = b
      <3>1. CASE b = a
        BY <1>3, <1>5, <1>7, <3>1
      <3>2. CASE b # a
        <4>1. PICK i \in Cell, k \in Slot : Live(i, k) /\ At(i, k) = b
          BY <1>8, <2>4, <3>2 DEF Owned, AllocatedOnce
        <4>2. ~ (i = c /\ k = n)
          BY <1>6, <4>1
        <4>3. Live(i, k)'
          BY <1>5, <4>1
        <4>4. At(i, k)' = b
          BY <1>7, <4>1, <4>2
        <4> QED
          BY <4>3, <4>4
      <3> QED
        BY <3>1, <3>2
    <2> QED
      BY <2>1, <2>3, <2>4 DEF AllocatedOnce
  <1>10. StatusFits'
    BY <1>3, <1>4 DEF c, StatusFits, Alone, Working, Basic, Typed, Owned
  <1> QED
    BY <1>3, <1>9, <1>10 DEF Owned

LEMMA FreeOwned ==
  ASSUME Basic, Owned, NEW p \in Process, Alone(p), Free(p)
  PROVE  Owned'
  <1> DEFINE c == index[p]
             n == field[p] + 1
             a == At(c, n)
  <1>1. /\ c \in Cell /\ n \in Slot /\ NextField(p) = FieldOrder[n]
        /\ status[c] = "t" /\ pc[p] = "free"
        /\ users' = users /\ status' = status /\ index' = index /\ fault' = fault
        /\ pc' = [pc EXCEPT ![p] = IF LastField(p) THEN "drop" ELSE "free"]
        /\ field' = [field EXCEPT ![p] = IF LastField(p) THEN 0 ELSE @ + 1]
        /\ heap' = [heap EXCEPT ![a] = Nobody]
    BY NextSlot DEF Free, Go, Basic, InPlace, Owned, StatusFits, At
  <1>2. Alone(p)'
    BY <1>1, AloneStays
  <1>3. \A i \in Cell, k \in Slot : Live(i, k)' <=> (Live(i, k) /\ ~ (i = c /\ k = n))
    <2>1. \A k \in Slot : Freed(p, c, k)' <=> (Freed(p, c, k) \/ k = n)
      BY <1>1, FieldFacts DEF Freed, Basic, Typed, Slot, LastField
    <2>2. \A i \in Cell, k \in Slot : LiveOf(p, i, k)' <=> (LiveOf(p, i, k) /\ ~ (i = c /\ k = n))
      BY <1>1, <2>1 DEF LiveOf, Put, Freed, Basic, Typed
    <2> QED
      BY <1>2, <2>2, LiveWhenAlone, LiveWhenAloneNext
  <1>4. Live(c, n)
    <2>1. LiveOf(p, c, n)
      BY <1>1 DEF LiveOf, Freed, Basic, Typed
    <2> QED
      BY <1>1, <2>1, LiveWhenAlone
  <1>5. \A b \in Addr : heap'[b] # Nobody <=> (heap[b] # Nobody /\ b # a)
    BY <1>1 DEF Basic, Typed
  <1>6. \A i \in Cell, k \in Slot : At(i, k)' = At(i, k)
    BY <1>1 DEF At
  <1>7. \A i \in Cell, k \in Slot : Live(i, k) /\ At(i, k) = a => i = c /\ k = n
    BY <1>1, <1>4 DEF Owned, AllocatedOnce
  <1> HIDE DEF c, n, a
  <1>8. AllocatedOnce'
    <2>1. ASSUME NEW i \in Cell, NEW k \in Slot, Live(i, k)'
          PROVE  At(i, k)' \in Addr /\ heap'[At(i, k)'] # Nobody
      BY <1>3, <1>5, <1>6, <1>7, <2>1 DEF Owned, AllocatedOnce
    <2>2. ASSUME NEW i \in Cell, NEW j \in Cell, NEW k \in Slot, NEW l \in Slot,
                 Live(i, k)', Live(j, l)', At(i, k)' = At(j, l)'
          PROVE  i = j /\ k = l
      BY <1>3, <1>6, <2>2 DEF Owned, AllocatedOnce
    <2>3. ASSUME NEW b \in Addr, heap'[b] # Nobody
          PROVE  \E i \in Cell, k \in Slot : Live(i, k)' /\ At(i, k)' = b
      <3>1. b # a /\ heap[b] # Nobody
        BY <1>5, <2>3
      <3>2. PICK i \in Cell, k \in Slot : Live(i, k) /\ At(i, k) = b
        BY <3>1 DEF Owned, AllocatedOnce
      <3>3. ~ (i = c /\ k = n)
        BY <3>1, <3>2 DEF a
      <3>4. Live(i, k)' /\ At(i, k)' = b
        BY <1>3, <1>6, <3>2, <3>3
      <3> QED
        BY <3>4
    <2> QED
      BY <2>1, <2>2, <2>3 DEF AllocatedOnce
  <1>9. StatusFits'
    BY <1>1, <1>2 DEF c, StatusFits, Alone, Working, Basic, Typed, Owned
  <1> QED
    BY <1>1, <1>8, <1>9 DEF Owned

(* Nobody starts, ends or moves on with work on strings.                   *)
LEMMA QuietOwned ==
  ASSUME Owned, UNCHANGED <<users, heap, status, fault>>,
         \A q \in Process :
           (pc[q] \in Working \cup {"match", "format"} \/ pc'[q] \in Working \cup {"match", "format"})
             => pc'[q] = pc[q] /\ index'[q] = index[q] /\ field'[q] = field[q]
  PROVE  Owned'
  <1>1. \A q \in Process, i \in Cell, k \in Slot :
          (Put(q, i, k)' <=> Put(q, i, k)) /\ (Freed(q, i, k)' <=> Freed(q, i, k))
    BY DEF Put, Freed, Working
  <1>2. \A i \in Cell, k \in Slot : Live(i, k)' <=> Live(i, k)
    BY <1>1 DEF Live
  <1>3. AllocatedOnce'
    BY <1>2, AllocationKept DEF Owned
  <1>4. StatusFits'
    BY DEF Owned, StatusFits, Working
  <1> QED
    BY <1>3, <1>4 DEF Owned

LEMMA ScanOwned ==
  ASSUME Basic, Owned, NEW p \in Process, Alone(p), Scan(p) \/ Match(p) \/ Format(p)
  PROVE  Owned'
  <1> USE DEF Go, Basic, Typed, InPlace
  <1>1. CASE Scan(p)
    <2>1. field[p] = 0 /\ field' = field /\ pc[p] = "scan" /\ UNCHANGED <<users, heap, status, fault>>
      BY <1>1 DEF Scan, table
    <2>2. CASE pc' = [pc EXCEPT ![p] = "say"] \/ pc' = [pc EXCEPT ![p] = "scan"]
      <3>1. \A q \in Process \ {p} : index'[q] = index[q] /\ pc'[q] = pc[q]
        BY <1>1, <2>2 DEF Scan
      <3>2. pc'[p] \in {"say", "scan"}
        BY <2>2
      <3> QED
        BY <2>1, <3>1, <3>2, QuietOwned DEF Working
    <2>3. CASE /\ ~ (index[p] >= UserCount) /\ status[index[p]] = (IF Adds(p) THEN "f" ELSE "t")
               /\ pc' = [pc EXCEPT ![p] = IF Adds(p) THEN "fill" ELSE "match"]
               /\ index' = index
      <3>1. \A i \in Cell, k \in Slot : LiveOf(p, i, k)' <=> LiveOf(p, i, k)
        BY <2>1, <2>3, FieldFacts DEF LiveOf, Put, Freed, Slot
      <3> QED
        BY <2>1, <2>3, <3>1, MovesOn
    <2> QED
      BY <1>1, <2>2, <2>3 DEF Scan
  <1>2. CASE Match(p)
    <2>1. /\ field[p] = 0 /\ field' = field /\ pc[p] = "match" /\ status[index[p]] = "t"
          /\ UNCHANGED <<users, heap, status, fault>>
      BY <1>2 DEF Match, table, Owned, StatusFits
    <2>2. PICK to \in {"format", "free", "scan"} :
            /\ pc' = [pc EXCEPT ![p] = to]
            /\ to # "scan" => index' = index
            /\ \A q \in Process \ {p} : index'[q] = index[q]
      BY <1>2 DEF Match
    <2>3. \A i \in Cell, k \in Slot : LiveOf(p, i, k)' <=> LiveOf(p, i, k)
      BY <2>1, <2>2, FieldFacts DEF LiveOf, Put, Freed, Slot
    <2> QED
      BY <2>1, <2>2, <2>3, MovesOn
  <1>3. CASE Format(p)
    <2>1. /\ pc[p] = "format" /\ status[index[p]] = "t" /\ index' = index
          /\ UNCHANGED <<users, heap, status, fault>>
          /\ \A q \in Process \ {p} : field'[q] = field[q]
      BY <1>3 DEF Format, table, Owned, StatusFits
    <2>2. PICK to \in {"format", "point"} : pc' = [pc EXCEPT ![p] = to]
      BY <1>3 DEF Format
    <2>3. \A i \in Cell, k \in Slot : LiveOf(p, i, k)' <=> LiveOf(p, i, k)
      BY <2>1, <2>2 DEF LiveOf, Put, Freed
    <2> QED
      BY <2>1, <2>2, <2>3, MovesOn
  <1> QED
    BY <1>1, <1>2, <1>3

LEMMA TakeOwned ==
  ASSUME Basic, Owned, NEW p \in Process, Alone(p), Take(p) \/ Drop(p)
  PROVE  Owned'
  <1>1. /\ pc' = [pc EXCEPT ![p] = "say"] /\ index[p] \in Cell
        /\ UNCHANGED <<users, heap, fault, index, field>>
    BY DEF Take, Drop, Go, Basic, InPlace
  <1>2. CASE Take(p)
    <2>1. pc[p] = "take" /\ status[index[p]] = "f" /\ status' = [status EXCEPT ![index[p]] = "t"]
      BY <1>2 DEF Take, Go, Owned, StatusFits
    <2>2. \A i \in Cell, k \in Slot : LiveOf(p, i, k)' <=> LiveOf(p, i, k)
      BY <1>1, <2>1 DEF LiveOf, Put, Freed, Basic, Typed
    <2> QED
      BY <1>1, <2>2, MovesOn
  <1>3. CASE Drop(p)
    <2>1. pc[p] = "drop" /\ status[index[p]] = "t" /\ status' = [status EXCEPT ![index[p]] = "f"]
      BY <1>3 DEF Drop, Go, Owned, StatusFits
    <2>2. \A i \in Cell, k \in Slot : LiveOf(p, i, k)' <=> LiveOf(p, i, k)
      BY <1>1, <2>1 DEF LiveOf, Put, Freed, Basic, Typed
    <2> QED
      BY <1>1, <2>2, MovesOn
  <1> QED
    BY <1>2, <1>3

LEMMA NothingFreedIsUsed ==
  ASSUME Basic, Owned, NEW p \in Process, Alone(p)
  PROVE  ~ UseAfterFree(p)
  <1> SUFFICES ASSUME UseAfterFree(p) PROVE FALSE
    OBVIOUS
  <1>1. /\ pc[p] \in {"match", "format", "free"} /\ index[p] \in Cell
        /\ status[index[p]] = "t"
    BY DEF UseAfterFree, Go, Basic, InPlace, Owned, StatusFits
  <1>2. PICK k \in Slot :
          /\ FieldOrder[k] = (IF pc[p] = "match" THEN "surname" ELSE NextField(p))
          /\ pc[p] = "free" => k = field[p] + 1
    <2>1. CASE pc[p] = "match"
      BY <2>1, FieldFacts, DeviceAssumption
    <2>2. CASE pc[p] # "match"
      BY <2>2, NextSlot
    <2> QED
      BY <2>1, <2>2
  <1>3. ~ Freed(p, index[p], k)
    BY <1>1, <1>2 DEF Freed, Basic, Typed
  <1>4. Live(index[p], k)
    BY <1>1, <1>3, LiveWhenAlone DEF LiveOf
  <1>5. heap[At(index[p], k)] # Nobody
    BY <1>1, <1>4 DEF Owned, AllocatedOnce
  <1> QED
    BY <1>2, <1>5 DEF UseAfterFree, StringOf, At

LEMMA ReloadOwned ==
  ASSUME Basic, Owned, Reload
  PROVE  Owned'
  <1>1. \A p \in Process : pc[p] = "closed" /\ pc'[p] = "closed"
    BY DEF Reload
  <1>2. \A i \in Cell, k \in Slot : Live(i, k) <=> status[i] = "t"
    BY <1>1 DEF Live, Put, Freed
  <1>3. \A i \in Cell, k \in Slot : ~ Live(i, k)'
    BY <1>1 DEF Reload, Live, Put
  <1>4. \A a \in Addr : heap'[a] = Nobody
    <2> SUFFICES ASSUME NEW a \in Addr, heap[a] # Nobody
                 PROVE  \E i \in Taken : a \in StringsOf(i)
      BY DEF Reload
    <2>1. PICK i \in Cell, k \in Slot : Live(i, k) /\ At(i, k) = a
      BY DEF Owned, AllocatedOnce
    <2> QED
      BY <1>2, <2>1, FieldFacts DEF Taken, StringsOf, At
  <1> QED
    BY <1>1, <1>3, <1>4 DEF Reload, Owned, AllocatedOnce, StatusFits

LEMMA NextOwned ==
  ASSUME OneAtATime, Basic, Exclusive, Owned, [Next]_vars
  PROVE  Owned'
  <1>1. CASE UNCHANGED vars
    BY <1>1, QuietOwned DEF vars
  <1>2. ASSUME NEW p \in Process,
               \/ Open(p) \/ Test(p) \/ Load(p) \/ Store(p) \/ Close(p) \/ ReadNull(p)
               \/ Invalid(p) \/ Write(p)
        PROVE  Owned'
    <2>1. UNCHANGED <<users, heap, status, fault, index, field>>
      BY <1>2 DEF Open, Test, Load, Store, Close, ReadNull, Invalid, Write, table
    <2>2. \A q \in Process : pc'[q] = pc[q] \/ {pc[q], pc'[q]} \cap (Working \cup {"match", "format"}) = {}
      BY <1>2 DEF Open, Test, Load, Store, Close, ReadNull, Invalid, Write, Go, InSession, Working,
                  Basic, Typed
    <2> QED
      BY <2>1, <2>2, QuietOwned
  <1>3. ASSUME NEW p \in Process, Say(p) \/ Point(p) \/ Read(p) \/ ReadRest(p)
        PROVE  Owned'
    <2>1. UNCHANGED <<users, heap, status, fault, field>>
      BY <1>3 DEF Say, Point, Read, ReadRest, table
    <2>2. \A q \in Process :
            \/ pc'[q] = pc[q] /\ index'[q] = index[q]
            \/ {pc[q], pc'[q]} \cap (Working \cup {"match", "format"}) = {}
      BY <1>3 DEF Say, Point, Read, ReadRest, Reads, Go, Working, Basic, Typed
    <2> QED
      BY <2>1, <2>2, QuietOwned
  <1>4. ASSUME NEW p \in Process,
               \/ Scan(p) \/ Match(p) \/ Fill(p) \/ Take(p)
               \/ Format(p) \/ Free(p) \/ Drop(p) \/ UseAfterFree(p)
        PROVE  Owned'
    <2>1. Alone(p)
      BY <1>4, RequestInside, InsideAlone
    <2> QED
      BY <1>4, <2>1, ScanOwned, FillOwned, TakeOwned, FreeOwned, NothingFreedIsUsed
  <1> QED
    BY <1>1, <1>2, <1>3, <1>4, ReloadOwned, RmmodInsideIsLast DEF Next

LEMMA InitOwned == Init => Owned
  BY DEF Init, Owned, AllocatedOnce, StatusFits, Live, Put

LEMMA OwnedStrings ==
  ASSUME Basic, Owned
  PROVE  StringsOwned
  <1> SUFFICES ASSUME \A p \in Process : pc[p] \notin Working
               PROVE  /\ {a \in Addr : heap[a] # Nobody} = UNION {StringsOf(i) : i \in Taken}
                      /\ Cardinality(UNION {StringsOf(i) : i \in Taken}) =
                           Cardinality(Taken) * Len(FieldOrder)
    BY DEF StringsOwned, Working
  <1> DEFINE S == UNION {StringsOf(i) : i \in Taken}
             f == [x \in Taken \X Slot |-> At(x[1], x[2])]
  <1>1. \A i \in Cell, k \in Slot : Live(i, k) <=> i \in Taken
    BY DEF Live, Put, Freed, Working, Taken
  <1>2. \A i \in Taken, k \in Slot : At(i, k) \in S
    BY FieldFacts DEF At, StringsOf
  <1>3. \A a \in S : \E i \in Taken, k \in Slot : At(i, k) = a
    BY FieldFacts DEF At, StringsOf
  <1>4. Taken \subseteq Cell
    BY DEF Taken
  <1>5. {a \in Addr : heap[a] # Nobody} = S
    <2>1. ASSUME NEW a \in S PROVE a \in Addr /\ heap[a] # Nobody
      BY <1>1, <1>3, <1>4 DEF Owned, AllocatedOnce
    <2>2. ASSUME NEW a \in Addr, heap[a] # Nobody PROVE a \in S
      BY <1>1, <1>2, <2>2 DEF Owned, AllocatedOnce
    <2> QED
      BY <2>1, <2>2
  <1>6. IsFiniteSet(Cell) /\ IsFiniteSet(Slot) /\ Cardinality(Slot) = Len(FieldOrder)
    <2>1. Cell = 0 .. UserCount - 1 /\ UserCount - 1 \in Int /\ Len(FieldOrder) \in Nat \ {0}
      BY FieldFacts
    <2>2. IsFiniteSet(Slot) /\ Cardinality(Slot) = Len(FieldOrder)
      BY <2>1, FS_Interval DEF Slot
    <2>3. IsFiniteSet(Cell)
      BY <2>1, FS_Interval
    <2> QED
      BY <2>2, <2>3
  <1>7. IsFiniteSet(Taken)
    BY <1>4, <1>6, FS_Subset
  <1>8. IsFiniteSet(Taken \X Slot) /\ Cardinality(Taken \X Slot) = Cardinality(Taken) * Len(FieldOrder)
    BY <1>6, <1>7, FS_Product
  <1> HIDE DEF S
  <1>9. f \in Surjection(Taken \X Slot, S)
    <2>1. f \in [Taken \X Slot -> S]
      BY <1>2
    <2>2. ASSUME NEW a \in S PROVE \E x \in Taken \X Slot : f[x] = a
      <3>1. PICK i \in Taken, k \in Slot : At(i, k) = a
        BY <1>3
      <3>2. <<i, k>> \in Taken \X Slot /\ f[<<i, k>>] = a
        BY <3>1
      <3> QED
        BY <3>2
    <2> QED
      BY <2>1, <2>2 DEF Surjection
  <1>10. f \in Injection(Taken \X Slot, S)
    <2>1. ASSUME NEW x \in Taken \X Slot, NEW y \in Taken \X Slot, f[x] = f[y]
          PROVE  x = y
      <3>1. /\ x[1] \in Cell /\ x[2] \in Slot /\ y[1] \in Cell /\ y[2] \in Slot
            /\ x = <<x[1], x[2]>> /\ y = <<y[1], y[2]>>
            /\ Live(x[1], x[2]) /\ Live(y[1], y[2])
        BY <1>1, <1>4
      <3>2. At(x[1], x[2]) = At(y[1], y[2])
        BY <2>1
      <3>3. x[1] = y[1] /\ x[2] = y[2]
        BY <3>1, <3>2 DEF Owned, AllocatedOnce
      <3> QED
        BY <3>1, <3>3
    <2> QED
      BY <1>9, <2>1 DEF Injection, IsInjective, Surjection
  <1>11. Cardinality(S) = Cardinality(Taken \X Slot)
    BY <1>8, <1>9, <1>10, FS_Surjection
  <1> QED
    BY <1>5, <1>8, <1>11 DEF S

LEMMA OwnedInvariance ==
  ASSUME OneAtATime
  PROVE  Spec => [](Basic /\ Exclusive /\ Owned)
  <1>1. Init => Basic /\ Exclusive /\ Owned
    BY InitTyped, InitExclusive, InitOwned
  <1>2. Basic /\ Exclusive /\ Owned /\ [Next]_vars => (Basic /\ Exclusive /\ Owned)'
    BY NextTyped, NextExclusive, NextOwned
  <1> QED
    BY <1>1, <1>2, PTL DEF Spec

(* With one holder at a time, no step of get_user_note, delete_user_note   *)
(* or storage_exit touches a string that has been freed, however often     *)
(* contacts come and go and the module is loaded again.                    *)
THEOREM NoFreedString ==
  ASSUME OneAtATime
  PROVE  Spec => []NoWildAccess
  <1>1. Owned => NoWildAccess
    BY DEF Owned, NoWildAccess
  <1> QED
    BY <1>1, OwnedInvariance, PTL

(* And nothing leaks: between requests the allocated strings are those of  *)
(* the taken cells, each string of each cell at an address of its own.     *)
THEOREM NothingLeaks ==
  ASSUME OneAtATime
  PROVE  Spec => []StringsOwned
  <1>1. Basic /\ Exclusive /\ Owned => StringsOwned
    BY OwnedStrings
  <1> QED
    BY <1>1, OwnedInvariance, PTL

-----------------------------------------------------------------------------
(***************************************************************************)
(* What the device answers, for any number of processes, cells and         *)
(* strings.  While opens and closes do not overlap, the device is a table  *)
(* of contacts that changes one contact at a time, and what a process      *)
(* reads is the answer to its own request, true of the table.              *)
(***************************************************************************)

Rest == {"closed", "test", "load", "store", "unload", "unstore", "opened", "answered"}
Searching == {"scan", "match", "fill", "take", "format", "free", "drop", "say"}

Surname(i) == StringOf(i, "surname")

(* Cell i is being deleted.                                                *)
Leaving(i) == \E p \in Process : index[p] = i /\ pc[p] \in {"free", "drop"}

Whole ==
  \A i \in Cell : status[i] = "t" /\ ~ Leaving(i) => \E c \in Contacts : Holds(i, c)

(* What the loop over the cells has left behind it.                        *)
Passed(p) ==
  pc[p] \in Searching =>
    \A j \in Cell : j < index[p] =>
      IF Adds(p) THEN status[j] = "t"
      ELSE status[j] = "t" => SurnameOf[Surname(j)] # req[p].arg

(* The strings that have been copied are those of the request.             *)
Copied(p) ==
  \A k \in Slot :
    pc[p] = "take" \/ (pc[p] = "fill" /\ k <= field[p]) => heap[At(index[p], k)] = req[p].arg

(* What a process is at fits its request, and the cell it has found.       *)
Fits(p) ==
  /\ pc[p] \in Rest => index[p] = 0
  /\ pc[p] \in Searching => req[p].op \in {"add", "get", "delete", "bad"}
  /\ pc[p] = "match" => ~ Adds(p)
  /\ pc[p] = "format" => req[p].op = "get" /\ SurnameOf[Surname(index[p])] = req[p].arg
  /\ pc[p] \in {"free", "drop"} => req[p].op = "delete"
  /\ pc[p] = "say" /\ index[p] < UserCount =>
       req[p].op # "get" /\ (Adds(p) => Holds(index[p], req[p].arg))

Truthful == Whole /\ \A p \in Process : Passed(p) /\ Copied(p) /\ Fits(p)

-----------------------------------------------------------------------------
LEMMA Arguments ==
  ASSUME Basic, NEW p \in Process
  PROVE  /\ req[p].op = "add" => req[p].arg \in Contacts
         /\ req[p].op \in {"get", "delete"} => req[p].arg \in Surnames
  <1>1. req[p] \in Request \cup {NoRequest}
    BY DEF Basic, Typed
  <1>2. NoRequest.op = "none"
    BY DEF NoRequest
  <1>3. \A r \in [op : {"add"}, arg : Contacts] : r.op = "add" /\ r.arg \in Contacts
    OBVIOUS
  <1>4. \A r \in [op : {"get", "delete"}, arg : Surnames] :
          r.op \in {"get", "delete"} /\ r.arg \in Surnames
    OBVIOUS
  <1>5. \A r \in [op : {"bad"}] : r.op = "bad"
    OBVIOUS
  <1> QED
    BY <1>1, <1>2, <1>3, <1>4, <1>5 DEF Request

LEMMA OthersOutside ==
  ASSUME Basic, Exclusive, NEW p \in Process, Inside(p), NEW q \in Process, q # p
  PROVE  pc[q] \in {"closed", "test", "load", "store"}
  BY DEF Basic, Typed, Exclusive, Inside, Holding

LEMMA SoleLeaving ==
  ASSUME NEW p \in Process, Alone(p), NEW i \in Cell
  PROVE  Leaving(i) <=> index[p] = i /\ pc[p] \in {"free", "drop"}
  BY DEF Leaving, Alone, Working

LEMMA SoleLeavingNext ==
  ASSUME NEW p \in Process, Alone(p)', NEW i \in Cell
  PROVE  Leaving(i)' <=> index'[p] = i /\ pc'[p] \in {"free", "drop"}
  BY DEF Leaving, Alone, Working

LEMMA WholeKept ==
  ASSUME Whole,
         \A i \in Cell : status'[i] = "t" /\ ~ Leaving(i)' =>
           /\ status[i] = "t" /\ ~ Leaving(i)
           /\ \A f \in Fields : StringOf(i, f)' = StringOf(i, f)
  PROVE  Whole'
  <1> SUFFICES ASSUME NEW i \in Cell, status'[i] = "t", ~ Leaving(i)'
               PROVE  \E c \in Contacts : Holds(i, c)'
    BY DEF Whole
  <1>1. PICK c \in Contacts : Holds(i, c)
    BY DEF Whole
  <1>2. Holds(i, c)'
    BY <1>1 DEF Holds
  <1> QED
    BY <1>2

(* A step of the one process inside concerns nobody else.                  *)
LEMMA OwnStep ==
  ASSUME Basic, Exclusive, Truthful, NEW p \in Process, Inside(p),
         NEW to, pc' = [pc EXCEPT ![p] = to],
         \A q \in Process : q # p => index'[q] = index[q],
         Whole', Passed(p)', Copied(p)', Fits(p)'
  PROVE  Truthful'
  <1> SUFFICES ASSUME NEW q \in Process, q # p
               PROVE  (Passed(q) /\ Copied(q) /\ Fits(q))'
    BY DEF Truthful
  <1>1. pc[q] \in {"closed", "test", "load", "store"} /\ pc'[q] = pc[q]
    BY OthersOutside DEF Basic, Typed
  <1>2. index'[q] = 0
    BY <1>1 DEF Truthful, Fits, Rest
  <1> QED
    BY <1>1, <1>2 DEF Passed, Copied, Fits, Rest, Searching

LEMMA SurnameSlot == \E k \in Slot : FieldOrder[k] = "surname"
  BY FieldFacts, DeviceAssumption

(* The string that is copied disturbs no string that is there.             *)
LEMMA FillKeeps ==
  ASSUME Basic, Owned, NEW p \in Process, Alone(p), Fill(p)
  PROVE  /\ \A i \in Cell, f \in Fields : status[i] = "t" => StringOf(i, f)' = StringOf(i, f)
         /\ \A k \in 1 .. field[p] : heap'[At(index[p], k)'] = heap[At(index[p], k)]
         /\ heap'[users'[index[p]][FieldOrder[field[p] + 1]]] = req[p].arg
  <1> DEFINE c == index[p]
             n == field[p] + 1
  <1>1. /\ c \in Cell /\ n \in Slot /\ NextField(p) = FieldOrder[n] /\ pc[p] = "fill"
        /\ status[c] = "f"
    BY NextSlot DEF Fill, Go, Basic, InPlace, Owned, StatusFits
  <1>2. PICK a \in Addr :
          /\ heap[a] = Nobody
          /\ heap' = [heap EXCEPT ![a] = req[p].arg]
          /\ users' = [users EXCEPT ![c][FieldOrder[n]] = a]
    BY <1>1 DEF Fill
  <1>3. \A j, k \in Slot : FieldOrder[j] = FieldOrder[k] => j = k
    BY DeviceAssumption DEF Slot
  <1>4. FieldOrder[n] \in Fields
    BY <1>1, FieldFacts
  <1>5. \A i \in Cell, f \in Fields : users'[i][f] = IF i = c /\ f = FieldOrder[n] THEN a ELSE users[i][f]
    BY <1>1, <1>2, <1>4 DEF Basic, Typed
  <1>6. \A b \in Addr : heap'[b] = IF b = a THEN req[p].arg ELSE heap[b]
    BY <1>2 DEF Basic, Typed
  <1>7. \A i \in Cell, k \in Slot : Live(i, k) => At(i, k) \in Addr /\ At(i, k) # a
    BY <1>2 DEF Owned, AllocatedOnce
  <1>8. \A i \in Cell, k \in Slot : status[i] = "t" => Live(i, k)
    BY <1>1, LiveWhenAlone DEF LiveOf, Freed
  <1>9. \A k \in 1 .. field[p] : k \in Slot /\ k # n /\ Live(c, k)
    <2> SUFFICES ASSUME NEW k \in 1 .. field[p] PROVE k \in Slot /\ k # n /\ Live(c, k)
      OBVIOUS
    <2>1. k \in Slot /\ k # n
      BY FieldFacts DEF Slot, Basic, Typed
    <2>2. LiveOf(p, c, k)
      BY <1>1 DEF LiveOf, Put
    <2> QED
      BY <1>1, <2>1, <2>2, LiveWhenAlone
  <1> HIDE DEF c, n
  <1>10. ASSUME NEW i \in Cell, NEW f \in Fields, status[i] = "t"
         PROVE  StringOf(i, f)' = StringOf(i, f)
    <2>1. PICK k \in Slot : FieldOrder[k] = f
      BY FieldFacts
    <2>2. At(i, k) \in Addr /\ At(i, k) # a /\ At(i, k) = users[i][f]
      BY <1>7, <1>8, <1>10, <2>1 DEF At
    <2>3. users'[i][f] = users[i][f]
      BY <1>1, <1>5, <1>10
    <2> QED
      BY <1>6, <2>2, <2>3 DEF StringOf
  <1>11. ASSUME NEW k \in 1 .. field[p]
         PROVE  heap'[At(c, k)'] = heap[At(c, k)]
    <2>1. c' = c
      BY DEF c, Fill
    <2>2. At(c, k)' = At(c, k)
      BY <1>1, <1>3, <1>5, <1>9, <2>1, FieldFacts DEF At
    <2> QED
      BY <1>6, <1>7, <1>9, <1>1, <2>2
  <1>12. heap'[users'[c][FieldOrder[n]]] = req[p].arg
    BY <1>1, <1>4, <1>5, <1>6
  <1> QED
    BY <1>10, <1>11, <1>12 DEF c, n

(* kfree frees no string of another cell.                                  *)
LEMMA FreeKeeps ==
  ASSUME Basic, Owned, NEW p \in Process, Alone(p), Free(p),
         NEW i \in Cell, i # index[p], status[i] = "t", NEW f \in Fields
  PROVE  StringOf(i, f)' = StringOf(i, f)
  <1> DEFINE c == index[p]
             n == field[p] + 1
  <1>1. /\ c \in Cell /\ n \in Slot /\ NextField(p) = FieldOrder[n] /\ pc[p] = "free"
        /\ status[c] = "t" /\ users' = users
        /\ heap' = [heap EXCEPT ![At(c, n)] = Nobody]
    BY NextSlot DEF Free, Go, Basic, InPlace, Owned, StatusFits, At
  <1>2. PICK k \in Slot : FieldOrder[k] = f
    BY FieldFacts
  <1>3. Live(c, n)
    <2>1. LiveOf(p, c, n)
      BY <1>1 DEF LiveOf, Freed, Basic, Typed
    <2> QED
      BY <1>1, <2>1, LiveWhenAlone
  <1>4. Live(i, k)
    <2>1. LiveOf(p, i, k)
      BY DEF LiveOf, Freed
    <2> QED
      BY <2>1, LiveWhenAlone
  <1>5. At(i, k) # At(c, n) /\ At(i, k) \in Addr
    BY <1>1, <1>3, <1>4 DEF Owned, AllocatedOnce
  <1> QED
    BY <1>1, <1>2, <1>5 DEF StringOf, At, Basic, Typed

-----------------------------------------------------------------------------
(* Steps that leave the table alone.                                       *)
LEMMA SameStrings ==
  ASSUME UNCHANGED <<users, heap>>, NEW i, NEW f
  PROVE  StringOf(i, f)' = StringOf(i, f)
  BY DEF StringOf

LEMMA SameTable ==
  ASSUME Basic, Exclusive, Truthful, NEW p \in Process, Inside(p),
         NEW to \in Places, pc' = [pc EXCEPT ![p] = to],
         UNCHANGED <<users, heap, status>>,
         pc[p] \in {"free", "drop"} => to \in {"free", "drop"} /\ index' = index
  PROVE  Whole'
  <1>1. Alone(p) /\ Alone(p)'
    BY InsideAlone, AloneStays
  <1>2. \A i \in Cell : Leaving(i) => Leaving(i)'
    BY <1>1, SoleLeaving, SoleLeavingNext DEF Basic, Typed
  <1> QED
    BY <1>2, SameStrings, WholeKept DEF Truthful

LEMMA BeginTruthful ==
  ASSUME Basic, Exclusive, Truthful, NEW p \in Process, Invalid(p) \/ Write(p)
  PROVE  Truthful'
  <1>1. Inside(p) /\ index[p] = 0 /\ pc[p] \in {"opened", "answered"}
    BY DEF Invalid, Write, InSession, Inside, Holding, InOpenOrClose, Truthful, Fits, Rest
  <1>2. UNCHANGED <<users, heap, status, index, field>>
    BY DEF Invalid, Write, table
  <1>3. CASE Invalid(p)
    <2>1. pc' = [pc EXCEPT ![p] = "opened"] /\ "opened" \in Places /\ req' = req
      BY <1>3 DEF Invalid, Go, Places
    <2>2. Whole'
      BY <1>1, <1>2, <2>1, SameTable
    <2>3. (Passed(p) /\ Copied(p) /\ Fits(p))'
      BY <1>1, <1>2, <2>1 DEF Passed, Copied, Fits, Searching, Rest, Basic, Typed
    <2> QED
      BY <1>1, <1>2, <2>1, <2>2, <2>3, OwnStep
  <1>4. CASE Write(p)
    <2>1. PICK r \in Request :
            /\ pc' = [pc EXCEPT ![p] = IF r.op = "bad" THEN "say" ELSE "scan"]
            /\ req' = [req EXCEPT ![p] = r]
      BY <1>4 DEF Write, Go
    <2>2. r.op \in {"bad", "add", "get", "delete"}
      BY DEF Request
    <2>3. (IF r.op = "bad" THEN "say" ELSE "scan") \in Places
      BY DEF Places
    <2>4. Whole'
      BY <1>1, <1>2, <2>1, <2>3, SameTable
    <2>5. /\ pc'[p] \in {"say", "scan"} /\ (pc'[p] = "say" => r.op = "bad")
          /\ req'[p] = r /\ index'[p] = 0
      BY <1>1, <1>2, <2>1 DEF Basic, Typed
    <2>6. Passed(p)'
      <3>1. \A j \in Cell : ~ (j < 0)
        BY FieldFacts
      <3> QED
        BY <2>5, <3>1 DEF Passed
    <2>7. Copied(p)' /\ Fits(p)'
      BY <2>2, <2>5 DEF Copied, Fits, Adds, Rest, Searching
    <2> QED
      BY <1>1, <1>2, <2>1, <2>4, <2>6, <2>7, OwnStep
  <1> QED
    BY <1>3, <1>4

LEMMA ScanTruthful ==
  ASSUME Basic, Exclusive, Truthful, NEW p \in Process, Scan(p)
  PROVE  Truthful'
  <1>1. /\ pc[p] = "scan" /\ field[p] = 0 /\ Inside(p)
        /\ UNCHANGED <<users, heap, status, req, field>>
    BY DEF Scan, Go, table, Basic, InPlace, Inside, Holding, InOpenOrClose
  <1>2. /\ index[p] \in 0 .. UserCount
        /\ Passed(p) /\ req[p].op \in {"add", "get", "delete", "bad"}
    BY <1>1 DEF Basic, Typed, Truthful, Fits, Searching
  <1>3. \A j \in Cell : Surname(j)' = Surname(j)
    BY <1>1, SameStrings DEF Surname
  <1>4. CASE index[p] >= UserCount
    <2>1. pc' = [pc EXCEPT ![p] = "say"] /\ "say" \in Places /\ index' = index
      BY <1>4 DEF Scan, Go, Places
    <2>2. Whole'
      BY <1>1, <2>1, SameTable
    <2>3. Passed(p)'
      BY <1>1, <1>2, <1>3, <2>1 DEF Passed, Searching, Adds, Basic, Typed
    <2>4. Copied(p)' /\ Fits(p)'
      BY <1>1, <1>2, <1>4, <2>1, FieldFacts DEF Copied, Fits, Searching, Rest, Basic, Typed
    <2> QED
      BY <1>1, <2>1, <2>2, <2>3, <2>4, OwnStep
  <1>5. CASE index[p] < UserCount /\ status[index[p]] = (IF Adds(p) THEN "f" ELSE "t")
    <2>1. PICK to \in {"fill", "match"} :
            /\ pc' = [pc EXCEPT ![p] = to] /\ index' = index
            /\ to = "match" => ~ Adds(p)
      BY <1>2, <1>5, FieldFacts DEF Scan, Go
    <2>2. Whole'
      BY <1>1, <2>1, SameTable DEF Places
    <2>3. Passed(p)'
      BY <1>1, <1>2, <1>3, <2>1 DEF Passed, Searching, Adds, Basic, Typed
    <2>4. Copied(p)'
      BY <1>1, <2>1, FieldFacts DEF Copied, Slot, Basic, Typed
    <2>5. Fits(p)'
      BY <1>1, <1>2, <2>1 DEF Fits, Adds, Searching, Rest, Basic, Typed
    <2> QED
      BY <1>1, <2>1, <2>2, <2>3, <2>4, <2>5, OwnStep
  <1>6. CASE index[p] < UserCount /\ status[index[p]] # (IF Adds(p) THEN "f" ELSE "t")
    <2>1. /\ pc' = [pc EXCEPT ![p] = "scan"] /\ "scan" \in Places
          /\ index' = [index EXCEPT ![p] = @ + 1]
      BY <1>2, <1>6, FieldFacts DEF Scan, Go, Places
    <2>2. Whole'
      BY <1>1, <2>1, SameTable
    <2>3. Passed(p)'
      <3>1. \A j \in Cell : j < index[p] + 1 => j < index[p] \/ j = index[p]
        BY <1>2, FieldFacts
      <3>2. \A j \in Cell : status[j] \in {"f", "t"}
        BY DEF Basic, Typed
      <3>3. index'[p] = index[p] + 1 /\ Adds(p)' = Adds(p)
        BY <1>1, <2>1 DEF Basic, Typed, Adds
      <3> QED
        BY <1>1, <1>2, <1>3, <1>6, <3>1, <3>2, <3>3 DEF Passed, Searching
    <2>4. Copied(p)' /\ Fits(p)'
      BY <1>1, <1>2, <2>1 DEF Copied, Fits, Searching, Rest, Basic, Typed
    <2> QED
      BY <1>1, <2>1, <2>2, <2>3, <2>4, OwnStep DEF Basic, Typed
  <1> QED
    BY <1>2, <1>4, <1>5, <1>6, FieldFacts

LEMMA MatchTruthful ==
  ASSUME Basic, Exclusive, Truthful, NEW p \in Process, Match(p)
  PROVE  Truthful'
  <1>1. /\ pc[p] = "match" /\ field[p] = 0 /\ Inside(p) /\ index[p] \in Cell
        /\ UNCHANGED <<users, heap, status, req, field>>
    BY DEF Match, table, Basic, InPlace, Inside, Holding, InOpenOrClose
  <1>2. /\ Passed(p) /\ ~ Adds(p) /\ req[p].op \in {"get", "delete"}
    BY <1>1 DEF Basic, InPlace, Truthful, Fits, Adds
  <1>3. \A j \in Cell : Surname(j)' = Surname(j)
    BY <1>1, SameStrings DEF Surname
  <1>4. CASE SurnameOf[Surname(index[p])] = req[p].arg
    <2>1. /\ pc' = [pc EXCEPT ![p] = IF req[p].op = "get" THEN "format" ELSE "free"]
          /\ index' = index
      BY <1>4 DEF Match, Go, Surname
    <2>2. (IF req[p].op = "get" THEN "format" ELSE "free") \in Places
      BY DEF Places
    <2>3. Whole'
      BY <1>1, <2>1, <2>2, SameTable
    <2>4. Passed(p)'
      BY <1>1, <1>2, <1>3, <2>1 DEF Passed, Searching, Adds, Basic, Typed
    <2>5. Copied(p)'
      BY <1>1, <2>1 DEF Copied, Basic, Typed
    <2>6. Fits(p)'
      BY <1>1, <1>2, <1>3, <1>4, <2>1 DEF Fits, Adds, Searching, Rest, Basic, Typed
    <2> QED
      BY <1>1, <2>1, <2>3, <2>4, <2>5, <2>6, OwnStep
  <1>5. CASE SurnameOf[Surname(index[p])] # req[p].arg
    <2>1. /\ pc' = [pc EXCEPT ![p] = "scan"] /\ "scan" \in Places
          /\ index' = [index EXCEPT ![p] = @ + 1]
      BY <1>5 DEF Match, Go, Surname, Places
    <2>2. Whole'
      BY <1>1, <2>1, SameTable
    <2>3. Passed(p)'
      <3>1. \A j \in Cell : j < index[p] + 1 => j < index[p] \/ j = index[p]
        BY <1>1, FieldFacts
      <3>2. index'[p] = index[p] + 1 /\ Adds(p)' = Adds(p)
        BY <1>1, <2>1 DEF Basic, Typed, Adds
      <3> QED
        BY <1>1, <1>2, <1>3, <1>5, <3>1, <3>2 DEF Passed, Searching
    <2>4. Copied(p)' /\ Fits(p)'
      BY <1>1, <1>2, <2>1 DEF Copied, Fits, Searching, Rest, Basic, Typed
    <2> QED
      BY <1>1, <2>1, <2>2, <2>3, <2>4, OwnStep DEF Basic, Typed
  <1> QED
    BY <1>4, <1>5

LEMMA FillTruthful ==
  ASSUME Basic, Exclusive, Owned, Truthful, NEW p \in Process, Fill(p)
  PROVE  Truthful'
  <1>1. /\ pc[p] = "fill" /\ Inside(p) /\ req[p].op = "add"
        /\ UNCHANGED <<status, req, index>>
        /\ pc' = [pc EXCEPT ![p] = IF LastField(p) THEN "take" ELSE "fill"]
        /\ field' = [field EXCEPT ![p] = IF LastField(p) THEN 0 ELSE @ + 1]
    BY DEF Fill, Go, Basic, InPlace, Inside, Holding, InOpenOrClose
  <1>2. Alone(p) /\ Alone(p)'
    BY <1>1, InsideAlone, AloneStays
  <1>3. Whole'
    <2>1. \A i \in Cell : ~ Leaving(i)
      BY <1>1, <1>2, SoleLeaving
    <2> QED
      BY <1>1, <1>2, <2>1, FillKeeps, WholeKept DEF Truthful
  <1>4. Passed(p)'
    BY <1>1 DEF Truthful, Passed, Searching, Adds, Basic, Typed
  <1>5. Copied(p)'
    <2> SUFFICES ASSUME NEW k \in Slot, pc'[p] = "take" \/ (pc'[p] = "fill" /\ k <= field'[p])
                 PROVE  heap'[At(index[p], k)'] = req[p].arg
      BY <1>1 DEF Copied, At
    <2>1. k \in 1 .. field[p] \/ k = field[p] + 1
      BY <1>1, FieldFacts DEF LastField, Slot, Basic, Typed
    <2>2. \A l \in 1 .. field[p] : l \in Slot /\ heap[At(index[p], l)] = req[p].arg
      BY <1>1, FieldFacts DEF Truthful, Copied, Slot, Basic, Typed
    <2>3. /\ \A l \in 1 .. field[p] : heap'[At(index[p], l)'] = heap[At(index[p], l)]
          /\ heap'[users'[index[p]][FieldOrder[field[p] + 1]]] = req[p].arg
      BY <1>2, FillKeeps
    <2>4. CASE k = field[p] + 1
      BY <1>1, <2>3, <2>4 DEF At
    <2> QED
      BY <2>1, <2>2, <2>3, <2>4
  <1>6. Fits(p)'
    BY <1>1 DEF Fits, Searching, Rest, Basic, Typed
  <1> QED
    BY <1>1, <1>3, <1>4, <1>5, <1>6, OwnStep

LEMMA TakeTruthful ==
  ASSUME Basic, Exclusive, Truthful, NEW p \in Process, Take(p)
  PROVE  Truthful'
  <1>1. /\ pc[p] = "take" /\ Inside(p) /\ req[p].op = "add" /\ index[p] \in Cell
        /\ UNCHANGED <<users, heap, req, index, field>>
        /\ pc' = [pc EXCEPT ![p] = "say"]
        /\ status' = [status EXCEPT ![index[p]] = "t"]
    BY DEF Take, Go, Basic, InPlace, Inside, Holding, InOpenOrClose
  <1>2. Alone(p) /\ Alone(p)'
    BY <1>1, InsideAlone, AloneStays
  <1>3. req[p].arg \in Contacts
    BY <1>1, Arguments
  <1>4. Holds(index[p], req[p].arg)'
    <2>1. \A k \in Slot : heap[At(index[p], k)] = req[p].arg
      BY <1>1 DEF Truthful, Copied
    <2>2. \A f \in Fields : StringOf(index[p], f) = req[p].arg
      BY <2>1, FieldFacts DEF At, StringOf
    <2> QED
      BY <1>1, <2>2 DEF Holds, StringOf, Basic, Typed
  <1>5. Whole'
    <2> SUFFICES ASSUME NEW i \in Cell, status'[i] = "t"
                 PROVE  \E c \in Contacts : Holds(i, c)'
      BY DEF Whole
    <2>1. CASE i = index[p]
      BY <1>1, <1>3, <1>4, <2>1
    <2>2. CASE i # index[p]
      <3>1. status[i] = "t" /\ ~ Leaving(i)
        BY <1>1, <1>2, <2>2, SoleLeaving DEF Basic, Typed
      <3>2. PICK c \in Contacts : Holds(i, c)
        BY <3>1 DEF Truthful, Whole
      <3> QED
        BY <1>1, <3>2 DEF Holds, StringOf
    <2> QED
      BY <2>1, <2>2
  <1>6. Passed(p)'
    BY <1>1 DEF Truthful, Passed, Searching, Adds, Basic, Typed
  <1>7. Copied(p)' /\ Fits(p)'
    BY <1>1, <1>4 DEF Copied, Fits, Adds, Searching, Rest, Basic, Typed
  <1> QED
    BY <1>1, <1>5, <1>6, <1>7, OwnStep

LEMMA FreeTruthful ==
  ASSUME Basic, Exclusive, Owned, Truthful, NEW p \in Process, Free(p)
  PROVE  Truthful'
  <1>1. /\ pc[p] = "free" /\ Inside(p) /\ req[p].op = "delete" /\ index[p] \in Cell
        /\ UNCHANGED <<status, req, index>>
        /\ pc' = [pc EXCEPT ![p] = IF LastField(p) THEN "drop" ELSE "free"]
    BY DEF Free, Go, Basic, InPlace, Inside, Holding, InOpenOrClose, Truthful, Fits
  <1>2. Alone(p) /\ Alone(p)'
    BY <1>1, InsideAlone, AloneStays
  <1>3. \A i \in Cell : (Leaving(i) <=> i = index[p]) /\ (Leaving(i)' <=> i = index[p])
    BY <1>1, <1>2, SoleLeaving, SoleLeavingNext DEF Basic, Typed
  <1>4. Whole'
    BY <1>1, <1>2, <1>3, FreeKeeps, WholeKept DEF Truthful
  <1>5. \A j \in Cell : j < index[p] /\ status[j] = "t" => Surname(j)' = Surname(j)
    BY <1>2, FreeKeeps, FieldFacts, DeviceAssumption DEF Surname
  <1>6. Passed(p)'
    BY <1>1, <1>5 DEF Truthful, Passed, Searching, Adds, Basic, Typed
  <1>7. Copied(p)' /\ Fits(p)'
    BY <1>1 DEF Copied, Fits, Searching, Rest, Basic, Typed
  <1> QED
    BY <1>1, <1>4, <1>6, <1>7, OwnStep

LEMMA DropTruthful ==
  ASSUME Basic, Exclusive, Truthful, NEW p \in Process, Drop(p)
  PROVE  Truthful'
  <1>1. /\ pc[p] = "drop" /\ Inside(p) /\ req[p].op = "delete" /\ index[p] \in Cell
        /\ UNCHANGED <<users, heap, req, index, field>>
        /\ pc' = [pc EXCEPT ![p] = "say"]
        /\ status' = [status EXCEPT ![index[p]] = "f"]
    BY DEF Drop, Go, Basic, InPlace, Inside, Holding, InOpenOrClose, Truthful, Fits
  <1>2. Alone(p) /\ Alone(p)'
    BY <1>1, InsideAlone, AloneStays
  <1>3. \A i \in Cell : Leaving(i) <=> i = index[p]
    BY <1>1, <1>2, SoleLeaving
  <1>4. \A i \in Cell : status'[i] = "t" => i # index[p] /\ status[i] = "t"
    BY <1>1 DEF Basic, Typed
  <1>5. Whole'
    BY <1>1, <1>3, <1>4, SameStrings, WholeKept DEF Truthful
  <1>6. Passed(p)'
    <2>1. \A j \in Cell : Surname(j)' = Surname(j)
      BY <1>1, SameStrings DEF Surname
    <2> QED
      BY <1>1, <1>4, <2>1 DEF Truthful, Passed, Searching, Adds, Basic, Typed
  <1>7. Copied(p)' /\ Fits(p)'
    BY <1>1 DEF Copied, Fits, Adds, Searching, Rest, Basic, Typed
  <1> QED
    BY <1>1, <1>5, <1>6, <1>7, OwnStep

LEMMA AnswerTruthful ==
  ASSUME Basic, Exclusive, Truthful, NEW p \in Process,
         Format(p) \/ Say(p) \/ Point(p) \/ Read(p) \/ ReadRest(p)
  PROVE  Truthful'
  <1>1. UNCHANGED <<users, heap, status, req>>
    BY DEF Format, Say, Point, Read, ReadRest, table, session, answer
  <1>2. PICK to \in {"format", "point", "opened", "answered"} :
          /\ pc' = [pc EXCEPT ![p] = to]
          /\ to = "format" => pc[p] = "format"
          /\ to \in {"opened", "answered"} => index'[p] = 0
          /\ to = "format" => index' = index
    BY FieldFacts
       DEF Format, Say, Point, Read, ReadRest, Reads, InSession, Go, Basic, Typed, Truthful, Fits, Rest
  <1>3. /\ Inside(p) /\ pc[p] \notin {"free", "drop"}
        /\ \A q \in Process : q # p => index'[q] = index[q]
    BY DEF Format, Say, Point, Read, ReadRest, Reads, InSession, Go, Inside, Holding, InOpenOrClose,
           Basic, Typed
  <1>4. Whole'
    BY <1>1, <1>2, <1>3, SameTable DEF Places
  <1>5. \A j \in Cell : Surname(j)' = Surname(j)
    BY <1>1, SameStrings DEF Surname
  <1>6. CASE to = "format"
    <2>1. index[p] \in Cell /\ pc[p] = "format" /\ pc'[p] = "format" /\ index' = index
      BY <1>2, <1>6 DEF Basic, Typed, InPlace
    <2>2. (Passed(p) /\ Copied(p) /\ Fits(p))'
      BY <1>1, <1>5, <2>1 DEF Truthful, Passed, Copied, Fits, Adds, Searching, Rest
    <2> QED
      BY <1>2, <1>3, <1>4, <2>2, OwnStep
  <1>7. CASE to # "format"
    <2>1. (Passed(p) /\ Copied(p) /\ Fits(p))'
      BY <1>2, <1>7 DEF Passed, Copied, Fits, Searching, Rest, Basic, Typed
    <2> QED
      BY <1>2, <1>3, <1>4, <2>1, OwnStep
  <1> QED
    BY <1>6, <1>7

(* Opening and closing concerns nobody who is at work.                     *)
LEMMA OpenCloseTruthful ==
  ASSUME Basic, Truthful, NEW p \in Process,
         Open(p) \/ Test(p) \/ Load(p) \/ Store(p) \/ Close(p) \/ ReadNull(p)
  PROVE  Truthful'
  <1>1. UNCHANGED <<users, heap, status, index, field, req>>
    BY DEF Open, Test, Load, Store, Close, ReadNull, table
  <1>2. /\ pc[p] \in Rest /\ pc'[p] \in Rest
        /\ \A q \in Process : q # p => pc'[q] = pc[q]
    BY DEF Open, Test, Load, Store, Close, ReadNull, Go, InSession, Rest, Basic, Typed
  <1>3. \A i \in Cell : Leaving(i)' <=> Leaving(i)
    BY <1>1, <1>2 DEF Leaving, Rest
  <1>4. Whole'
    BY <1>1, <1>3, SameStrings, WholeKept DEF Truthful
  <1>5. ASSUME NEW q \in Process
        PROVE  (Passed(q) /\ Copied(q) /\ Fits(q))'
    <2>1. CASE q = p
      BY <1>1, <1>2, <2>1 DEF Truthful, Passed, Copied, Fits, Searching, Rest
    <2>2. CASE q # p
      BY <1>1, <1>2, <2>2
         DEF Truthful, Passed, Copied, Fits, Surname, StringOf, Holds, Adds, At
    <2> QED
      BY <2>1, <2>2
  <1> QED
    BY <1>4, <1>5 DEF Truthful

LEMMA ReloadTruthful ==
  ASSUME Basic, Truthful, Reload
  PROVE  Truthful'
  BY DEF Reload, Truthful, Whole, Passed, Copied, Fits, Searching, Rest

LEMMA NextTruthful ==
  ASSUME OneAtATime, Basic, Exclusive, Owned, Truthful, [Next]_vars
  PROVE  Truthful'
  <1>1. CASE UNCHANGED vars
    BY <1>1 DEF vars, Truthful, Whole, Leaving, Passed, Copied, Fits, Surname, StringOf, Holds, Adds, At
  <1>2. ASSUME NEW p \in Process PROVE ~ UseAfterFree(p)
    <2>1. UseAfterFree(p) => Inside(p)
      BY RequestInside
    <2> QED
      BY <2>1, InsideAlone, NothingFreedIsUsed
  <1> QED
    BY <1>1, <1>2, OpenCloseTruthful, BeginTruthful, ScanTruthful, MatchTruthful, FillTruthful,
       TakeTruthful, FreeTruthful, DropTruthful, AnswerTruthful, ReloadTruthful, RmmodInsideIsLast DEF Next

LEMMA InitTruthful == Init => Truthful
  BY DEF Init, Truthful, Whole, Passed, Copied, Fits, Searching, Rest

LEMMA TruthfulInvariance ==
  ASSUME OneAtATime
  PROVE  Spec => [](Basic /\ Exclusive /\ Owned /\ Truthful)
  <1>1. Init => Basic /\ Exclusive /\ Owned /\ Truthful
    BY InitTyped, InitExclusive, InitOwned, InitTruthful
  <1>2. Basic /\ Exclusive /\ Owned /\ Truthful /\ [Next]_vars
          => (Basic /\ Exclusive /\ Owned /\ Truthful)'
    BY NextTyped, NextExclusive, NextOwned, NextTruthful
  <1> QED
    BY <1>1, <1>2, PTL DEF Spec

-----------------------------------------------------------------------------
(* The taken cells that nobody deletes are the book.                       *)

Stored(i) == status[i] = "t" /\ ~ Leaving(i)

LEMMA StoredHolds ==
  ASSUME Whole, NEW i \in Cell, Stored(i)
  PROVE  Surname(i) \in Contacts /\ Holds(i, Surname(i)) /\ Surname(i) # Nobody
  <1>1. PICK c \in Contacts : Holds(i, c)
    BY DEF Whole, Stored
  <1>2. Surname(i) = c
    BY <1>1, DeviceAssumption DEF Holds, Surname
  <1> QED
    BY <1>1, <1>2, DeviceAssumption

LEMMA BookOf ==
  ASSUME Whole
  PROVE  book = [i \in Cell |-> IF Stored(i) THEN Surname(i) ELSE Nobody]
  <1>1. \A i \in Cell : Stored(i) => \E c \in Contacts : Holds(i, c)
    BY DEF Whole, Stored
  <1>2. ASSUME NEW i \in Cell
        PROVE  book[i] = IF Stored(i) THEN Surname(i) ELSE Nobody
    BY <1>1, <1>2 DEF book, Stored, Leaving, Surname
  <1>3. book = [i \in Cell |-> book[i]]
    BY DEF book
  <1> QED
    BY <1>2, <1>3

LEMMA BookOfNext ==
  ASSUME Whole'
  PROVE  book' = [i \in Cell |-> IF Stored(i)' THEN Surname(i)' ELSE Nobody]
  <1>1. \A i \in Cell : Stored(i)' => \E c \in Contacts : Holds(i, c)'
    BY DEF Whole, Stored
  <1>2. ASSUME NEW i \in Cell
        PROVE  book'[i] = IF Stored(i)' THEN Surname(i)' ELSE Nobody
    BY <1>1, <1>2 DEF book, Stored, Leaving, Surname
  <1>3. book' = [i \in Cell |-> book'[i]]
    BY DEF book
  <1> QED
    BY <1>2, <1>3

LEMMA SameBook ==
  ASSUME Whole, Whole',
         \A i \in Cell : (Stored(i)' <=> Stored(i)) /\ (Stored(i) => Surname(i)' = Surname(i))
  PROVE  book' = book
  BY BookOf, BookOfNext

LEMMA EmptyCells ==
  ASSUME Whole
  PROVE  Book!Empty = {i \in Cell : ~ Stored(i)}
  BY BookOf, StoredHolds DEF Book!Empty

LEMMA UnderCells ==
  ASSUME Whole, NEW s
  PROVE  Book!Under(s) = {i \in Cell : Stored(i) /\ SurnameOf[Surname(i)] = s}
  BY BookOf, EmptyCells DEF Book!Under

LEMMA TakeAdds ==
  ASSUME Basic, Exclusive, Owned, Truthful, Truthful', NEW p \in Process, Take(p)
  PROVE  \E c \in Contacts : Book!Add(c)
  <1> DEFINE i == index[p]
             c == req[p].arg
  <1>1. /\ pc[p] = "take" /\ Inside(p) /\ i \in Cell /\ c \in Contacts /\ Adds(p)
        /\ UNCHANGED <<users, heap, req, index>>
        /\ pc' = [pc EXCEPT ![p] = "say"] /\ pc'[p] = "say"
        /\ status' = [status EXCEPT ![i] = "t"]
    BY Arguments DEF Take, Go, Basic, Typed, InPlace, Inside, Holding, InOpenOrClose, Adds
  <1>2. Alone(p) /\ Alone(p)'
    BY <1>1, InsideAlone, AloneStays
  <1>3. \A j \in Cell : ~ Leaving(j) /\ ~ Leaving(j)'
    BY <1>1, <1>2, SoleLeaving, SoleLeavingNext
  <1>4. Holds(i, c)'
    BY <1>1, FieldFacts DEF Truthful, Fits, Adds
  <1>5. \A j \in Cell : j < i => status[j] = "t"
    BY <1>1 DEF Truthful, Passed, Searching
  <1>6. \A j \in Cell : j = i => Surname(j)' = c
    BY <1>1, <1>4, DeviceAssumption DEF Holds, Surname, StringOf
  <1>7. status[i] # "t"
    BY <1>1 DEF Owned, StatusFits
  <1>8. \A j \in Cell : Stored(j)' <=> (Stored(j) \/ j = i)
    BY <1>1, <1>3 DEF Stored, Basic, Typed
  <1>9. \A j \in Cell : Surname(j)' = Surname(j)
    BY <1>1, SameStrings DEF Surname
  <1>10. Whole /\ Whole'
    BY DEF Truthful
  <1> HIDE DEF i, c
  <1>11. Book!LowestWith(Book!Empty, i)
    <2>1. i \in Book!Empty /\ \A j \in Book!Empty : j \in Cell /\ ~ (j < i)
      BY <1>1, <1>3, <1>5, <1>7, <1>10, EmptyCells DEF Stored
    <2> QED
      BY <1>1, <2>1, FieldFacts DEF Book!LowestWith
  <1>12. book' = [book EXCEPT ![i] = c]
    <2>1. \A j \in Cell : book'[j] = IF j = i THEN c ELSE book[j]
      BY <1>6, <1>8, <1>9, <1>10, BookOf, BookOfNext
    <2>2. book = [j \in Cell |-> book[j]] /\ book' = [j \in Cell |-> book'[j]]
      BY DEF book
    <2> QED
      BY <1>1, <2>1, <2>2
  <1> QED
    BY <1>1, <1>11, <1>12 DEF Book!Add

(* A delete takes effect when it has found its cell.                       *)
LEMMA MatchDeletes ==
  ASSUME Basic, Exclusive, Owned, Truthful, Truthful', NEW p \in Process, Match(p), pc'[p] = "free"
  PROVE  \E s \in Surnames : Book!Delete(s)
  <1> DEFINE i == index[p]
             s == req[p].arg
  <1>1. /\ pc[p] = "match" /\ Inside(p) /\ i \in Cell /\ s \in Surnames /\ ~ Adds(p)
        /\ UNCHANGED <<users, heap, status, index>>
        /\ pc' = [pc EXCEPT ![p] = "free"]
        /\ SurnameOf[Surname(i)] = s
        /\ status[i] = "t"
    <2>1. pc[p] = "match" /\ Inside(p) /\ i \in Cell /\ status[i] = "t"
      BY DEF Match, Basic, InPlace, Inside, Holding, InOpenOrClose, Owned, StatusFits
    <2>2. s \in Surnames /\ ~ Adds(p)
      BY <2>1, Arguments DEF Truthful, Fits, Adds, Basic, InPlace
    <2>3. SurnameOf[Surname(i)] = s /\ index' = index
      BY DEF Match, Go, Surname, Basic, Typed
    <2> QED
      BY <2>1, <2>2, <2>3 DEF Match, Go, table, Surname
  <1>2. Alone(p) /\ Alone(p)'
    BY <1>1, InsideAlone, AloneStays
  <1>3. \A j \in Cell : ~ Leaving(j) /\ (Leaving(j)' <=> j = i)
    BY <1>1, <1>2, SoleLeaving, SoleLeavingNext
  <1>4. \A j \in Cell : j < i /\ status[j] = "t" => SurnameOf[Surname(j)] # s
    BY <1>1 DEF Truthful, Passed, Searching
  <1>5. \A j \in Cell : (Stored(j) <=> status[j] = "t") /\ (Stored(j)' <=> (Stored(j) /\ j # i))
    BY <1>1, <1>3 DEF Stored
  <1>6. \A j \in Cell : Surname(j)' = Surname(j)
    BY <1>1, SameStrings DEF Surname
  <1>7. Whole /\ Whole'
    BY DEF Truthful
  <1> HIDE DEF i, s
  <1>8. Book!LowestWith(Book!Under(s), i)
    <2>1. i \in Book!Under(s) /\ \A j \in Book!Under(s) : j \in Cell /\ ~ (j < i)
      BY <1>1, <1>4, <1>5, <1>7, UnderCells
    <2> QED
      BY <1>1, <2>1, FieldFacts DEF Book!LowestWith
  <1>9. book' = [book EXCEPT ![i] = Nobody]
    BY <1>1, <1>5, <1>6, <1>7, BookOf, BookOfNext
  <1> QED
    BY <1>1, <1>8, <1>9 DEF Book!Delete

(* Every other step of a request leaves the book as it is.                 *)
LEMMA OtherSteps ==
  ASSUME Basic, Exclusive, Owned, Truthful, Truthful', NEW p \in Process,
         \/ Invalid(p) \/ Write(p) \/ Scan(p) \/ Fill(p) \/ Format(p) \/ Free(p) \/ Drop(p)
         \/ Say(p) \/ Point(p) \/ Read(p) \/ ReadRest(p)
         \/ Match(p) /\ pc'[p] # "free"
  PROVE  book' = book
  <1>1. Whole /\ Whole'
    BY DEF Truthful
  <1>2. Inside(p) /\ Alone(p) /\ Alone(p)'
    <2>1. Inside(p) /\ \E to \in Places : pc' = [pc EXCEPT ![p] = to]
      BY RequestInside
    <2> QED
      BY <2>1, InsideAlone, AloneStays
  <1>3. \A i \in Cell :
          /\ Leaving(i) <=> index[p] = i /\ pc[p] \in {"free", "drop"}
          /\ Leaving(i)' <=> index'[p] = i /\ pc'[p] \in {"free", "drop"}
    BY <1>2, SoleLeaving, SoleLeavingNext
  <1>4. CASE \/ Invalid(p) \/ Write(p) \/ Scan(p) \/ Format(p)
             \/ Say(p) \/ Point(p) \/ Read(p) \/ ReadRest(p) \/ (Match(p) /\ pc'[p] # "free")
    <2>1. UNCHANGED <<users, heap, status>>
      BY <1>4 DEF Invalid, Write, Scan, Format, Say, Point, Read, ReadRest, Match, table
    <2>2. pc[p] \notin {"free", "drop"} /\ pc'[p] \notin {"free", "drop"}
      BY <1>4 DEF Invalid, Write, Scan, Format, Say, Point, Read, ReadRest, Reads, Match, Go,
                  InSession, Basic, Typed
    <2>3. \A i \in Cell : (Stored(i)' <=> Stored(i)) /\ Surname(i)' = Surname(i)
      BY <1>3, <2>1, <2>2, SameStrings DEF Stored, Surname
    <2> QED
      BY <1>1, <2>3, SameBook
  <1>5. CASE Fill(p)
    <2>1. /\ status' = status /\ pc[p] \notin {"free", "drop"} /\ pc'[p] \notin {"free", "drop"}
      BY <1>5 DEF Fill, Go, Basic, Typed
    <2>2. \A i \in Cell : Stored(i)' <=> Stored(i)
      BY <1>3, <2>1 DEF Stored
    <2>3. \A i \in Cell : Stored(i) => Surname(i)' = Surname(i)
      BY <1>2, <1>5, FillKeeps, DeviceAssumption DEF Stored, Surname
    <2> QED
      BY <1>1, <2>2, <2>3, SameBook
  <1>6. CASE Free(p)
    <2>1. /\ status' = status /\ index' = index
          /\ pc[p] \in {"free", "drop"} /\ pc'[p] \in {"free", "drop"}
      BY <1>6 DEF Free, Go, Basic, Typed
    <2>2. \A i \in Cell : (Stored(i)' <=> Stored(i)) /\ (Stored(i) => i # index[p])
      BY <1>3, <2>1 DEF Stored
    <2>3. \A i \in Cell : Stored(i) => Surname(i)' = Surname(i)
      BY <1>2, <1>6, <2>2, FreeKeeps, DeviceAssumption DEF Stored, Surname
    <2> QED
      BY <1>1, <2>2, <2>3, SameBook
  <1>7. CASE Drop(p)
    <2>1. /\ UNCHANGED <<users, heap, index>> /\ pc[p] = "drop" /\ pc'[p] = "say"
          /\ status' = [status EXCEPT ![index[p]] = "f"]
      BY <1>7 DEF Drop, Go, Basic, Typed
    <2>2. \A i \in Cell : (Stored(i)' <=> Stored(i)) /\ Surname(i)' = Surname(i)
      BY <1>3, <2>1, SameStrings DEF Stored, Surname, Basic, Typed
    <2> QED
      BY <1>1, <2>2, SameBook
  <1> QED
    BY <1>4, <1>5, <1>6, <1>7

LEMMA NextBook ==
  ASSUME OneAtATime, Basic, Exclusive, Owned, Truthful, Truthful', [Next]_vars
  PROVE  [Reload \/ Book!BookNext]_book
  <1>1. CASE UNCHANGED vars
    BY <1>1 DEF vars, book, Holds, StringOf
  <1>2. ASSUME NEW p \in Process,
               Open(p) \/ Test(p) \/ Load(p) \/ Store(p) \/ Close(p) \/ ReadNull(p)
        PROVE  book' = book
    <2>1. UNCHANGED <<users, heap, status, index>>
      BY <1>2 DEF Open, Test, Load, Store, Close, ReadNull, table
    <2>2. \A q \in Process : pc'[q] = pc[q] \/ {pc[q], pc'[q]} \cap {"free", "drop"} = {}
      BY <1>2 DEF Open, Test, Load, Store, Close, ReadNull, Go, InSession, Basic, Typed
    <2>3. \A i \in Cell : (Stored(i)' <=> Stored(i)) /\ Surname(i)' = Surname(i)
      BY <2>1, <2>2, SameStrings DEF Stored, Surname, Leaving
    <2> QED
      BY <2>3, SameBook DEF Truthful
  <1>3. ASSUME NEW p \in Process PROVE ~ UseAfterFree(p)
    <2>1. UseAfterFree(p) => Inside(p)
      BY RequestInside
    <2> QED
      BY <2>1, InsideAlone, NothingFreedIsUsed
  <1>4. ASSUME NEW p \in Process, Take(p) PROVE Book!BookNext
    BY <1>4, TakeAdds DEF Book!BookNext
  <1>5. ASSUME NEW p \in Process, Match(p), pc'[p] = "free" PROVE Book!BookNext
    BY <1>5, MatchDeletes DEF Book!BookNext
  <1> QED
    BY <1>1, <1>2, <1>3, <1>4, <1>5, OtherSteps, RmmodInsideIsLast DEF Next

(* With one holder at a time the device, in all its steps, is a table of   *)
(* contacts that changes one whole contact at a time, the lowest free cell *)
(* or the lowest match first, and that rmmod empties.                      *)
THEOREM DeviceImplementsBook ==
  ASSUME OneAtATime
  PROVE  Spec => ImplementsContactBook
  <1>1. Init => Book!BookInit
    BY DEF Init, Book!BookInit, book
  <1>2. /\ Basic /\ Exclusive /\ Owned /\ Truthful /\ Truthful' /\ [Next]_vars
        => [Reload \/ Book!BookNext]_book
    BY NextBook
  <1> QED
    BY <1>1, <1>2, TruthfulInvariance, PTL DEF Spec, ImplementsContactBook

-----------------------------------------------------------------------------
(* Answers.                                                                *)

Piece ==
  Contacts \cup {"FOUND", "OK", "NOT FOUND", "BAD REQUEST", "INTERNAL ERROR", "rest"}

(* The answer of get_user_note with the first n strings of contact c.      *)
FoundText(c, n) == <<"FOUND">> \o [k \in 1 .. n |-> c]

AnswersTyped ==
  /\ output_data \in Seq(Piece)
  /\ output_ptr \in Nat \cup {NULL}
  /\ got \in [Process -> Seq(Piece)]

Told(p) ==
  /\ pc[p] \in Searching \cup {"point"} => got[p] = <<>>
  /\ pc[p] = "format" /\ field[p] > 0 => output_data = FoundText(Surname(index[p]), field[p])
  /\ pc[p] \in {"point", "answered"} => RightAnswer(req[p], output_data)
  /\ pc[p] = "answered" =>
       output_ptr \in 0 .. Len(output_data) /\ got[p] = SubSeq(output_data, 1, output_ptr)

Answering == AnswersTyped /\ \A p \in Process : Told(p)

LEMMA FoundTextGrows ==
  ASSUME NEW c \in Piece, NEW n \in Nat
  PROVE  /\ FoundText(c, n) \in Seq(Piece)
         /\ <<"FOUND">> \o <<c>> = FoundText(c, 1)
         /\ FoundText(c, n) \o <<c>> = FoundText(c, n + 1)
  <1> DEFINE r(m) == [k \in 1 .. m |-> c]
  <1>1. <<"FOUND">> \in Seq(Piece) /\ <<c>> \in Seq(Piece)
    <2>1. "FOUND" \in Piece
      BY DEF Piece
    <2> QED
      BY <2>1
  <1>2. \A m \in Nat : r(m) \in Seq(Piece) /\ Len(r(m)) = m /\ \A k \in 1 .. m : r(m)[k] = c
    OBVIOUS
  <1>3. r(1) = <<c>>
    <2>1. r(1) \in Seq(Piece) /\ Len(r(1)) = 1 /\ r(1)[1] = c
      BY <1>2
    <2> HIDE DEF r
    <2> QED
      BY <1>1, <2>1, SeqEqual
  <1>4. r(n) \o <<c>> = r(n + 1)
    <2>1. /\ r(n) \in Seq(Piece) /\ r(n + 1) \in Seq(Piece)
          /\ Len(r(n)) = n /\ Len(r(n + 1)) = n + 1
          /\ \A k \in 1 .. n : r(n)[k] = c
          /\ \A k \in 1 .. n + 1 : r(n + 1)[k] = c
      BY <1>2
    <2> HIDE DEF r
    <2>2. /\ r(n) \o <<c>> \in Seq(Piece) /\ Len(r(n) \o <<c>>) = n + 1
          /\ \A k \in 1 .. n + 1 : (r(n) \o <<c>>)[k] = c
      BY <1>1, <2>1, ConcatProperties
    <2> QED
      BY <2>1, <2>2, SeqEqual
  <1>5. (<<"FOUND">> \o r(n)) \o <<c>> = <<"FOUND">> \o (r(n) \o <<c>>)
    <2>1. r(n) \in Seq(Piece)
      BY <1>2
    <2> HIDE DEF r
    <2> QED
      BY <1>1, <2>1, ConcatAssociative
  <1>6. <<"FOUND">> \o r(n) \in Seq(Piece)
    BY <1>1, <1>2, ConcatProperties
  <1> QED
    BY <1>3, <1>4, <1>5, <1>6 DEF FoundText

LEMMA NextPiece ==
  ASSUME NEW s \in Seq(Piece), NEW n \in 0 .. Len(s) - 1
  PROVE  Append(SubSeq(s, 1, n), s[n + 1]) = SubSeq(s, 1, n + 1)
  <1>1. Len(s) \in Nat /\ n + 1 \in 1 .. Len(s) /\ (n + 1) - 1 = n
    OBVIOUS
  <1>2. SubSeq(s, 1, n + 1) = SubSeq(s, 1, n) \o <<s[n + 1]>>
    BY <1>1, SubSeqRecursiveSecond
  <1>3. SubSeq(s, 1, n) \in Seq(Piece) /\ s[n + 1] \in Piece
    BY <1>1
  <1> QED
    BY <1>2, <1>3, AppendIsConcat

(* A step of the one process inside concerns no other answer.              *)
LEMMA OwnAnswer ==
  ASSUME Basic, Exclusive, NEW p \in Process, Inside(p),
         NEW to, pc' = [pc EXCEPT ![p] = to], AnswersTyped', Told(p)'
  PROVE  Answering'
  <1> SUFFICES ASSUME NEW q \in Process, q # p PROVE Told(q)'
    BY DEF Answering
  <1>1. pc'[q] \in {"closed", "test", "load", "store"}
    BY OthersOutside DEF Basic, Typed
  <1> QED
    BY <1>1 DEF Told, Searching

LEMMA SameTruth ==
  ASSUME UNCHANGED <<users, heap, status>>
  PROVE  /\ Taken' = Taken
         /\ \A i, c : Holds(i, c)' <=> Holds(i, c)
         /\ \A s : Under(s)' = Under(s)
  <1>1. Taken' = Taken
    BY DEF Taken
  <1>2. \A i, f : StringOf(i, f)' = StringOf(i, f)
    BY DEF StringOf
  <1>3. \A s : Under(s)' = Under(s)
    BY <1>1, <1>2 DEF Under
  <1>4. \A i, c : Holds(i, c)' <=> Holds(i, c)
    BY <1>2 DEF Holds
  <1> QED
    BY <1>1, <1>3, <1>4

(* An answer that is right stays right while the table is the same.        *)
LEMMA SameAnswer ==
  ASSUME UNCHANGED <<users, heap, status>>, NEW p \in Process,
         req'[p] = req[p], RightAnswer(req[p], output_data')
  PROVE  RightAnswer(req[p], output_data)'
  <1> DEFINE r == req[p]
             text == output_data'
  <1>1. CASE r.op = "bad" /\ text = <<"BAD REQUEST">>
    BY <1>1 DEF RightAnswer
  <1>2. CASE r.op = "add" /\ text = <<"OK">> /\ \E i \in Cell : Holds(i, r.arg)
    BY <1>2, SameTruth DEF RightAnswer
  <1>3. CASE r.op = "add" /\ text = <<"INTERNAL ERROR">> /\ Taken = Cell
    BY <1>3, SameTruth DEF RightAnswer
  <1>4. CASE /\ r.op = "get"
             /\ \E i \in Under(r.arg), c \in Contacts :
                  /\ \A j \in Under(r.arg) : i <= j
                  /\ Holds(i, c)
                  /\ text = <<"FOUND">> \o [k \in 1 .. Len(FieldOrder) |-> c]
    BY <1>4, SameTruth DEF RightAnswer
  <1>5. CASE r.op = "delete" /\ text = <<"OK">>
    BY <1>5 DEF RightAnswer
  <1>6. CASE r.op \in {"get", "delete"} /\ text = <<"NOT FOUND">> /\ Under(r.arg) = {}
    BY <1>6, SameTruth DEF RightAnswer
  <1> QED
    BY <1>1, <1>2, <1>3, <1>4, <1>5, <1>6 DEF RightAnswer

LEMMA BeginAnswering ==
  ASSUME Basic, Exclusive, Answering, NEW p \in Process, Invalid(p) \/ Write(p)
  PROVE  Answering'
  <1>1. /\ UNCHANGED <<output_data, output_ptr, index, field>>
        /\ got' = [got EXCEPT ![p] = <<>>]
        /\ Inside(p)
    BY DEF Invalid, Write, answer, InSession, Inside, Holding, InOpenOrClose
  <1>2. PICK to \in {"opened", "say", "scan"} : pc' = [pc EXCEPT ![p] = to]
    BY DEF Invalid, Write, Go
  <1>3. AnswersTyped'
    BY <1>1 DEF Answering, AnswersTyped
  <1>4. Told(p)'
    BY <1>1, <1>2 DEF Answering, AnswersTyped, Told, Basic, Typed, Searching
  <1> QED
    BY <1>1, <1>2, <1>3, <1>4, OwnAnswer

LEMMA SearchAnswering ==
  ASSUME Basic, Exclusive, Answering, NEW p \in Process,
         Scan(p) \/ Match(p) \/ Fill(p) \/ Take(p) \/ Free(p) \/ Drop(p)
  PROVE  Answering'
  <1>1. UNCHANGED <<output_data, output_ptr, got>>
    BY DEF Scan, Match, Fill, Take, Free, Drop, answer
  <1>2. PICK to \in Searching :
          /\ pc' = [pc EXCEPT ![p] = to]
          /\ to = "format" => pc[p] = "match" /\ field' = field
    BY DEF Scan, Match, Fill, Take, Free, Drop, Go, Searching
  <1>3. Inside(p) /\ pc[p] \in Searching
    BY DEF Scan, Match, Fill, Take, Free, Drop, Go, Searching, Inside, Holding, InOpenOrClose
  <1>4. to = "format" => field'[p] = 0
    BY <1>2 DEF Basic, InPlace
  <1>5. AnswersTyped'
    BY <1>1 DEF Answering, AnswersTyped
  <1>6. pc'[p] = to
    BY <1>2 DEF Basic, Typed
  <1>7. Told(p)'
    BY <1>1, <1>2, <1>3, <1>4, <1>6 DEF Answering, Told, Searching
  <1> QED
    BY <1>2, <1>3, <1>5, <1>7, OwnAnswer

LEMMA FormatAnswering ==
  ASSUME Basic, Exclusive, Owned, Truthful, Answering, NEW p \in Process, Format(p)
  PROVE  Answering'
  <1> DEFINE i == index[p]
             c == Surname(i)
             n == field[p] + 1
  <1>1. /\ pc[p] = "format" /\ Inside(p) /\ i \in Cell /\ status[i] = "t"
        /\ req[p].op = "get" /\ SurnameOf[c] = req[p].arg
        /\ UNCHANGED <<users, heap, status, output_ptr, req, index, got>>
        /\ pc' = [pc EXCEPT ![p] = IF LastField(p) THEN "point" ELSE "format"]
        /\ field' = [field EXCEPT ![p] = IF LastField(p) THEN 0 ELSE @ + 1]
    BY DEF Format, Go, table, Basic, InPlace, Inside, Holding, InOpenOrClose, Owned, StatusFits,
           Truthful, Fits
  <1>2. Stored(i)
    <2>1. Alone(p)
      BY <1>1, InsideAlone
    <2> QED
      BY <1>1, <2>1, SoleLeaving DEF Stored
  <1>3. c \in Contacts /\ c \in Piece /\ Holds(i, c)
    BY <1>1, <1>2, StoredHolds DEF Truthful, Piece
  <1>4. NextField(p) \in Fields /\ field[p] \in Nat /\ n \in Slot /\ (LastField(p) <=> n = Len(FieldOrder))
    BY NextSlot, FieldFacts DEF Basic, Typed, LastField
  <1>5. output_data' = (IF field[p] = 0 THEN <<"FOUND">> ELSE output_data) \o <<c>>
    BY <1>3, <1>4 DEF Format, Holds
  <1>6. output_data' = FoundText(c, n)
    <2>1. CASE field[p] = 0
      BY <1>3, <1>5, <2>1, FoundTextGrows
    <2>2. CASE field[p] # 0
      <3>1. output_data = FoundText(c, field[p])
        BY <1>1, <1>4, <2>2 DEF Answering, Told
      <3> QED
        BY <1>3, <1>4, <1>5, <2>2, <3>1, FoundTextGrows
    <2> QED
      BY <2>1, <2>2
  <1>7. AnswersTyped'
    <2>1. n \in Nat
      BY <1>4
    <2>2. output_data' \in Seq(Piece)
      BY <1>3, <1>6, <2>1, FoundTextGrows
    <2> QED
      BY <1>1, <2>2 DEF Answering, AnswersTyped
  <1>8. got'[p] = <<>>
    BY <1>1 DEF Answering, Told, Searching
  <1>9. Surname(index[p])' = c
    BY <1>1 DEF Surname, StringOf
  <1>10. CASE ~ LastField(p)
    <2>1. pc'[p] = "format" /\ field'[p] = n
      BY <1>1, <1>10 DEF Basic, Typed
    <2> QED
      BY <1>1, <1>6, <1>7, <1>8, <1>9, <2>1, OwnAnswer DEF Told, Searching
  <1>11. CASE LastField(p)
    <2>1. pc'[p] = "point"
      BY <1>1, <1>11 DEF Basic, Typed
    <2>2. output_data' = <<"FOUND">> \o [k \in 1 .. Len(FieldOrder) |-> c]
      BY <1>4, <1>6, <1>11 DEF FoundText
    <2>3. i \in Under(req[p].arg) /\ \A j \in Under(req[p].arg) : j \in Cell /\ ~ (j < i)
      BY <1>1 DEF Under, Taken, Truthful, Passed, Searching, Adds, Surname
    <2>4. \A j \in Under(req[p].arg) : i <= j
      BY <1>1, <2>3, FieldFacts
    <2>5. RightAnswer(req[p], output_data')
      BY <1>1, <1>3, <2>2, <2>3, <2>4 DEF RightAnswer
    <2>6. RightAnswer(req[p], output_data)'
      BY <1>1, <2>5, SameAnswer
    <2> QED
      BY <1>1, <1>7, <1>8, <2>1, <2>6, OwnAnswer DEF Told, Searching
  <1> QED
    BY <1>10, <1>11

LEMMA SayAnswering ==
  ASSUME Basic, Exclusive, Truthful, Answering, NEW p \in Process, Say(p)
  PROVE  Answering'
  <1>1. /\ pc[p] = "say" /\ Inside(p)
        /\ UNCHANGED <<users, heap, status, output_ptr, req, index, got>>
        /\ pc' = [pc EXCEPT ![p] = "point"] /\ output_data' = <<Message(p)>>
    BY DEF Say, Go, table, Inside, Holding, InOpenOrClose
  <1>2. Fits(p) /\ Passed(p) /\ index[p] \in 0 .. UserCount
    BY DEF Truthful, Basic, Typed
  <1>3. RightAnswer(req[p], <<Message(p)>>)
    <2>1. CASE req[p].op = "bad"
      BY <2>1 DEF Message, RightAnswer
    <2>2. CASE req[p].op # "bad" /\ index[p] < UserCount
      <3>1. index[p] \in Cell /\ Message(p) = "OK"
        BY <1>2, <2>2, FieldFacts DEF Message
      <3>2. req[p].op = "delete" \/ (req[p].op = "add" /\ Holds(index[p], req[p].arg))
        BY <1>1, <1>2, <2>2 DEF Fits, Searching, Adds
      <3> QED
        BY <3>1, <3>2 DEF RightAnswer
    <2>3. CASE req[p].op = "add" /\ ~ (index[p] < UserCount)
      <3>1. Taken = Cell
        BY <1>1, <1>2, <2>3, FieldFacts DEF Taken, Passed, Searching, Adds
      <3> QED
        BY <2>3, <3>1 DEF RightAnswer, Message, Adds
    <2>4. CASE req[p].op \in {"get", "delete"} /\ ~ (index[p] < UserCount)
      <3>1. Under(req[p].arg) = {}
        BY <1>1, <1>2, <2>4, FieldFacts DEF Under, Taken, Passed, Searching, Adds, Surname
      <3> QED
        BY <2>4, <3>1 DEF RightAnswer, Message, Adds
    <2> QED
      BY <1>1, <1>2, <2>1, <2>2, <2>3, <2>4 DEF Fits, Searching
  <1>4. RightAnswer(req[p], output_data)'
    BY <1>1, <1>3, SameAnswer
  <1>5. AnswersTyped'
    <2>1. Message(p) \in Piece
      BY DEF Message, Piece
    <2> QED
      BY <1>1, <2>1 DEF Answering, AnswersTyped
  <1>6. pc'[p] = "point" /\ got'[p] = <<>>
    BY <1>1 DEF Answering, Told, Searching, Basic, Typed
  <1> QED
    BY <1>1, <1>4, <1>5, <1>6, OwnAnswer DEF Told, Searching

LEMMA ReadAnswering ==
  ASSUME Basic, Exclusive, Answering, NEW p \in Process, Point(p) \/ Read(p) \/ ReadRest(p)
  PROVE  Answering'
  <1>1. /\ UNCHANGED <<users, heap, status, output_data, req>>
        /\ Inside(p)
    BY DEF Point, Read, ReadRest, Reads, table, answer, InSession, Go, Inside, Holding, InOpenOrClose
  <1>2. CASE Point(p)
    <2>1. /\ pc' = [pc EXCEPT ![p] = "answered"] /\ pc'[p] = "answered"
          /\ output_ptr' = 0 /\ got' = got
          /\ got[p] = <<>> /\ RightAnswer(req[p], output_data)
      BY <1>2 DEF Point, Go, Answering, Told, Basic, Typed
    <2>2. AnswersTyped'
      BY <1>1, <2>1 DEF Answering, AnswersTyped
    <2>3. SubSeq(output_data, 1, 0) = <<>> /\ Len(output_data) \in Nat
      BY SubSeqEmpty DEF Answering, AnswersTyped
    <2>4. Told(p)'
      BY <1>1, <2>1, <2>3, SameAnswer DEF Told, Searching
    <2> QED
      BY <1>1, <2>1, <2>2, <2>4, OwnAnswer
  <1>3. CASE Read(p) \/ ReadRest(p)
    <2>1. PICK to \in {"opened", "answered"} :
            pc[p] = to /\ pc' = [pc EXCEPT ![p] = to] /\ pc'[p] = to
      BY <1>3 DEF Read, ReadRest, Reads, InSession, Go, Basic, Typed
    <2>2. CASE Read(p)
      <3>1. /\ output_ptr \in 0 .. Len(output_data) - 1
            /\ got' = [got EXCEPT ![p] = Append(got[p], output_data[output_ptr + 1])]
            /\ output_ptr' = output_ptr + 1
        BY <2>2 DEF Read, Answering, AnswersTyped
      <3>2. output_data[output_ptr + 1] \in Piece /\ Len(output_data) \in Nat
        BY <3>1 DEF Answering, AnswersTyped
      <3>3. Append(got[p], output_data[output_ptr + 1]) \in Seq(Piece)
        BY <3>2 DEF Answering, AnswersTyped
      <3>4. AnswersTyped'
        BY <1>1, <3>1, <3>3 DEF Answering, AnswersTyped
      <3>5. CASE to = "answered"
        <4>1. got[p] = SubSeq(output_data, 1, output_ptr) /\ RightAnswer(req[p], output_data)
          BY <2>1, <3>5 DEF Answering, Told
        <4>2. got'[p] = SubSeq(output_data, 1, output_ptr + 1)
          BY <3>1, <4>1, NextPiece DEF Answering, AnswersTyped
        <4>3. output_ptr' \in 0 .. Len(output_data')
          BY <1>1, <3>1, <3>2
        <4>4. RightAnswer(req[p], output_data)'
          BY <1>1, <4>1, SameAnswer
        <4>5. Told(p)'
          BY <1>1, <2>1, <3>1, <3>5, <4>2, <4>3, <4>4 DEF Told, Searching
        <4> QED
          BY <1>1, <2>1, <3>4, <4>5, OwnAnswer
      <3>6. CASE to = "opened"
        BY <1>1, <2>1, <3>4, <3>6, OwnAnswer DEF Told, Searching
      <3> QED
        BY <3>5, <3>6
    <2>3. CASE ReadRest(p)
      <3>1. output_ptr \in Nat /\ output_ptr > Len(output_data) /\ Len(output_data) \in Nat
        BY <2>3 DEF ReadRest, Answering, AnswersTyped
      <3>2. to = "opened"
        BY <2>1, <3>1 DEF Answering, Told
      <3>3. AnswersTyped'
        <4>1. Append(got[p], "rest") \in Seq(Piece)
          <5>1. "rest" \in Piece
            BY DEF Piece
          <5> QED
            BY <5>1 DEF Answering, AnswersTyped
        <4> QED
          BY <2>3, <4>1 DEF ReadRest, answer, Answering, AnswersTyped
      <3> QED
        BY <1>1, <2>1, <3>2, <3>3, OwnAnswer DEF Told, Searching
    <2> QED
      BY <1>3, <2>2, <2>3
  <1> QED
    BY <1>2, <1>3

LEMMA OpenCloseAnswering ==
  ASSUME Basic, Answering, NEW p \in Process,
         Open(p) \/ Test(p) \/ Load(p) \/ Store(p) \/ Close(p) \/ ReadNull(p)
  PROVE  Answering'
  <1>1. UNCHANGED <<users, heap, status, output_data, output_ptr, index, field, req>>
    BY DEF Open, Test, Load, Store, Close, ReadNull, table, answer
  <1>2. /\ pc'[p] \in Rest \ {"answered"}
        /\ \A q \in Process : q # p => pc'[q] = pc[q]
    BY DEF Open, Test, Load, Store, Close, ReadNull, Go, InSession, Rest, Basic, Typed
  <1>3. got' = got \/ got' = [got EXCEPT ![p] = <<>>]
    BY DEF Open, Test, Load, Store, Close, ReadNull
  <1>4. AnswersTyped' /\ \A q \in Process : q # p => got'[q] = got[q]
    <2>1. <<>> \in Seq(Piece) /\ got \in [Process -> Seq(Piece)]
      BY DEF Answering, AnswersTyped
    <2>2. got' \in [Process -> Seq(Piece)] /\ \A q \in Process : q # p => got'[q] = got[q]
      BY <1>3, <2>1
    <2> QED
      BY <1>1, <2>2 DEF Answering, AnswersTyped
  <1>5. ASSUME NEW q \in Process PROVE Told(q)'
    <2>1. CASE q = p
      BY <1>2, <2>1 DEF Told, Searching, Rest
    <2>2. CASE q # p
      BY <1>1, <1>2, <1>4, <2>2, SameAnswer DEF Answering, Told, Surname, StringOf
    <2> QED
      BY <2>1, <2>2
  <1> QED
    BY <1>4, <1>5 DEF Answering

LEMMA NextAnswering ==
  ASSUME OneAtATime, Basic, Exclusive, Owned, Truthful, Answering, [Next]_vars
  PROVE  Answering'
  <1>1. CASE UNCHANGED vars
    <2>1. \A p \in Process : Told(p) => Told(p)'
      BY <1>1, SameAnswer DEF vars, Told, Surname, StringOf
    <2> QED
      BY <1>1, <2>1 DEF vars, Answering, AnswersTyped
  <1>2. CASE Reload
    BY <1>2 DEF Reload, Answering, AnswersTyped, Told, Searching
  <1>3. ASSUME NEW p \in Process PROVE ~ UseAfterFree(p)
    <2>1. UseAfterFree(p) => Inside(p)
      BY RequestInside
    <2> QED
      BY <2>1, InsideAlone, NothingFreedIsUsed
  <1> QED
    BY <1>1, <1>2, <1>3, OpenCloseAnswering, BeginAnswering, SearchAnswering, FormatAnswering,
       SayAnswering, ReadAnswering, RmmodInsideIsLast DEF Next

LEMMA InitAnswering == Init => Answering
  BY DEF Init, Answering, AnswersTyped, Told, Searching

LEMMA AnsweringInvariance ==
  ASSUME OneAtATime
  PROVE  Spec => [](Basic /\ Exclusive /\ Owned /\ Truthful /\ Answering)
  <1>1. Init => Basic /\ Exclusive /\ Owned /\ Truthful /\ Answering
    BY InitTyped, InitExclusive, InitOwned, InitTruthful, InitAnswering
  <1>2. Basic /\ Exclusive /\ Owned /\ Truthful /\ Answering /\ [Next]_vars
          => (Basic /\ Exclusive /\ Owned /\ Truthful /\ Answering)'
    BY NextTyped, NextExclusive, NextOwned, NextTruthful, NextAnswering
  <1> QED
    BY <1>1, <1>2, PTL DEF Spec

(* With one holder at a time, a process that has written a request reads   *)
(* the beginning of the answer to that request, and the answer is true of  *)
(* the table, for any number of processes, cells and strings.              *)
THEOREM AnswersAreOwn ==
  ASSUME OneAtATime
  PROVE  Spec => []AnswerIsOwn
  <1>1. Answering => AnswerIsOwn
    BY DEF Answering, Told, AnswerIsOwn
  <1> QED
    BY <1>1, AnsweringInvariance, PTL

-----------------------------------------------------------------------------
(* Only between the load and the store of ++ and -- is something loaded.   *)

Loaded == \A p \in Process : pc[p] \notin {"store", "unstore"} => loaded[p] = 0

LEMMA NextLoaded ==
  ASSUME OneAtATime, Basic, Loaded, [Next]_vars
  PROVE  Loaded'
  <1>1. CASE UNCHANGED vars \/ Reload
    BY <1>1 DEF vars, Reload, Loaded
  <1>2. ASSUME NEW p \in Process,
               \/ Invalid(p) \/ Write(p) \/ Scan(p) \/ Match(p) \/ Fill(p) \/ Take(p)
               \/ Format(p) \/ Free(p) \/ Drop(p) \/ UseAfterFree(p)
               \/ Say(p) \/ Point(p) \/ Read(p) \/ ReadRest(p)
        PROVE  Loaded'
    <2>1. Inside(p) /\ UNCHANGED session /\ \E to \in Places : pc' = [pc EXCEPT ![p] = to]
      BY <1>2, RequestInside
    <2> QED
      BY <2>1 DEF Loaded, session, Inside, InOpenOrClose, Basic, Typed
  <1>3. ASSUME NEW p \in Process, Open(p) \/ Test(p) \/ Close(p) \/ ReadNull(p)
        PROVE  Loaded'
    BY <1>3 DEF Open, Test, Close, ReadNull, Go, InSession, session, Loaded, Basic, Typed
  <1>4. ASSUME NEW p \in Process, Load(p) \/ Store(p)
        PROVE  Loaded'
    BY <1>4 DEF Load, Store, Go, Loaded, Basic, Typed
  <1> QED
    BY <1>1, <1>2, <1>3, <1>4, RmmodInsideIsLast DEF Next

(* With one holder at a time open_counter is never anything but 0 or 1,    *)
(* and every loop of the device stays in its bounds.                       *)
THEOREM DeviceTyped ==
  ASSUME OneAtATime, IsFiniteSet(Process)
  PROVE  Spec => []TypeOK
  <1>1. Init => Loaded
    BY DEF Init, Loaded
  <1>2. Basic /\ Exclusive /\ Owned /\ Answering /\ Loaded => TypeOK
    <2> SUFFICES ASSUME Basic, Exclusive, Owned, Answering, Loaded PROVE TypeOK
      OBVIOUS
    <2>1. open_counter \in {0, 1} /\ (open_counter = 1 => Process # {})
      BY DEF Exclusive
    <2>2. Cardinality(Process) \in Nat /\ (Process # {} => Cardinality(Process) >= 1)
      <3>1. Cardinality(Process) \in Nat
        BY FS_CardinalityType
      <3>2. Cardinality(Process) = 0 <=> Process = {}
        BY FS_EmptySet
      <3> QED
        BY <3>1, <3>2
    <2>3. open_counter \in -MaxDrift .. Cardinality(Process)
      BY <2>1, <2>2, DeviceAssumption
    <2>4. \A p \in Process : loaded[p] \in -MaxDrift .. Cardinality(Process)
      <3>1. \A p \in Process : loaded[p] \in {0, open_counter}
        BY DEF Loaded, Exclusive
      <3>2. 0 \in -MaxDrift .. Cardinality(Process)
        BY <2>2, DeviceAssumption
      <3> QED
        BY <2>3, <3>1, <3>2
    <2>5. loaded \in [Process -> -MaxDrift .. Cardinality(Process)]
      BY <2>4 DEF Basic, Typed
    <2> QED
      BY <2>3, <2>5 DEF Basic, Typed, Owned, Answering, AnswersTyped, TypeOK
  <1>3. Basic /\ Loaded /\ [Next]_vars => Loaded'
    BY NextLoaded
  <1> QED
    BY <1>1, <1>2, <1>3, AnsweringInvariance, PTL DEF Spec
=============================================================================
