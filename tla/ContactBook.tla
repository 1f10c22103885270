----------------------------- MODULE ContactBook -----------------------------
(***************************************************************************)
(* What the two contact stores, the system calls and the device, promise:  *)
(* a table of contacts that changes in one step, by an add that takes the  *)
(* lowest free cell or by a delete that empties the lowest cell with the   *)
(* surname.                                                                *)
(***************************************************************************)
EXTENDS Integers

CONSTANTS Cell, Contacts, Surnames, SurnameOf, Nobody

VARIABLE book    \* book[i]: the contact in cell i, or Nobody

LowestWith(P, i) == i \in P /\ \A j \in P : i <= j

Empty == {i \in Cell : book[i] = Nobody}
Under(s) == {i \in Cell \ Empty : SurnameOf[book[i]] = s}

BookInit == book = [i \in Cell |-> Nobody]

Add(c) ==
  \E i \in Cell : LowestWith(Empty, i) /\ book' = [book EXCEPT ![i] = c]

Delete(s) ==
  \E i \in Cell : LowestWith(Under(s), i) /\ book' = [book EXCEPT ![i] = Nobody]

BookNext == (\E c \in Contacts : Add(c)) \/ (\E s \in Surnames : Delete(s))

BookSpec == BookInit /\ [][BookNext]_book
=============================================================================
