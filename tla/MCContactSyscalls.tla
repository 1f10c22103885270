------------------------- MODULE MCContactSyscalls -------------------------
(* Constants for the model checking of ContactSyscalls.                    *)
EXTENDS ContactSyscalls

CONSTANTS w, r1,              \* threads
          c1, c2, c3, s1, s2  \* contacts and surnames

Namesakes == [c \in Contacts |-> IF c = c2 THEN s2 ELSE s1]

LongPhone == [c \in Contacts |-> IF c = c3 THEN {"phone"} ELSE {}]

AddsOf(C)  == [op : {"add"}, arg : C]
Gets(S)    == [op : {"get"}, arg : S]
Deletes(S) == [op : {"del"}, arg : S]

(* One thread adds everybody and deletes s2, never s1; the other looks up. *)
OneWriter ==
  [t \in Thread |-> IF t = w THEN AddsOf(Contacts) \cup Deletes({s2}) ELSE Gets(Surnames)]
=============================================================================
