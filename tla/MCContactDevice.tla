-------------------------- MODULE MCContactDevice --------------------------
(* Constants for the model checking of ContactDevice.                      *)
EXTENDS ContactDevice, TLC

CONSTANTS p1, p2,                  \* processes
          c1, c2, c3, s1, s2,      \* contacts and surnames
          a1, a2, a3, a4, a5, a6   \* addresses

Namesakes == [c \in Contacts |-> IF c = c2 THEN s2 ELSE s1]

TwoStrings == <<"name", "surname">>

HeapSymmetry == Permutations(Addr)
UserSymmetry == Permutations(Addr) \cup Permutations(Process)
=============================================================================
