--------------------------- MODULE MCMiniFSCrash ---------------------------
(* Constants for the model checking of MiniFSCrash.                        *)
EXTENDS MiniFSCrash

CONSTANTS n1, StruckHead, StruckField

Whole == [n \in Names |-> n]

(* One cell before the bodies, in one field of one head.                   *)
OneHit == [c \in 1 - BlockCells .. -1 |-> [head |-> StruckHead, field |-> StruckField]]
=============================================================================
