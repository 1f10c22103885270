----------------------------- MODULE MCMiniFS -----------------------------
(* Constants for the model checking of MiniFS.                             *)
EXTENDS MiniFSStore, TLC

CONSTANTS n1, n2, n27, n28   \* names; n27 and n28 have 27 and 28 characters

Whole     == [n \in Names |-> n]
LastIsCut == [n \in Names |-> IF n = n27 THEN n1 ELSE n]

(* Sound although n27 is cut to n1: a command that is given n27 leads to   *)
(* a state that it also leads to when given n1, or a name without matches. *)
NameSymmetry == Permutations({n1, n2})
=============================================================================
