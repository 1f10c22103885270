----------------------------- MODULE InodeStore -----------------------------
(***************************************************************************)
(* What the block layer of MiniFS promises to the commands above it: every *)
(* inode in use holds one growing sequence of cells, as if blocks and free *)
(* lists did not exist.  A step makes an inode and adds its entry to a     *)
(* directory, adds text to a file, or drops an inode with all it holds.    *)
(* The only thing that may happen to a cell already written is that its    *)
(* byte `used' is cleared, by rm and rmdir.                                *)
(***************************************************************************)
EXTENDS Integers, Sequences

CONSTANTS Inode, Kinds, NoKind, Cell

VARIABLES
  kind,    \* kind[i]: file or directory, NoKind when i is not in use
  data     \* data[i]: the cells of i, none when i is not in use

svars == <<kind, data>>

InUse(i) == kind[i] # NoKind

(* Sequence t is s, except that `used' may have been cleared here or there *)
ClearedFrom(s, t) ==
  /\ Len(t) = Len(s)
  /\ \A k \in 1 .. Len(s) :
       t[k] = s[k] \/ t[k] = [s[k] EXCEPT !.used = FALSE]

StoreInit ==
  \E root \in Inode, k \in Kinds :
    /\ kind = [i \in Inode |-> IF i = root THEN k ELSE NoKind]
    /\ data = [i \in Inode |-> <<>>]

(* Inode i comes into use, and one cell that names it is added to d, which *)
(* was in use or is i itself.                                              *)
Make(i, k, d) ==
  /\ ~ InUse(i)
  /\ kind' = [kind EXCEPT ![i] = k]
  /\ d = i \/ InUse(d)
  /\ \E c \in Cell :
       /\ c.inode = i /\ c.used
       /\ data' = [data EXCEPT ![d] = Append(@, c)]

(* Text is added to the end of inode i.                                    *)
Extend(i) ==
  /\ InUse(i)
  /\ Len(data'[i]) >= Len(data[i])
  /\ \A c \in {data'[i][k] : k \in Len(data[i]) + 1 .. Len(data'[i])} : c.inode \notin Inode
  /\ data' = [data EXCEPT ![i] = @ \o SubSeq(data'[i], Len(@) + 1, Len(data'[i]))]
  /\ UNCHANGED kind

(* Inodes of D go out of use: one, or none when the command dies before.   *)
Drop(D) ==
  /\ \A i \in D : InUse(i)
  /\ kind' = [i \in Inode |-> IF i \in D THEN NoKind ELSE kind[i]]
  /\ DOMAIN data' = Inode
  /\ \A i \in Inode : IF i \in D THEN data'[i] = <<>> ELSE ClearedFrom(data[i], data'[i])

StoreNext ==
  \/ \E i, d \in Inode, k \in Kinds : Make(i, k, d)
  \/ \E i \in Inode : Extend(i) \/ Drop({i})
  \/ Drop({})

StoreSpec == StoreInit /\ [][StoreNext]_svars
=============================================================================
