---------------------------- MODULE MiniFSStore ----------------------------
(***************************************************************************)
(* MiniFS as a store of inodes: the blocks of an inode, in the order in    *)
(* which next_block links them, hold one sequence of cells.  Through that  *)
(* mapping the commands of MiniFS implement InodeStore.                    *)
(***************************************************************************)
EXTENDS MiniFS

(* minifs_read_data: the cells of block b, then those of the blocks that   *)
(* next_block leads to, one block after the other.  Block 0, where the     *)
(* root starts and which `current_block_id > 0' skips, is no file's.       *)
Contents(bm, b) ==
  LET from[x \in Walk(bm, b, 0)] ==
        LET next == bm[x].next_block
        IN  IF next \in Block THEN bm[x].cells \o from[next] ELSE bm[x].cells
  IN  from[b]

Store == INSTANCE InodeStore WITH
  Kinds  <- {FILE, DIR},
  NoKind <- EMPTY,
  kind   <- [i \in Inode |-> inode_map[i].type],
  data   <- [i \in Inode |->
               IF Live(i) THEN Contents(block_map, inode_map[i].root_block) ELSE <<>>]

(* The commands see inodes that each hold a growing sequence of cells:     *)
(* minifs_append_data and the loops that free a chain neither lose,        *)
(* reorder, double nor share a cell, and a minifs_remove_from_dir with a   *)
(* wrong index does no more than clear `used'.                             *)
ImplementsInodeStore == Store!StoreSpec

(* A file holds as many cells as write has been given, however many blocks *)
(* an append fills and takes, as long as the strlen(input) after           *)
(* free(input) still gives the length of the input.                        *)
TextIsWhole ==
  FreedLengths = {} =>
    \A i \in Inode : inode_map[i].type = FILE =>
      Len(Contents(block_map, inode_map[i].root_block)) = inode_map[i].size
=============================================================================
