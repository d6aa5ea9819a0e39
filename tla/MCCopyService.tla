---------------------------- MODULE MCCopyService ----------------------------
(* Small instances of CopyService for TLC: folders that are not nested in   *)
(* one another, each with its own name.                                     *)
EXTENDS CopyService

CONSTANTS f1, f2, none

FlatParent == [f \in Folder |-> none]
OwnName == [f \in Folder |-> f]

(* Nothing distinguishes the two folders; requests are ordered by number.   *)
Symmetry == Permutations({f1, f2})

==============================================================================
