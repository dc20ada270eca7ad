------------------------ MODULE MCBlockRangeIndexer ------------------------
(* Small instances of BlockRangeIndexer. *)
EXTENDS BlockRangeIndexer

CONSTANTS w1, w2, w3

Range15 == {<<1, 5>>}
Range14 == {<<1, 4>>}

NoRows == {[n \in Blocks |-> "absent"]}

(* Any rows, of which some cannot be read. *)
AnyRows == [Blocks -> {"absent", "trades", "unreadable"}]
=============================================================================
