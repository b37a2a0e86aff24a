--------------------------- MODULE MCUpdatePages ---------------------------
(* UpdatePages on small instances.                                         *)
EXTENDS UpdatePages

At(page, ordered, shared, tasks, moves) ==
  [page |-> page, ordered |-> ordered, shared |-> shared, tasks |-> tasks, moves |-> moves]

(* The detail page undisturbed; with answers out of order; left for        *)
(* another instance while others start updates.  The support page left and *)
(* come back to.                                                           *)
PageEnvs == {At("detail", TRUE, FALSE, 3, 0), At("detail", FALSE, FALSE, 3, 0),
             At("detail", FALSE, TRUE, 2, 1), At("support", FALSE, FALSE, 4, 2)}

OneOfTwo == {At("detail", TRUE, TRUE, 2, 0)}
=============================================================================
