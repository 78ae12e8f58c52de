------------------------- MODULE MCBatchOperations -------------------------
(***************************************************************************)
(* BatchOperations on a batch of three files: enough for one work that is  *)
(* created late, one that fails and one that succeeds, in every order.     *)
(***************************************************************************)
EXTENDS BatchOperations

MCNumUploads == 3
=============================================================================
