---------------------------- MODULE MCTransfers ----------------------------
(***************************************************************************)
(* Transfers of one work among three users: one who has it, one who may be *)
(* asked and one who was given edit access by others.                      *)
(***************************************************************************)
EXTENDS Transfers

CONSTANTS a, b, c, w1, w2

MCUsers == {a, b, c}
MCTwoWorkers == {w1, w2}
MCSymmetry == Permutations(MCUsers) \cup Permutations(MCTwoWorkers)
=============================================================================
