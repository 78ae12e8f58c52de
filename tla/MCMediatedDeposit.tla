------------------------- MODULE MCMediatedDeposit -------------------------
(***************************************************************************)
(* The mediated deposit workflow with two web workers: one may be inside   *)
(* an action while the other loads, opens a form or finishes.              *)
(***************************************************************************)
EXTENDS MediatedDeposit, TLC

CONSTANTS w1, w2
MCWorkers == {w1, w2}
MCSymmetry == Permutations(MCWorkers)

MCNoFailure == {}
MCReviewFailures == {"approve", "request_changes"}
=============================================================================
