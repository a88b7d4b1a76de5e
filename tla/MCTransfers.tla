---------------------------- MODULE MCTransfers ----------------------------
(***************************************************************************)
(* Transfers on a small instance: a payout whose job may stall once, and   *)
(* beside it either a second execution of the cron or a second payout that *)
(* takes a place in the batch.                                             *)
(***************************************************************************)
EXTENDS Transfers

CONSTANTS p1, p2, k1, k2

\* Bounds: no worker gets to the second payout, so that only polls decide it,
\* and a poll of k2 begins only where there is no second payout.
FewNext ==
    /\ Next
    /\ run'[p2] = run[p2]
    /\ request'[p2] = "new" \/ Idle(k2)'

FewSpec == Init /\ [][FewNext]_vars /\ Fairness
=============================================================================
