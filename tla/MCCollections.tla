--------------------------- MODULE MCCollections ---------------------------
(***************************************************************************)
(* Collections on a small instance: two attempts at one invoice, of which  *)
(* the second may be left out in favour of an order without an invoice.    *)
(***************************************************************************)
EXTENDS Collections, TLC

CONSTANTS a1, a2, o1, t1, t2, h1, h2, inv

MCFor == a1 :> inv @@ a2 :> inv @@ o1 :> None

\* Bounds: a single transfer is notified twice.  Two transfers are notified once
\* each, one after the other if there is a second attempt, and then the first of
\* them comes with our reference.  Of two that are alike, the first one begins
\* first.
FewNext ==
    /\ Next
    /\ pay'[a2] = "new" \/ pay'[o1] = "new"
    /\ to'[t2] # None =>
        /\ pay'[o1] = "new"
        /\ \A t \in Transfer : deliveries'[t] < 2
        /\ pay'[a2] # "new" => at'[h2] = None /\ echo' = {t1}
    /\ pay'[a1] = "new" => pay'[a2] = "new"
    /\ to'[t1] = None => to'[t2] = None
    /\ at[h2] = None /\ at'[h2] # None => at[h1] # None

FewSpec == Init /\ [][FewNext]_vars /\ Fairness
=============================================================================
