------------------------ MODULE MCSettlementShares ------------------------
(***************************************************************************)
(* The shares of every small collection, two of which are then settled:    *)
(* those of Invoice are the amounts of c1 and c2.                          *)
(***************************************************************************)
EXTENDS MCSettlements, SettlementShares

Invoice == <<<<[gross |-> 4, bears |-> TRUE], [gross |-> 4, bears |-> FALSE]>>, 1>>

\* Bound: the business configures nothing.
SettleInvoice ==
    /\ split = Invoice
    /\ Next
    /\ UNCHANGED <<split, business>>

SharedSpec ==
    /\ Init /\ split \in Splits
    /\ [][SettleInvoice]_<<vars, split>>
    /\ Fairness
=============================================================================
