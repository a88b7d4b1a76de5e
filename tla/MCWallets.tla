----------------------------- MODULE MCWallets -----------------------------
(***************************************************************************)
(* Wallets on small instances.  Business b1 has a wallet row, b2 has none  *)
(* until its first transaction commits.                                    *)
(***************************************************************************)
EXTENDS Wallets, TLC

CONSTANTS b1, b2, c1, c2, c3, c4, c5, c6, d1, d2, d3, d4, d5

Collect(biz, ref, mref, gross, instant) ==
    [op |-> "collect", biz |-> biz, instant |-> instant, ref |-> ref,
     mref |-> mref, pref |-> ref, gross |-> gross,
     providerFee |-> 1, merchantFee |-> 3]

Payout(biz, ref, gross) ==
    [op |-> "payout", biz |-> biz, instant |-> TRUE, ref |-> ref,
     mref |-> ref, pref |-> ref, gross |-> gross,
     providerFee |-> 1, merchantFee |-> 2]

\* One business, everything racing: two attempts at one POS order, another
\* collection that is settled later, two payouts with one reference and a third
\* one; the wallet covers one payout.
BusyWallet ==
    c1 :> Collect(b1, "pos-1", "order-1", 10, TRUE) @@
    c2 :> Collect(b1, "pos-2", "order-1", 10, TRUE) @@
    c3 :> Collect(b1, "va-1", "order-2", 20, FALSE) @@
    d1 :> Payout(b1, "payout-1", 3) @@
    d2 :> Payout(b1, "payout-1", 3) @@
    d3 :> Payout(b1, "payout-2", 2)

\* Two businesses that use one payout reference; the wallet of b2 is inserted
\* by its first collection, and another one has no provider fee.
SharedReference ==
    c4 :> Collect(b1, "va-4", "va-4", 20, TRUE) @@
    c5 :> Collect(b2, "va-5", "order-5", 20, TRUE) @@
    c6 :> [Collect(b2, "va-6", "order-6", 20, TRUE)
              EXCEPT !.providerFee = 0] @@
    d4 :> Payout(b1, "payout-4", 5) @@
    d5 :> Payout(b2, "payout-4", 5)

MCInput == BusyWallet @@ SharedReference

\* The requests of one of the two arrive; those of the other have failed before
\* they touched anything.
MCInit ==
    /\ \E arriving \in {DOMAIN BusyWallet, DOMAIN SharedReference} :
        pc = [r \in Request |-> IF r \in arriving THEN "new" ELSE "failed"]
    /\ InitRows

MCSpec == MCInit /\ [][Next]_vars /\ Fairness

\* Two attempts at one order of a business that has no wallet row yet.
FirstCollections ==
    c1 :> Collect(b2, "pos-1", "order-1", 10, TRUE) @@
    c2 :> Collect(b2, "pos-2", "order-1", 10, TRUE)

\* Two businesses whose orders have the same number.
SameOrderNumber ==
    c1 :> Collect(b1, "va-1", "order-1", 10, TRUE) @@
    c2 :> Collect(b2, "va-2", "order-1", 10, TRUE)
=============================================================================
