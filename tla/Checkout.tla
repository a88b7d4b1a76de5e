------------------------------ MODULE Checkout ------------------------------
(***************************************************************************)
(* Orders that may be paid by card or at a POS terminal: both write the    *)
(* one transactions table, reconcile the same orders and tell the same     *)
(* merchant.  The whole keeps IntakeContract.                              *)
(***************************************************************************)
EXTENDS Cards, Pos

checkout == <<transactions, cards, jobs, outcome, terminal, sales>>

CheckoutTypeOK == TransactionsTypeOK /\ CardsTypeOK /\ PosTypeOK

CheckoutInit == TransactionsInit /\ CardsInit /\ PosInit

\* dispatchCreditWebhook, after the charge was stored, with its status; the
\* request of an invoice then reconciles the order (payInvoice).
AnswerSale(s) ==
    /\ Goes(s, "settled", "answered")
    /\ Say(RefOf[s], pos[s])
    /\ UNCHANGED <<transactions, cards, jobs, reconciled, terminal, charge, pos>>

ReconcileSale(s) ==
    /\ posStep[s] = "answered"
    /\ Reconcile(RefOf[s])
    /\ UNCHANGED <<transactions, cards, jobs, told, terminal, sales>>

CheckoutNext ==
    \/ \E r \in Card : CardNext(r) /\ UNCHANGED <<terminal, sales>>
    \/ \E s \in Sale : SaleNext(s) /\ UNCHANGED <<cards, jobs, outcome>>
    \/ TerminalNext /\ UNCHANGED <<cards, jobs, outcome>>
    \/ \E s \in Sale : AnswerSale(s) \/ ReconcileSale(s)

CheckoutSpec == CheckoutInit /\ [][CheckoutNext]_checkout

\* The queue hands a waiting job to a worker, and a started job ends one way
\* or the other.
CheckoutFairness == \A r \in Card : WF_checkout(WorkJob(r) /\ UNCHANGED <<terminal, sales>>)

-----------------------------------------------------------------------------
(* Properties *)

\* A card job was queued, or the provider approved a charge at a terminal.
Attested ==
    {RefOf[r] : r \in {k \in Card : job[k] # "none"}}
        \cup {RefOf[s] : s \in {q \in Sale : charge[q] = "taken"}}

Contract ==
    INSTANCE IntakeContract WITH
        attested <- Attested, credited <- credits, settled <- reconciled, reports <- told

\* However card jobs and terminal requests for one order interleave, repeat
\* and break off, the wallet is credited at most once, only for an order of
\* which a card payment was notified or a terminal charge approved, and nobody
\* is told of success before.  (Whether a notified card was charged is another
\* question: see CreditedIsPaid.)
KeepsIntake == Contract!IntakeSpec

\* An order is credited only when some charge for it was taken.
CreditedIsPaid ==
    \A o \in Order :
        credits[o] = 1 =>
            \/ \E r \in Card : RefOf[r] = o /\ held[r] = "taken"
            \/ \E s \in Sale : RefOf[s] = o /\ charge[s] = "taken"

\* Every credit has a transaction that says so, and only one: the merchant
\* who lists or looks up transactions sees exactly the money of the wallet.
CreditHasItsRow ==
    \A o \in Order :
        credits[o] = Cardinality({x \in rows : /\ x.executionStatus = "SUCCESS"
                                               /\ x.merchantReference = o})

\* A terminal that shows an approved charge has put it into the wallet: the
\* request is answered only after the order was credited.
ApprovedIsCredited ==
    \A s \in Sale :
        posStep[s] = "answered" /\ charge[s] = "taken" => credits[RefOf[s]] = 1

\* A job that ends well has told the merchant and marked the order as paid,
\* unless an earlier start of it broke off after the card had been marked
\* (it then passes for a duplicate) or the order has other transactions.
EndedWellIsTold ==
    \A r \in Card :
        /\ job[r] = "completed"
        /\ r \notin broken
        => /\ "SUCCESS" \in told[RefOf[r]]
           /\ \/ RefOf[r] \in reconciled
              \/ Cardinality(ByMerchantReference(RefOf[r])) > 1

\* A notified charge that has a transaction is credited in the end, whatever
\* breaks off, unless its job has used up all its starts.
NotifiedIsCredited ==
    \A r \in Card :
        job[r] # "none" /\ BySystemReference(r) # {} ~>
            credits[RefOf[r]] = 1 \/ job[r] = "failed"

=============================================================================
