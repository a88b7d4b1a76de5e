------------------------------ MODULE Invoices ------------------------------
(***************************************************************************)
(* Creation of invoices.  A request reads the service, then the tax, and   *)
(* then, in one database transaction, looks for an invoice with the        *)
(* merchant's reference, stores a new one and assesses its tax, for which  *)
(* the tax is read again.  Meanwhile administrators change service, item   *)
(* and tax, and the merchant repeats his request.  When the invoice is     *)
(* paid its money is allocated to the accounts of merchant and tax.        *)
(***************************************************************************)
EXTENDS Services, Taxes

CONSTANTS
    Creator,    \* requests for an invoice
    Reference,  \* references merchants give invoices
    AskOf,      \* AskOf[c]: what request c asks for
    Collisions, \* reference collisions a request survives (4)
    Edits       \* bound on the changes administrators make

ASSUME InvoicesAssumption ==
    /\ None \notin Reference
    /\ \A c \in Creator :
        /\ AskOf[c].merchantReference \in Reference \cup {None}
        /\ AskOf[c].amount \in Price \cup {None}
        /\ AskOf[c].totalAmount \in Nat \cup {None}
        /\ AskOf[c].items \in Nat \ {0}
    /\ Collisions \in Nat /\ Edits \in Nat

VARIABLES
    step,       \* step[c]: how far request c is
    chosen,     \* chosen[c]: the item as the request read it
    priced,     \* priced[c]: what the invoice will be worth
    assessed,   \* assessed[c]: the tax as the database transaction read it
    collided,   \* collided[c]: references that were taken already
    invoices,   \* the rows, each with its item and tax transaction
    got,        \* got[c]: the invoice the request is answered with, 0 if none
    announced,  \* the <<request, invoice>> pairs merchants were notified of
    edits       \* changes made by administrators

creators == <<step, chosen, priced, assessed, collided, got>>
invoicing == <<services, taxes, creators, invoices, announced, edits>>

Unpriced == [amount |-> 0, baseAmount |-> 0, taxAmount |-> 0, taxed |-> FALSE]

InvoicesInit ==
    /\ ServicesInit
    /\ TaxesInit
    /\ step = [c \in Creator |-> "new"]
    /\ chosen = [c \in Creator |-> item]
    /\ priced = [c \in Creator |-> Unpriced]
    /\ assessed = [c \in Creator |-> tax]
    /\ collided = [c \in Creator |-> 0]
    /\ invoices = << >>
    /\ got = [c \in Creator |-> 0]
    /\ announced = {}
    /\ edits = 0

InvoiceRow == [merchantReference : Reference \cup {None}, amount : Nat,
               baseAmount : Nat, taxRow : TaxTransaction]

InvoicesTypeOK ==
    /\ ServicesTypeOK
    /\ TaxesTypeOK
    /\ step \in [Creator -> {"new", "loaded", "priced", "missed", "assessed",
                             "created", "answered", "refused"}]
    /\ chosen \in [Creator -> Item]
    /\ \A c \in Creator :
        /\ {priced[c].amount, priced[c].baseAmount, priced[c].taxAmount} \subseteq Nat
        /\ priced[c].taxed \in BOOLEAN
    /\ assessed \in [Creator -> TaxConfig]
    /\ \A i \in DOMAIN invoices : invoices[i] \in InvoiceRow
    /\ collided \in [Creator -> 0..Collisions]
    /\ got \in [Creator -> 0..Len(invoices)]
    /\ announced \subseteq Creator \X DOMAIN invoices
    /\ edits \in 0..Edits

-----------------------------------------------------------------------------
(* createInvoice *)

Go(c, from, to) ==
    /\ step[c] = from
    /\ step' = [step EXCEPT ![c] = to]

\* getServiceById, validateServiceForInvoice, validateFormDetails: the service
\* is active, one item is asked for and the form is filled in.
LoadForInvoice(c) ==
    /\ Go(c, "new", "loaded")
    /\ service = "active"
    /\ AskOf[c].items = 1
    /\ FormIsFilledIn(AskOf[c].details)
    /\ chosen' = [chosen EXCEPT ![c] = item]
    /\ UNCHANGED <<services, taxes, priced, assessed, collided, invoices, got,
                   announced, edits>>

Base(c) ==
    IF chosen[c].fixedPrice THEN chosen[c].fixedAmount ELSE AskOf[c].amount

\* resolveInvoiceItems and validateSubmittedTotal: an item with a tax needs
\* the tax to be active, and the payer's own total must agree.
ResolveInvoiceItem(c) ==
    LET charge == IF chosen[c].taxed THEN CalculateTaxAmount(Base(c), tax.rate) ELSE 0
        total  == Base(c) + IF chosen[c].taxed /\ tax.payer = "CUSTOMER"
                            THEN charge ELSE 0
    IN
    /\ Go(c, "loaded", "priced")
    /\ Base(c) # None
    /\ chosen[c].taxed => IsTaxActive
    /\ AskOf[c].totalAmount \in {None, total}
    /\ priced' = [priced EXCEPT ![c] =
                    [amount |-> total, baseAmount |-> Base(c),
                     taxAmount |-> charge, taxed |-> chosen[c].taxed]]
    /\ UNCHANGED <<services, taxes, chosen, assessed, collided, invoices, got,
                   announced, edits>>

Existing(c) ==
    IF AskOf[c].merchantReference = None THEN {}
    ELSE {i \in DOMAIN invoices :
            invoices[i].merchantReference = AskOf[c].merchantReference}

AnswerWith(c, i) ==
    /\ step' = [step EXCEPT ![c] = "answered"]
    /\ got' = [got EXCEPT ![c] = i]
    /\ UNCHANGED <<services, taxes, chosen, priced, assessed, collided,
                   invoices, announced, edits>>

\* The transaction's look-up: an invoice with the merchant's reference is
\* returned as it is, whatever was asked for now.
FindExisting(c) ==
    /\ step[c] = "priced"
    /\ \E i \in Existing(c) : AnswerWith(c, i)

MissExisting(c) ==
    /\ Go(c, "priced", "missed")
    /\ Existing(c) = {}
    /\ UNCHANGED <<services, taxes, chosen, priced, assessed, collided,
                   invoices, got, announced, edits>>

\* createAssessedTaxTransactions reads the configuration again, active or not.
\* (What the transaction wrote before is not seen until it commits.)
ReadTax(c) ==
    /\ Go(c, "missed", "assessed")
    /\ assessed' = [assessed EXCEPT ![c] = tax]
    /\ UNCHANGED <<services, taxes, chosen, priced, collided, invoices, got,
                   announced, edits>>

TaxRowOf(c) ==
    IF priced[c].taxed /\ priced[c].taxAmount > 0
    THEN Assessed(assessed[c], priced[c].taxAmount)
    ELSE [Assessed(assessed[c], 0) EXCEPT !.destination = NoAccount]

\* Fault: nothing but the look-up keeps a second invoice out.
CommitUnchecked(c) ==
    /\ Go(c, "assessed", "created")
    /\ invoices' = Append(invoices,
            [merchantReference |-> AskOf[c].merchantReference,
             amount |-> priced[c].amount, baseAmount |-> priced[c].baseAmount,
             taxRow |-> TaxRowOf(c)])
    /\ got' = [got EXCEPT ![c] = Len(invoices')]
    /\ UNCHANGED <<services, taxes, chosen, priced, assessed, collided,
                   announced, edits>>

\* The index on business and merchant reference admits one.
CommitInvoice(c) ==
    /\ Existing(c) = {}
    /\ Go(c, "assessed", "created")
    /\ invoices' = Append(invoices,
            [merchantReference |-> AskOf[c].merchantReference,
             amount |-> priced[c].amount, baseAmount |-> priced[c].baseAmount,
             taxRow |-> TaxRowOf(c)])
    /\ got' = [got EXCEPT ![c] = Len(invoices')]
    /\ UNCHANGED <<services, taxes, chosen, priced, assessed, collided,
                   announced, edits>>

\* The index refused the row: the transaction is undone, and the invoice that
\* is there is returned.
CommitRefused(c) ==
    /\ step[c] = "assessed"
    /\ \E i \in Existing(c) : AnswerWith(c, i)

\* Our own reference was taken: the transaction is tried again with another.
CollideAndRetry(c) ==
    /\ Go(c, "assessed", "priced")
    /\ invoices # << >>
    /\ collided[c] < Collisions
    /\ collided' = [collided EXCEPT ![c] = @ + 1]
    /\ UNCHANGED <<services, taxes, chosen, priced, assessed, invoices, got,
                   announced, edits>>

\* Fault: whoever is answered notifies the merchant.
AnnounceAnswered(c) ==
    /\ step[c] \in {"created", "answered"}
    /\ step' = [step EXCEPT ![c] = "answered"]
    /\ announced' = announced \cup {<<c, got[c]>>}
    /\ UNCHANGED <<services, taxes, chosen, priced, assessed, collided,
                   invoices, got, edits>>

\* A row that was just created has no items attached: it is the one that is
\* announced (dispatchWebhook), and then answered.
AnnounceInvoice(c) ==
    /\ Go(c, "created", "answered")
    /\ announced' = announced \cup {<<c, got[c]>>}
    /\ UNCHANGED <<services, taxes, chosen, priced, assessed, collided,
                   invoices, got, edits>>

\* A check fails, a statement throws, or the server dies.
EndCreate(c) ==
    /\ step[c] \notin {"answered", "refused"}
    /\ step' = [step EXCEPT ![c] = "refused"]
    /\ got' = [got EXCEPT ![c] = 0]
    /\ UNCHANGED <<services, taxes, chosen, priced, assessed, collided,
                   invoices, announced, edits>>

Create(c) ==
    \/ LoadForInvoice(c)
    \/ ResolveInvoiceItem(c)
    \/ FindExisting(c)
    \/ MissExisting(c)
    \/ ReadTax(c)
    \/ CommitInvoice(c)
    \/ CommitRefused(c)
    \/ CollideAndRetry(c)
    \/ AnnounceInvoice(c)
    \/ EndCreate(c)

-----------------------------------------------------------------------------
Edit ==
    \/ \E new \in Items : CreateService(new) \/ UpdateServiceItem(new)
    \/ \E e \in Editor :
        LoadService(e) \/ ToggleServiceStatus(e) \/ UpdateService(e)

Administer ==
    \/ \E new \in TaxConfig : UpdateTaxConfiguration(new)
    \/ \E new \in Destination :
        \/ AddTaxSettlementDestination(new)
        \/ \E i \in DOMAIN destinations : UpdateTaxSettlementDestination(i, new)

Change ==
    /\ edits < Edits
    /\ edits' = edits + 1
    /\ \/ Edit /\ UNCHANGED taxes
       \/ Administer /\ UNCHANGED services
    /\ UNCHANGED <<creators, invoices, announced>>

InvoicesNext == Change \/ \E c \in Creator : Create(c)

InvoicesSpec == InvoicesInit /\ [][InvoicesNext]_invoicing

-----------------------------------------------------------------------------
(* InvoiceSettlementAccountResolver *)

\* shouldSplitTax, for tax transaction t
IsSplit(t) ==
    /\ t.collectionMode # "MERCHANT_REMITTED"
    /\ t.amount > 0
    /\ t.destination # NoAccount

\* Fault: the tax goes where new tax goes now.
SplitByCurrentTax(i) ==
    LET t == invoices[i].taxRow IN
    IF t.amount > 0 /\ CurrentDestination # NoAccount
    THEN {[account |-> CurrentDestination, amount |-> t.amount]} ELSE {}

\* What of invoice i goes to the accounts of the tax.
TaxAllocations(i) ==
    LET t == invoices[i].taxRow IN
    IF IsSplit(t) THEN {[account |-> t.destination, amount |-> t.amount]} ELSE {}

SplitAmount(i) ==
    IF TaxAllocations(i) = {} THEN 0
    ELSE (CHOOSE a \in TaxAllocations(i) : TRUE).amount

\* The rest goes to the account the item has now (None: the business's own).
MerchantAllocations(i) ==
    IF invoices[i].amount > SplitAmount(i)
    THEN {[account |-> item.settlementAccountId,
           amount |-> invoices[i].amount - SplitAmount(i)]}
    ELSE {}

-----------------------------------------------------------------------------
(* Properties *)

\* However often, and however concurrently, a merchant asks for an invoice
\* under one reference, there is one, all answers are that one, and he is
\* notified of it at most once.
OneInvoicePerReference ==
    /\ \A i, j \in DOMAIN invoices :
        /\ invoices[i].merchantReference = invoices[j].merchantReference
        /\ invoices[i].merchantReference # None
        => i = j
    /\ \A c \in Creator :
        got[c] > 0 =>
            invoices[got[c]].merchantReference = AskOf[c].merchantReference
    /\ \A a, b \in announced : a[2] = b[2] => a = b

\* Where the tax of an invoice goes, how much it is and how much is left for
\* the merchant is settled when the invoice is created: administrators who
\* change the tax, its destinations or the item change later invoices only.
TaxIsFrozen ==
    [][\A i \in DOMAIN invoices :
        /\ TaxAllocations(i)' = TaxAllocations(i)
        /\ {a.amount : a \in MerchantAllocations(i)}'
            = {a.amount : a \in MerchantAllocations(i)}]_invoicing

=============================================================================
