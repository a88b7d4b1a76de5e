---------------------------- MODULE Collections ----------------------------
(***************************************************************************)
(* Collections by transfer into a dynamic virtual account, with or without *)
(* an invoice.  payInvoice opens an attempt and issues an account; the     *)
(* bank notifies each transfer, as often as it likes, to a webhook that    *)
(* closes the account and queues a job; the job credits the wallet,        *)
(* reconciles the invoice and tells the merchant, and is started again     *)
(* when any of that fails.  A request, a delivery and a job are sequences  *)
(* of statements that may stop after each.  The credit is one database     *)
(* transaction, whose inside is in Wallets; here it is one action.         *)
(***************************************************************************)
EXTENDS Naturals

CONSTANTS
    Order,      \* merchant references: payment attempts and API orders
    Invoice,
    For,        \* For[a]: the invoice a is an attempt at, or None
    Transfer,   \* bank transfers
    Handler,    \* webhook requests the server handles at a time
    Deliveries, \* bound on the notifications of one transfer
    Tries,      \* starts of a transfer's job before it has failed (attempts: 5)
    None        \* SQL NULL

ASSUME CollectionsAssumption ==
    /\ For \in [Order -> Invoice \cup {None}]
    /\ None \notin Invoice \cup Order \cup Transfer
    /\ Deliveries \in Nat /\ Tries \in Nat \ {0}

VARIABLES
    invoice, tax, holder,   \* invoice rows: status, its taxes, the row lock
    pay, attempt, recent,   \* payInvoice; invoice_payment_transactions
    account,    \* account[a]: dynamic_virtual_accounts
    rows,       \* rows[a]: statuses of the transactions with reference a
    to, echo,   \* to[t]: where t was paid to; transfers with our reference
    at, step, deliveries, accepted,     \* incomingWebhook
    job, tries, run, seen,  \* the credit queue and its processor
    credits,    \* credits[t]: how often t was credited to the wallet
    told        \* orders the merchant was sent a webhook for

invoices == <<invoice, tax, holder>>
attempts == <<pay, attempt, recent>>
bank     == <<to, echo>>
webhook  == <<at, step, deliveries, accepted>>
jobs     == <<job, tries, run, seen>>

vars == <<invoices, attempts, account, rows, bank, webhook, jobs, credits, told>>

TransactionStatus == {"INITIATED", "SUCCESS"}

TypeOK ==
    /\ invoice \in [Invoice -> {"PENDING", "PAID"}]
    /\ tax \in [Invoice -> {"ASSESSED", "COLLECTED"}]
    /\ holder \in [Invoice -> Order \cup {None}]
    /\ pay \in [Order -> {"new", "locked", "clear", "created", "issued",
                          "returned", "failed"}]
    /\ attempt \in [Order -> {"NONE", "PENDING"} \cup TransactionStatus]
    /\ recent \subseteq Order
    /\ account \in [Order -> {"NONE", "ACTIVE", "INACTIVE"}]
    /\ rows \in [Order -> SUBSET TransactionStatus]
    /\ to \in [Transfer -> Order \cup {None}]
    /\ echo \subseteq Transfer
    /\ at \in [Handler -> Transfer \cup {None}]
    /\ step \in [Handler -> {"idle", "found", "closed"}]
    /\ deliveries \in [Transfer -> 0..Deliveries]
    /\ accepted \subseteq Transfer
    /\ job \in [Transfer -> {"none", "waiting", "active", "completed", "failed"}]
    /\ tries \in [Transfer -> 0..Tries]
    /\ run \in [Transfer -> {"idle", "started", "settled", "looked", "saved",
                             "paid", "taxed", "told"}]
    /\ seen \in [Transfer -> TransactionStatus \cup {None}]
    /\ credits \in [Transfer -> Nat]
    /\ told \subseteq Order

Init ==
    /\ invoice = [i \in Invoice |-> "PENDING"]
    /\ tax = [i \in Invoice |-> "ASSESSED"]
    /\ holder = [i \in Invoice |-> None]
    /\ pay = [a \in Order |-> "new"]
    /\ attempt = [a \in Order |-> "NONE"]
    /\ recent = {}
    /\ account = [a \in Order |-> "NONE"]
    /\ rows = [a \in Order |-> {}]
    /\ to = [t \in Transfer |-> None]
    /\ echo = {}
    /\ at = [h \in Handler |-> None]
    /\ step = [h \in Handler |-> "idle"]
    /\ deliveries = [t \in Transfer |-> 0]
    /\ accepted = {}
    /\ job = [t \in Transfer |-> "none"]
    /\ tries = [t \in Transfer |-> 0]
    /\ run = [t \in Transfer |-> "idle"]
    /\ seen = [t \in Transfer |-> None]
    /\ credits = [t \in Transfer |-> 0]
    /\ told = {}

-----------------------------------------------------------------------------
(* payInvoice and generateDynamicVirtualAccount *)

Pays(a, from, label) ==
    /\ pay[a] = from
    /\ pay' = [pay EXCEPT ![a] = label]

Free(a) ==
    holder' = [i \in Invoice |-> IF holder[i] = a THEN None ELSE holder[i]]

\* Fault: the invoice is read without the lock.
LockInvoiceUnlocked(a) ==
    /\ For[a] # None
    /\ \/ /\ invoice[For[a]] = "PENDING"
          /\ Pays(a, "new", "locked")
       \/ /\ invoice[For[a]] # "PENDING"
          /\ Pays(a, "new", "failed")
    /\ UNCHANGED <<invoices, attempt, recent, account, rows, bank, webhook,
                   jobs, credits, told>>

\* The invoice row is read for update: a paid invoice is refused.
LockInvoice(a) ==
    /\ For[a] # None
    /\ holder[For[a]] = None
    /\ \/ /\ invoice[For[a]] = "PENDING"
          /\ Pays(a, "new", "locked")
          /\ holder' = [holder EXCEPT ![For[a]] = a]
       \/ /\ invoice[For[a]] # "PENDING"
          /\ Pays(a, "new", "failed")
          /\ UNCHANGED holder
    /\ UNCHANGED <<invoice, tax, attempt, recent, account, rows, bank, webhook,
                   jobs, credits, told>>

\* Attempts at the same invoice of the last two minutes.  (No attempt ever
\* has a status outside the list the query asks for.)
ActiveAttempts(a) == {b \in recent : For[b] = For[a]}

CheckAttempts(a) ==
    /\ \/ /\ ActiveAttempts(a) = {}
          /\ Pays(a, "locked", "clear")
          /\ UNCHANGED holder
       \/ /\ ActiveAttempts(a) # {}
          /\ Pays(a, "locked", "failed")
          /\ Free(a)
    /\ UNCHANGED <<invoice, tax, attempt, recent, account, rows, bank, webhook,
                   jobs, credits, told>>

SaveNewAttempt(a) ==
    /\ Pays(a, "clear", "created")
    /\ attempt' = [attempt EXCEPT ![a] = "PENDING"]
    /\ recent' = recent \cup {a}
    /\ Free(a)
    /\ UNCHANGED <<invoice, tax, account, rows, bank, webhook, jobs, credits,
                   told>>

\* The attempt leaves the window of INVOICE_ACTIVE_PAYMENT_ATTEMPT_WINDOW_MS.
Age(a) ==
    /\ a \in recent
    /\ recent' = recent \ {a}
    /\ UNCHANGED <<invoices, pay, attempt, account, rows, bank, webhook, jobs,
                   credits, told>>

\* The provider opens an account; it and its INITIATED transaction are stored
\* in one database transaction.  An order without invoice starts here.
IssueAccount(a) ==
    /\ Pays(a, IF For[a] = None THEN "new" ELSE "created", "issued")
    /\ account' = [account EXCEPT ![a] = "ACTIVE"]
    /\ rows' = [rows EXCEPT ![a] = {"INITIATED"}]
    /\ UNCHANGED <<invoices, attempt, recent, bank, webhook, jobs, credits, told>>

\* Fault: whatever is known of a transaction counts as payment.
PaysInvoiceAny(verdict) == verdict # "FAILED"

\* A transaction's status is carried over to the attempt; SUCCESS is paid.
PaysInvoice(verdict) == verdict = "SUCCESS"

\* payInvoice reconciles before it answers; only then the payer knows the
\* account.
AnswerPayer(a) ==
    /\ Pays(a, "issued", "returned")
    /\ IF For[a] = None
       THEN UNCHANGED <<invoice, attempt>>
       ELSE \E verdict \in rows[a] :
              /\ attempt' = [attempt EXCEPT ![a] = verdict]
              /\ invoice' = [invoice EXCEPT ![For[a]] =
                    IF PaysInvoice(verdict) THEN "PAID" ELSE @]
    /\ UNCHANGED <<tax, holder, recent, account, rows, bank, webhook, jobs,
                   credits, told>>

\* The request fails or the server dies; an open transaction is rolled back.
AbandonPayment(a) ==
    /\ pay[a] \in {"locked", "clear", "created", "issued"}
    /\ Pays(a, pay[a], "failed")
    /\ Free(a)
    /\ UNCHANGED <<invoice, tax, attempt, recent, account, rows, bank, webhook,
                   jobs, credits, told>>

\* clearExpiredDynamicAccounts, at any time after the account was issued.
ExpireAccount(a) ==
    /\ account[a] = "ACTIVE"
    /\ account' = [account EXCEPT ![a] = "INACTIVE"]
    /\ UNCHANGED <<invoices, attempts, rows, bank, webhook, jobs, credits, told>>

-----------------------------------------------------------------------------
(* The bank *)

\* Someone who was given the account pays into it.  The bank's reference of
\* the transfer may be the one the account was opened with.
ReceiveTransfer(t) ==
    /\ to[t] = None
    /\ \E a \in Order :
        /\ pay[a] = "returned"
        /\ to' = [to EXCEPT ![t] = a]
    /\ \/ echo' = echo \cup {t}
       \/ UNCHANGED echo
    /\ UNCHANGED <<invoices, attempts, account, rows, webhook, jobs, credits,
                   told>>

-----------------------------------------------------------------------------
(* incomingWebhook *)

\* A notification comes in: the ACTIVE account is looked up, and without one
\* the request is refused.
Notify(h, t) ==
    /\ step[h] = "idle"
    /\ to[t] # None
    /\ deliveries[t] < Deliveries
    /\ deliveries' = [deliveries EXCEPT ![t] = @ + 1]
    /\ \/ /\ account[to[t]] = "ACTIVE"
          /\ at' = [at EXCEPT ![h] = t]
          /\ step' = [step EXCEPT ![h] = "found"]
       \/ /\ account[to[t]] # "ACTIVE"
          /\ UNCHANGED <<at, step>>
    /\ UNCHANGED <<invoices, attempts, account, rows, bank, accepted, jobs,
                   credits, told>>

\* Fault: the notification is acknowledged before its job is in the queue.
CloseAndAccept(h) ==
    /\ step[h] = "found"
    /\ account' = [account EXCEPT ![to[at[h]]] = "INACTIVE"]
    /\ step' = [step EXCEPT ![h] = "closed"]
    /\ accepted' = accepted \cup {at[h]}
    /\ UNCHANGED <<invoices, attempts, rows, bank, at, deliveries, jobs,
                   credits, told>>

CloseAccount(h) ==
    /\ step[h] = "found"
    /\ account' = [account EXCEPT ![to[at[h]]] = "INACTIVE"]
    /\ step' = [step EXCEPT ![h] = "closed"]
    /\ UNCHANGED <<invoices, attempts, rows, bank, at, deliveries, accepted,
                   jobs, credits, told>>

FreeHandler(h) ==
    /\ at' = [at EXCEPT ![h] = None]
    /\ step' = [step EXCEPT ![h] = "idle"]

\* The job's id is the session of the transfer: a job that is there is kept,
\* until it has ended and been removed.  Then the request is answered.
AddCreditJob(h) ==
    /\ step[h] = "closed"
    /\ FreeHandler(h)
    /\ accepted' = accepted \cup {at[h]}
    /\ \/ /\ job[at[h]] \notin {"waiting", "active"}
          /\ tries[at[h]] < Tries
          /\ job' = [job EXCEPT ![at[h]] = "waiting"]
       \/ /\ job[at[h]] # "none"
          /\ UNCHANGED job
    /\ UNCHANGED <<invoices, attempts, account, rows, bank, deliveries, tries,
                   run, seen, credits, told>>

\* The request fails or the server dies.
AbandonNotification(h) ==
    /\ step[h] # "idle"
    /\ FreeHandler(h)
    /\ UNCHANGED <<invoices, attempts, account, rows, bank, deliveries,
                   accepted, jobs, credits, told>>

-----------------------------------------------------------------------------
(* VirtualAccountCreditProcessor.process, ReconciliationService.reconcile *)
(* and InvoiceReconciliationHandler.handle                                *)

Runs(t, from, label) ==
    /\ run[t] = from
    /\ run' = [run EXCEPT ![t] = label]

EndRun(t, outcome) ==
    /\ run' = [run EXCEPT ![t] = "idle"]
    /\ seen' = [seen EXCEPT ![t] = None]
    /\ job' = [job EXCEPT ![t] = outcome]

StartJob(t) ==
    /\ job[t] = "waiting"
    /\ Runs(t, "idle", "started")
    /\ job' = [job EXCEPT ![t] = "active"]
    /\ tries' = [tries EXCEPT ![t] = @ + 1]
    /\ UNCHANGED <<invoices, attempts, account, rows, bank, webhook, seen,
                   credits, told>>

Processed(t) == "SUCCESS" \in rows[to[t]]

\* saveCreditTransaction: the INITIATED row if the bank gave our reference
\* back, otherwise a row of its own.
Credit(t) ==
    /\ credits' = [credits EXCEPT ![t] = @ + 1]
    /\ rows' = [rows EXCEPT ![to[t]] =
                    IF t \in echo THEN {"SUCCESS"} ELSE @ \cup {"SUCCESS"}]

\* Fault: the duplicate check is left out.
SettleUnchecked(t) ==
    /\ Runs(t, "started", "settled")
    /\ Credit(t)
    /\ UNCHANGED <<invoices, attempts, account, bank, webhook, job, tries, seen,
                   told>>

\* Fault: a duplicate ends the job.
SettleOrEnd(t) ==
    /\ run[t] = "started"
    /\ \/ /\ ~Processed(t)
          /\ Runs(t, "started", "settled")
          /\ Credit(t)
          /\ UNCHANGED <<job, seen>>
       \/ /\ Processed(t)
          /\ EndRun(t, "completed")
          /\ UNCHANGED <<credits, rows>>
    /\ UNCHANGED <<invoices, attempts, account, bank, webhook, tries, told>>

\* createSettlement, one database transaction (see Wallets): credited, or
\* passed over because the reference has a SUCCESS transaction.
Settle(t) ==
    /\ Runs(t, "started", "settled")
    /\ \/ ~Processed(t) /\ Credit(t)
       \/ Processed(t) /\ UNCHANGED <<credits, rows>>
    /\ UNCHANGED <<invoices, attempts, account, bank, webhook, job, tries, seen,
                   told>>

\* getTransactionByMerchantRef returns any of the rows, in no order.
ReadTransaction(t) ==
    /\ Runs(t, "settled", "looked")
    /\ For[to[t]] # None
    /\ \E verdict \in rows[to[t]] : seen' = [seen EXCEPT ![t] = verdict]
    /\ UNCHANGED <<invoices, attempts, account, rows, bank, webhook, job, tries,
                   credits, told>>

\* The attempt gets the status; if it is not SUCCESS, that was all.
SaveAttempt(t) ==
    /\ run[t] = "looked"
    /\ attempt' = [attempt EXCEPT ![to[t]] = seen[t]]
    /\ \/ /\ PaysInvoice(seen[t])
          /\ Runs(t, "looked", "saved")
          /\ UNCHANGED <<job, seen>>
       \/ /\ ~PaysInvoice(seen[t])
          /\ EndRun(t, "completed")
    /\ UNCHANGED <<invoices, pay, recent, account, rows, bank, webhook, tries,
                   credits, told>>

\* The update waits for a payInvoice that has the row locked.
MarkPaid(t) ==
    /\ Runs(t, "saved", "paid")
    /\ holder[For[to[t]]] = None
    /\ invoice' = [invoice EXCEPT ![For[to[t]]] = "PAID"]
    /\ UNCHANGED <<tax, holder, attempts, account, rows, bank, webhook, job,
                   tries, seen, credits, told>>

MarkInvoiceTaxesCollected(t) ==
    /\ Runs(t, "paid", "taxed")
    /\ tax' = [tax EXCEPT ![For[to[t]]] = "COLLECTED"]
    /\ UNCHANGED <<invoice, holder, attempts, account, rows, bank, webhook, job,
                   tries, seen, credits, told>>

\* The merchant's webhook, of the invoice or of the collection.
DispatchWebhook(t) ==
    /\ \/ Runs(t, "settled", "told") /\ For[to[t]] = None
       \/ Runs(t, "taxed", "told")
    /\ told' = told \cup {to[t]}
    /\ UNCHANGED <<invoices, attempts, account, rows, bank, webhook, job, tries,
                   seen, credits>>

EndJob(t) ==
    /\ run[t] = "told"
    /\ EndRun(t, "completed")
    /\ UNCHANGED <<invoices, attempts, account, rows, bank, webhook, tries,
                   credits, told>>

\* Fault: the job is started again without a limit.
FailJobForever(t) ==
    /\ run[t] # "idle"
    /\ EndRun(t, "waiting")
    /\ UNCHANGED <<invoices, attempts, account, rows, bank, webhook, tries,
                   credits, told>>

\* A step throws, or the worker dies and the job is found stalled.
FailJob(t) ==
    /\ run[t] # "idle"
    /\ EndRun(t, IF tries[t] < Tries THEN "waiting" ELSE "failed")
    /\ UNCHANGED <<invoices, attempts, account, rows, bank, webhook, tries,
                   credits, told>>

-----------------------------------------------------------------------------
Reconcile(t) ==
    \/ ReadTransaction(t)
    \/ SaveAttempt(t)
    \/ MarkPaid(t)
    \/ MarkInvoiceTaxesCollected(t)

Process(t) ==
    \/ StartJob(t)
    \/ Settle(t)
    \/ Reconcile(t)
    \/ DispatchWebhook(t)
    \/ EndJob(t)

PayInvoice(a) ==
    \/ LockInvoice(a)
    \/ CheckAttempts(a)
    \/ SaveNewAttempt(a)
    \/ IssueAccount(a)
    \/ AnswerPayer(a)
    \/ AbandonPayment(a)

IncomingWebhook(h) ==
    \/ \E t \in Transfer : Notify(h, t)
    \/ CloseAccount(h)
    \/ AddCreditJob(h)
    \/ AbandonNotification(h)

Next ==
    \/ \E a \in Order : PayInvoice(a) \/ Age(a) \/ ExpireAccount(a)
    \/ \E t \in Transfer : ReceiveTransfer(t) \/ Process(t) \/ FailJob(t)
    \/ \E h \in Handler : IncomingWebhook(h)

Spec == Init /\ [][Next]_vars

\* The workers go on taking jobs and their statements, an update gets the row
\* it waits for, and a transaction that holds an invoice ends.
Fairness ==
    /\ \A t \in Transfer : WF_vars(Process(t)) /\ SF_vars(MarkPaid(t))
    /\ \A a \in Order : WF_vars(CheckAttempts(a) \/ SaveNewAttempt(a))

FairSpec == Spec /\ Fairness

-----------------------------------------------------------------------------
(* Properties *)

\* An order is credited once, however often its transfers are notified, its
\* job is started, or the payer pays (createSettlement's duplicate check).
CreditedOnce ==
    /\ \A t \in Transfer : credits[t] <= 1
    /\ \A t, u \in Transfer :
        t # u /\ credits[t] > 0 /\ credits[u] > 0 => to[t] # to[u]

Received(i) == \E t \in Transfer : credits[t] > 0 /\ For[to[t]] = i

\* What the merchant and the tax office see is backed by a credit: an invoice
\* is PAID, its taxes are COLLECTED and the merchant is told only after the
\* wallet was credited for it (the order of steps in process and handle).
PaidIsCredited ==
    /\ \A i \in Invoice :
        invoice[i] = "PAID" \/ tax[i] = "COLLECTED" => Received(i)
    /\ \A a \in told : \E t \in Transfer : credits[t] > 0 /\ to[t] = a

\* Two requests never both open an attempt at an invoice within the window,
\* whatever their interleaving (the row lock and the check in payInvoice).
OneRecentAttempt ==
    \A a, b \in recent : For[a] = For[b] => a = b

\* A notification that was acknowledged is not lost: its order is credited in
\* the end, unless every start of the job fails (incomingWebhook answers after
\* the job is stored, process is retried).
AcceptedIsCredited ==
    \A t \in Transfer :
        t \in accepted ~> job[t] = "failed" \/ (to[t] # None /\ Processed(t))

\* A credit reaches the invoice, its taxes and the merchant although the job
\* may die between any two steps and finds the credit done when it is started
\* again - provided the bank gives our reference back, so that the order has one
\* transaction row only.
Reconciled(t) ==
    /\ to[t] \in told
    /\ For[to[t]] # None =>
        invoice[For[to[t]]] = "PAID" /\ tax[For[to[t]]] = "COLLECTED"

CreditedIsReconciled ==
    \A t \in Transfer :
        credits[t] > 0 /\ t \in echo ~> job[t] = "failed" \/ Reconciled(t)

=============================================================================
