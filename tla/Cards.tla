------------------------------- MODULE Cards -------------------------------
(***************************************************************************)
(* Payment by debit card: a request stores a card row and a transaction,   *)
(* asks the provider, and the payer authorises the charge.  The server is  *)
(* notified of the reference, and a queued job settles the transaction,    *)
(* reconciles the order and tells the merchant.  A job may break off after *)
(* any statement and is started again up to Attempts times.  What became   *)
(* of the charge (held) is never read.                                     *)
(***************************************************************************)
EXTENDS Transactions

CONSTANTS
    Card,       \* the requests that pay by card
    Attempts    \* starts of a job (5)

ASSUME CardsAssumption == Card \subseteq Request /\ Attempts \in Nat

VARIABLES
    cardStep,   \* how far the request is
    card,       \* card_transactions: status of the row, NONE if there is none
    held,       \* what the provider has done with the card
    job, tries, \* BullMQ: the state of the job, times started
    jobStep,    \* how far the job is
    broken,     \* jobs that broke off between marking the card and the end
    reconciled, \* orders whose invoice or funding was marked as paid
    told        \* told[o]: what the merchant was told of the order

cards   == <<cardStep, card, held>>
jobs    == <<job, tries, jobStep, broken>>
outcome == <<reconciled, told>>

CardsTypeOK ==
    /\ cardStep \in [Card -> {"new", "looked", "stored", "ended"}]
    /\ card \in [Card -> {"NONE", "INITIATED", "SUCCESS"}]
    /\ held \in [Card -> {"none", "held", "taken", "declined"}]
    /\ job \in [Card -> {"none", "waiting", "active", "completed", "failed"}]
    /\ tries \in [Card -> 0..Attempts]
    /\ jobStep \in [Card -> {"idle", "loaded", "settled", "marked", "reconciled"}]
    /\ broken \subseteq Card
    /\ reconciled \subseteq Order
    /\ told \in [Order -> SUBSET {"SUCCESS", "FAILED"}]

CardsInit ==
    /\ cardStep = [r \in Card |-> "new"]
    /\ card = [r \in Card |-> "NONE"]
    /\ held = [r \in Card |-> "none"]
    /\ job = [r \in Card |-> "none"]
    /\ tries = [r \in Card |-> 0]
    /\ jobStep = [r \in Card |-> "idle"]
    /\ broken = {}
    /\ reconciled = {}
    /\ told = [o \in Order |-> {}]

-----------------------------------------------------------------------------
(* initiateCardPayment *)

\* The card row is looked up by the merchant's reference, but stored under
\* ours: a request with a new reference never finds one.  (One that repeats
\* our reference is answered from the row and changes nothing.)
LookUpCard(r) ==
    /\ cardStep[r] = "new"
    /\ cardStep' = [cardStep EXCEPT ![r] = "looked"]
    /\ UNCHANGED <<transactions, card, held, jobs, outcome>>

Initiated(r) ==
    [reference |-> r, merchantReference |-> RefOf[r], providerReference |-> r,
     idempotencyKey |-> <<"debit-card", RefOf[r]>>, sourceId |-> r,
     executionStatus |-> "INITIATED", created |-> Last]

\* One database transaction.  If the order has a card transaction already,
\* that one is kept, and the new card row has none.
StoreCard(r) ==
    /\ cardStep[r] = "looked"
    /\ CreateTransaction(Initiated(r))
    /\ card' = [card EXCEPT ![r] = "INITIATED"]
    /\ cardStep' = [cardStep EXCEPT ![r] = "stored"]
    /\ UNCHANGED <<credits, held, jobs, outcome>>

\* The request ends: an error, a collision of two requests with one key
\* (which aborts the database transaction), or a crash.
EndCard(r) ==
    /\ cardStep[r] \in {"looked", "stored"}
    /\ cardStep' = [cardStep EXCEPT ![r] = "ended"]
    /\ UNCHANGED <<transactions, card, held, jobs, outcome>>

\* The provider: it waits for an OTP or a redirect ...
InitiateCardTransaction(r) == held' = [held EXCEPT ![r] = "held"]

\* ... and takes or declines the charge once.
ValidateCardOtp(r) ==
    /\ held[r] = "held"
    /\ \E answer \in {"taken", "declined"} : held' = [held EXCEPT ![r] = answer]

\* The provider's answer may be lost.
AskForCard(r) ==
    /\ cardStep[r] = "stored"
    /\ InitiateCardTransaction(r)
    /\ cardStep' = [cardStep EXCEPT ![r] = "ended"]
    /\ UNCHANGED <<transactions, card, jobs, outcome>>

\* validateOtpByReference, for a card row that exists, or the redirect page.
Authorise(r) ==
    /\ card[r] # "NONE"
    /\ ValidateCardOtp(r)
    /\ UNCHANGED <<transactions, cardStep, card, jobs, outcome>>

-----------------------------------------------------------------------------
(* incomingWebhook and CardPaymentWebhookProcessor *)

\* A notification, at any time and any number of times.  Two references are
\* read from it, not what became of the charge, and nobody is asked.  The
\* job's id is the provider's reference: while the job is kept, adding it
\* again changes nothing.
NotifyCard(r) ==
    /\ job[r] = "none"
    /\ job' = [job EXCEPT ![r] = "waiting"]
    /\ UNCHANGED <<transactions, cards, tries, jobStep, broken, outcome>>

Retry(r) == IF tries'[r] < Attempts THEN "waiting" ELSE "failed"

\* Fault: a card that is marked, or a transaction that is, makes a duplicate.
IsDuplicateEither(r, x) ==
    card[r] = "SUCCESS" \/ x.executionStatus = "SUCCESS"

IsDuplicate(r, x) == card[r] = "SUCCESS" /\ x.executionStatus = "SUCCESS"

\* No transaction under our reference: the job throws, and throws again.
StartJob(r) ==
    /\ job[r] = "waiting"
    /\ tries[r] < Attempts
    /\ tries' = [tries EXCEPT ![r] = @ + 1]
    /\ \/ /\ BySystemReference(r) = {}
          /\ job' = [job EXCEPT ![r] = Retry(r)]
          /\ UNCHANGED jobStep
       \/ \E x \in BySystemReference(r) :
            IF IsDuplicate(r, x)
            THEN /\ job' = [job EXCEPT ![r] = "completed"]
                 /\ UNCHANGED jobStep
            ELSE /\ job' = [job EXCEPT ![r] = "active"]
                 /\ jobStep' = [jobStep EXCEPT ![r] = "loaded"]
    /\ UNCHANGED <<transactions, cards, broken, outcome>>

JobGoes(r, from, to) ==
    /\ jobStep[r] = from
    /\ jobStep' = [jobStep EXCEPT ![r] = to]
    /\ UNCHANGED <<job, tries, broken>>

SettleCard(r) ==
    /\ JobGoes(r, "loaded", "settled")
    /\ CreateSettlement(r, RefOf[r], Theirs)
    /\ UNCHANGED <<cards, outcome>>

MarkCard(r) ==
    /\ JobGoes(r, "settled", "marked")
    /\ card' = [card EXCEPT ![r] = "SUCCESS"]
    /\ UNCHANGED <<transactions, cardStep, held, outcome>>

\* reconcile: whichever row of the order is found decides.
Reconcile(o) ==
    \/ /\ ByMerchantReference(o) = {}
       /\ UNCHANGED reconciled
    \/ \E x \in ByMerchantReference(o) :
          reconciled' = IF x.executionStatus = "SUCCESS"
                        THEN reconciled \cup {o} ELSE reconciled

ReconcileCard(r) ==
    /\ JobGoes(r, "marked", "reconciled")
    /\ Reconcile(RefOf[r])
    /\ UNCHANGED <<transactions, cards, told>>

Say(o, verdict) == told' = [told EXCEPT ![o] = @ \cup {verdict}]

TellOfCard(r) ==
    /\ jobStep[r] = "reconciled"
    /\ Say(RefOf[r], "SUCCESS")
    /\ jobStep' = [jobStep EXCEPT ![r] = "idle"]
    /\ job' = [job EXCEPT ![r] = "completed"]
    /\ UNCHANGED <<transactions, cards, tries, broken, reconciled>>

\* A statement throws, or the worker dies and the queue takes the job back.
BreakJob(r) ==
    /\ jobStep[r] # "idle"
    /\ jobStep' = [jobStep EXCEPT ![r] = "idle"]
    /\ job' = [job EXCEPT ![r] =
                  IF tries[r] < Attempts THEN "waiting" ELSE "failed"]
    /\ broken' = IF jobStep[r] \in {"marked", "reconciled"}
                 THEN broken \cup {r} ELSE broken
    /\ UNCHANGED <<transactions, cards, tries, outcome>>

-----------------------------------------------------------------------------
WorkJob(r) ==
    \/ StartJob(r)
    \/ SettleCard(r)
    \/ MarkCard(r)
    \/ ReconcileCard(r)
    \/ TellOfCard(r)

CardNext(r) ==
    \/ LookUpCard(r)
    \/ StoreCard(r)
    \/ EndCard(r)
    \/ AskForCard(r)
    \/ Authorise(r)
    \/ NotifyCard(r)
    \/ WorkJob(r)
    \/ BreakJob(r)

=============================================================================
