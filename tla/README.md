# Verification of clevix-payment

TLA+ models of this NestJS payment service: the wallet transaction, payouts,
deferred settlement, collections by virtual account, card and terminal, invoices
with their fees and taxes, sweeps, the provider's access tokens, the onboarding
of businesses, accounts and their tokens, and the webhooks merchants are told
with. TLC checks them on small instances; TLAPS proves every safety property that
holds, and both refinements, for every instance.

Paths below are relative to `src/modules` of the repository.

## 1. Inventory

The service is one Node process per server (any number of servers) over one
Postgres database at READ COMMITTED, BullMQ queues in Redis, and one payment
provider, VFD, reached over HTTP. Between two `await`s a request, a job or a
cron run may be overtaken by any other, and may end: by an exception, by a
crash, or because BullMQ takes its job for stalled.

| Component | State | Operations | Interacts with | What is hard |
|---|---|---|---|---|
| **Wallets** (`wallets`, `settlement-management/service/settlement.account.service.ts`, `ledger`, `transactions`) | wallet rows, statement rows (`wallet_transactions`), `transactions`, ledger accounts and entries | `createSettlement` (credit, now or later), `debitUserWallet` (payout) | every collection and payout runs through it | two requests on one row, the duplicate check, three books that must agree, rollback |
| **Payouts** (`Api/transfers`, `infrastructure/payments/providers/vfd`) | status of the `wallet_transactions` row, BullMQ job, the provider's transfer | `processPayout`, the processor, `validateOutgoingTransferStatus` (cron), `getTransferStatus` | wallets, queue, provider | crash between debit and queue, stalled jobs, lost answers, worker and cron writing one column |
| **Deferred settlement** (`settlement-management`) | `settlements` (one a day), `settlement_transactions` (buckets), settlement terms and accounts of the business, jobs | bucket and settlement upsert, queueing cron, processor | called inside the wallet transaction | totals read and written back by collections that overlap; a bucket that is queued while it grows; the cron on several servers |
| Settlement payouts to banks (same module) | `settlement_payout_attempts` | payout engine, status cron, close of a settlement | provider, ledger | nothing: they are never reached (section 2) |
| **Settlement shares** (`shared/utils.ts`) | none | `allocateSettlementShares` | settlement buckets | rounding |
| **Virtual accounts** (`Api/collection/virtual-accounts`) | `dynamic_virtual_accounts`, credit jobs | issue, expire, `incomingWebhook`, credit processor | the bank, wallets, reconciliation, webhooks | notifications repeated, lost, late; jobs that die between steps |
| **Invoice payment** (`service-checkout-invoice`, `reconciliation`) | invoices, `invoice_payment_transactions`, invoice taxes | `payInvoice`, reconciliation handler | virtual accounts, cards, POS, taxes, webhooks | two attempts at one invoice, paid without credit, credit without paid |
| **Merchant webhooks** (`webhooks`) | webhooks, snapshots of deliveries | create, delete, dispatch, repush, retry cron | collections, invoices | a failed delivery must be tried again |
| **Card payments** (`Api/collection/card`) | `card_transactions`, notification jobs | initiate, OTP or redirect, notification, credit job | wallets, `transactions`, reconciliation, webhooks | references that do not match, repeated requests, jobs that break off and start again |
| **POS payments** (`Api/collection/pos`) | `pos_transactions`, terminals | `chargePos`, the provider's notification, terminals | wallets, `transactions`, reconciliation, webhooks | the card is charged before anything is stored |
| **Invoice creation** (`service-checkout`, `service-checkout-invoice`) | services, items, forms, invoices | create, toggle, edit a service; `createInvoice` with its retry | taxes, fees, webhooks | a repeated request; prices and tax that change in between |
| **Taxes** (`tax-management`) | configurations, destinations, tax transactions | configure, assess, allocate, collect | invoices, settlement | the tax is read twice, and used much later |
| **Fees** (`fees-configuration`, `transaction_fees`, `service-checkout-invoice/fee`) | platform and business configurations, fee rows | look-up, preview, check at payment, deduction at settlement | initiators, wallets | the same fee computed three times from rows that change |
| **Internal sweep** (`Api/internal-sweep`) | `sweep_payment_transactions` | three kinds of sweep, status cron | provider | a reference used twice at once; a batch that is full |
| **Provider access** (`infrastructure/payments`, `infrastructure/redis`) | the token in Redis | `withTokenRetry` | every call of the provider | a token written back after it was found stale |
| **Onboarding** (`business-kyc`, `businesses`, `key-management`) | KYC rows, status and environment of the business, API keys | submit, move to review, switch environment, generate a key | reviewers outside the program | submissions that overlap; approval and environment that change meanwhile |
| **Accounts** (`users`, `authentication`, `business-members`, `token-management`) | users, memberships, tokens with `usedAt` | register, verify, reset and change a password, switch business, generate, resend, validate a token | e-mail | a token looked at, then spent |
| Banks, countries, KYC providers, roles, listings | rows | create, read, update | – | nothing concurrent beyond unique keys |
| Other infrastructure and shared helpers | HTTP, e-mail, encryption, migrations, seeds | – | – | no protocol of their own |

What makes the money components correct: no overdraft; wallet, statement and ledger
agree; a payment is credited once and a payout debited once, and sent at most once per
start of its job; what is reported as paid was paid; what is to be settled is what was
collected, to the kobo; what happened at the bank reaches the books in the end; what a
payer was shown is what is charged and shared out, whatever administrators change
meanwhile. `PROJECT.json` lists the hazards behind each of these, at the line where they
bite.

## 2. Modules

| Module | Models | Properties |
|---|---|---|
| `Wallets` | `createSettlement` and `debitUserWallet` | safety (two violated), one liveness |
| `WalletsProofs` | – | proofs of `Wallets` |
| `PayoutContract` | what a merchant may rely on about a payout (abstract) | – |
| `Transfers` | the payout pipeline; implements `PayoutContract` | refinement, safety (one violated), liveness |
| `TransfersProofs` | – | proof of the refinement and of the safety |
| `Settlements` | settlements and buckets, the terms of the business, queueing cron, worker | safety, action property, liveness |
| `SettlementsProofs` | – | proofs of `Settlements` |
| `SettlementShares` | `allocateSettlementShares` as pure operators | bounded inputs |
| `SharesProofs` | – | proofs of `SettlementShares` |
| `Sums` | – | lemmas about sums over finite sets |
| `Collections` | `payInvoice`, virtual accounts, notification, credit job, reconciliation | safety, liveness |
| `CollectionsProofs` | – | proofs of `Collections` |
| `Webhooks` | deliveries and their retry | liveness (violated) |
| `Transactions` | the `transactions` table, its look-ups, and `createSettlement` seen from outside | – |
| `Cards`, `Pos` | the two ways to pay an order with a card, over `Transactions` | – |
| `IntakeContract` | what a merchant may rely on about an order paid by card (abstract) | – |
| `Checkout` | composition of `Cards` and `Pos`; implements `IntakeContract` | refinement, safety (one violated), liveness |
| `CheckoutProofs` | – | proof of the refinement and of the safety |
| `Services`, `Taxes` | what an invoice is made from | – |
| `Invoices` | `createInvoice` over `Services` and `Taxes`; allocation | safety, action property |
| `InvoiceFees` | the fee from preview to settlement | safety, one violated |
| `Sweeps` | sweeps and their cron | safety, liveness |
| `ProviderTokens` | the shared access token | safety |
| `Onboarding` | KYC, environment, keys | safety |
| `Accounts` | users, memberships, tokens | action property |
| `PartsProofs` | – | proofs of the six before it, from `Invoices` on, and the types of all parts side by side |
| `MC...` | small instances | – |

Definitions named `...Unlocked`, `...Early` and so on, each with a comment that
starts with "Fault:", are the model of a plausible bug: they are no part of any
specification, and show that the property they are paired with in `PROJECT.json`
notices it.

### Wallets

A request runs `new` → `ready` (validated, and for payouts the reference looked
up) → `locked` (row locked or, for a business without one, inserted) → `checked`
(duplicate check under the lock, resp. balance check) → `committed`,
`duplicate` or `failed`. Reads are steps; all writes of a request are one step,
its commit, because READ COMMITTED hides them till then, and a crash before it
undoes them. `balance`, `statement`, `success` (the SUCCESS rows of
`transactions`), `posted` and the ledger accounts are the tables; `holder` is the
Postgres row lock; `target` and `seen` are what the request remembers. `Row`
allows a business several wallet rows, because the schema does: there is no
unique key, and `findOrCreateWallet` can insert two.

Amounts are integers of kobo; one currency, environment and provider. The code
multiplies and divides only in fee look-ups, which are inputs here.

### Transfers and PayoutContract

`request`, `status`, `job` and `run` are the request's progress, the status
column, the BullMQ job and each start of it; `transfer`, `posts`, `taken` and
`paid` are the provider: a post may be taken before or after its caller gave up.
`poll[k]` is what a run of the cron knows. All of worker and cron's writes are
unconditional, as in the code. A post with a reference the provider has already
taken may be ignored or carried out: nothing is assumed of VFD here.

The client of the provider asks with a cached token, and once more with a new one
if that is refused: `RefuseToken` is the 401 or 403, which moves nothing, and the
next `PostTransfer` of the run the second and last POST. `posts` counts the POSTs
that are let through.

The queue adds a job with `attempts: 1`, so one that failed is not started again. One
that *stalled* is: its worker died, or was too busy to renew the job's lock, and nothing
in `src` sets `maxStalledCount`, whose default in BullMQ is 1. `Runs` is the number of
starts this allows. The worker looks at no status before it posts.

`PayoutContract` has three variables and three actions: reserve, send, tell. Its
constant `Times` is how often a payout may be sent; `KeepsContract` maps it to
`Runs`, `reserved` to the debited payouts, `sent` to `paid` and `report` to the
status column. So money moves at most once for each start of the job, only for
what was debited, and COMPLETED is told only of what was sent. A report of failure
promises nothing there, because the code writes FAILED for every answer that is
not a success. That it moves at most once altogether would be a promise of the
provider, and that the worker posts a request once is not so (`ProcessedOnce`,
section 5).

### Settlements

A wallet, a settlement and a bucket have the name of the collection that inserted
the row. `stage[c]` is how far the database transaction of collection `c` has
come: `begun` (holds the wallet row, knows its terms), `opened` (holds the
settlement of the day and has read its totals: `seen`), `filled` (holds the bucket
and has read its totals: `found`), `done`. It writes back sums of what it read, so
that the row locks (`HoldsWallet`, `HoldsSettlement`, `HoldsBucket`) are all that
keeps them right. `TermsFor` says from the business's configuration whether a
share is credited at once (its bucket is born SETTLED) or on the next day, and to
what. The cron goes statement by statement: `BeginQueueing`, `AddJob`,
`MarkQueued`, and `StopQueueing` anywhere. One share of a collection is followed.

**No settlement is paid to a bank.** The worker asks for the bucket's
`settlementBankAccount`, a relation that `settlement_transactions.entity.ts:54-56`
joins on the column `providerbankId`. Nothing writes this column, so the relation
is null for every bucket, and the worker returns at `settlement.processor.ts:57-66`
with the reason that the account was not found (`docs/security/money-integrity-audit.md`,
finding 5). For a bucket of a wallet, or one that names no account (with the terms
of the business set to BANK, since no endpoint makes an account the primary one), it
reports "processed" and nothing moves, either. The payout engine
(`settlement.engine.service.ts:84-432`), the payout attempts, the status cron and
the close of a settlement are therefore never reached, and the model has none of
them: `ProcessJob` ends the job.

### SettlementShares

Shares by largest remainder, as a definition on functions. `SharesAddUp` and
`SharesAreFair` compare them with what a split must satisfy (total, and no kobo
better placed elsewhere) of the collection in `split`. `MCSettlementShares` starts
with every collection up to the bounds and settles the shares of one of them, with
the actions of `Settlements`.

### Collections

One order is one merchant reference: an attempt at an invoice, or an API order
for an account. `pay[a]` is how far `payInvoice` (or the API call) has come,
`holder` the lock on the invoice row, `recent` the attempts within the window
of two minutes; `step[h]` is a request of the bank that a server handles,
`run[t]` the statement a credit job has reached. `rows[a]` are the statuses of
the rows of `transactions` with a's reference: there may be two, since
the credit updates the INITIATED row only if the bank gave our reference back
(`echo`), and the reconciliation reads either. `createSettlement` is one step
here; `Wallets` has its inside.

### Webhooks

Each try leaves a snapshot with its hour. `FailedSnapshots` is the query of the
cron, bounds in the order of the code.

### Transactions, Cards, Pos and Checkout

`rows` is the table, `credits[o]` counts the wallet credits of order `o`;
`CreateTransaction` is the idempotent insert, `Successful` and `BySystemReference`
the look-ups by which callers tell a duplicate. `createSettlement` is one step,
because it is one database transaction whose inside is in `Wallets`.

In `Cards`, `cardStep` is the request, `held` what the provider did, `card` the card
row, `job`, `tries` and `jobStep` the BullMQ job: loaded, settled, marked, reconciled,
told. `BreakJob` ends it after any of these, and it starts again up to `Attempts` times;
`broken` remembers (for a property, not for the code) that it broke off after it had
marked the card. The notification's route is public and unsigned, and its handler reads
two references from the body and nothing of what became of the charge: `NotifyCard` may
happen to any card, before its charge, after a declined one or without one, and no step
of the job asks either. In `Pos`, one request goes through look-up, terminal check,
charge, save, settle, answer, and may end between any two. `Checkout` runs both over the
one table. `KeepsIntake` maps `attested` to the orders somebody has said were paid (a
notification of a card payment, or a terminal charge that was taken), `credited`,
`settled` and `reports` to `credits`, `reconciled` and `told`: an order is credited
once, only after it was attested, and reported only after it was credited. It does not
say that the payer was charged; that is `CreditedIsPaid`, which is violated for cards. A
report of failure promises nothing.

### Services, Taxes, Invoices and InvoiceFees

A request for an invoice loads service and item, prices the item with the tax it
reads, and then, in one database transaction, looks for an invoice with the
reference, stores one, and assesses the tax, which it reads again. The insert is
refused if the reference was taken (`CommitRefused`) and tried again if our own
random reference was (`CollideAndRetry`, up to `Collisions`). `Edit` and
`Administer` change service, item, tax and destinations at any time between. An
invoice has one item; `MerchantAllocations` and `TaxAllocations` are what the
resolver allocates of it when it is paid.

`InvoiceFees` is one payment: shown, paid, settled, with the configuration of
platform and business changing in between. `feeCharged` is the fee that travels
with it: that of a charge (card or terminal) whose payer bears the fee, and NULL
for a transfer, where `generateDynamicVirtualAccount` stores `feeCharged: null`
(`virtual-accounts.service.ts:107`) and the job gets that null (`:389`). Settlement
then computes the fee of a transfer anew, on the total. `FeeBorneOnce` says what
holds all the same, `TransferFeeStands` what the comment of the initiator promises.

### Sweeps

`sweepStep` is a request, `sweepRows` the table, oldest first, `moved` the provider,
`asked` what the cron has in hand. The provider is assumed to move money for a reference
once (which `Transfers` does not assume). The in-flight check of VFDLUXSWEEP compares
the account it sweeps with accounts that rows never name; it is modelled so. (Its
schedule is commented out: whoever calls it does so at any time.)

### ProviderTokens, Onboarding and Accounts

`ProviderTokens` numbers tokens in the order they were issued; `writes` are the
writes to Redis that nobody waits for. `Onboarding` is one business: the three
submissions, each of which looks at the end whether all is there; `Decide` is the
reviewer, who is not in the program. `Accounts` has users, their businesses and the
token rows; `Ask` are requests for a token (some of them resend a previous one),
`Present` requests that hand one in. Presenting picks a row by number and type,
and two rows never have one number here.

## 3. Runs

| Run | Instance | Shows |
|---|---|---|
| `requests` | one wallet with two attempts at one order, a deferred collection, two payouts of one reference and a third, of which the balance covers one; or two businesses, one without a wallet row, and one payout reference in both | no overdraft, no double credit or debit, statement without gaps, wallet = ledger, balanced ledger, reads under the lock stay true; every request ends, also when the ledger refuses it or the server dies inside |
| `first` | the first two attempts of a business without a wallet row | **violated**: credited twice |
| `order` | two businesses with the same order number | **violated**: the second is skipped as a duplicate |
| `payouts` | a payout whose job may be started twice, and either two overlapping polls or a second payout; batch of one | `Transfers` implements `PayoutContract`; money moves at most once per start that sends; every debited payout is decided for good, though the two crowd one batch |
| `once` | one payout whose job may stall | **violated**: posted twice |
| `schedules` | two collections while the business sets and changes terms and account; or three of a business that has configured nothing | no collection is lost from bucket or settlement; nothing joins a bucket that is queued |
| `day` | every small collection shared out; two shares, two servers, three days | shares add up and are fair; what settles later is handed over in the end |
| `collections` | two attempts at an invoice, or one and an API order; two transfers, or one that is notified twice to two handlers | credited once, nothing reported without a credit, one attempt in the window; acknowledged is credited, credited is reconciled |
| `retried` | one event, three hours | **violated**: no failed delivery is retried |
| `services` | the parts that do not interact, one at a time (see below) | the properties of `Checkout`, `Invoices`, `InvoiceFees`, `Sweeps`, `ProviderTokens`, `Onboarding` and `Accounts` |
| `declined` | the instance of `services` | **violated**: an order is credited whose card was not charged |
| `transfer` | the instance of `services`, with an uncapped rate as the only fee | **violated**: the fee of a transfer is computed twice |

`requests` starts with the requests of one of its two instances; those of the
other have failed before they touched anything. Where a run has two instances in
one, its MC module says in a comment which steps the bounds exclude (`FewNext`);
none of these is the only way to do what fairness asks for.

`services` picks a part in its initial state and lets only that one move, so that
the parts add up and do not multiply. The parts are: *cards* (two
cards and one terminal request for one order), *terminals* (one card and two
terminal requests), *invoices* (two requests under one reference, three changes
by administrators), *fees* (an amount a flat fee exceeds and one that reaches a
cap, two methods), *sweeps* (two requests under one reference and a third, of the
kind that checks for one in flight), *provider* (two calls, three tokens),
*onboarding* (the three submissions, a switch, two key generations), *people*
(registration, second business, verification with a resend, password change) and
*tokens* (two requests for a reset token, two that present one). To keep *cards*
and *terminals* small, a card is notified only once the provider knows its
reference, only one card is ever authorised (no step reads what became of a
charge), the job of the one card in *terminals* has one start and
the terminal stays active, and in *tokens* the user has one business and does not
change his password; the other part of each pair has what these leave out.

Deadlock checking is off everywhere: requests end, and then nothing is left to
do.

**Why the bounds are enough.** Conflicts in this code are between two requests
on one row, one of them possibly overlapping a third: each instance has every
pair the code can bring together, plus one of another kind (`requests`: same order
twice, same payout twice, and one of each that is independent). Batch sizes of
one make "oldest first, at most 200" bite with two rows. Two overlapping polls
are the most that matter, since each writes what it last read. Two starts of a
payout's job (`Runs`) are what BullMQ's default allows; two of a credit job or of a
card's (`Tries`, `Attempts`; in the code `attempts: 5`) are one that breaks off
and one that finds what it left. A settlement job needs one (`Starts`): nothing it
does depends on earlier ones. Three collections are the fewest that can race for
totals already written: one opens the settlement, two read it. With `LastDay` = 2
the days are that of a collection, that of its settlement, and one more for what
the cron has missed. Three tokens are one that goes stale, one that a late write
puts back and a fresh one. Three edits are enough for the tax to change between
pricing and assessment, and again before the invoice is paid. Shares: up to three
parts with gross amounts up to 4 and a fee up to 6, which gives every pattern of
remainders of three parts, ties included. `Starts`, `Tries`, `Deliveries`,
`LastDay`, `LastHour`, `Attempts`, `Runs`, `MaxGross`, `MaxFee`, `MaxParts`,
`Collisions`, `Edits`, `Batch` and `MaxToken` are all the bounds, with those the MC
modules name.

**Fairness.** `Wallets`: a request that can go on does (the event loop, and Postgres
grants row locks in turn); crashes are never required. `Transfers`: the cron fires for
ever (`WF` of `BeginPoll`, on any server) and is not cut short every time it asks about
a payout (`SF` of `StatusAnswer` and `RecordStatus`); the worker owes nothing.
`Settlements`: days pass, the cron fires on some server (`WF` of `BeginQueueing`) and is
not cut short at the same bucket every time (`SF` of `AddJob` and `MarkQueued`), a job
that waits is started (`WF` of `StartJob`), and a collection goes on or is rolled back.
`Collections`: the worker goes on with the jobs it has (`WF` of `Process`), an `UPDATE`
that waits for an invoice's lock gets it in turn (`SF` of `MarkPaid`), a transaction
that holds the lock ends (`WF` of its two statements); servers and bank owe nothing.
`Checkout`: the worker goes on with the job of a card (`WF` of `WorkJob`), which may
break off each time. `Sweeps`: the cron fires (`WF` of `LoadProcessing`), and a provider
that is asked about a sweep again and again answers some time (`SF` of `ConfirmSweep`).
`Webhooks`: the cron fires (`WF` of `Cron`).

## 4. Proofs

`WalletsProofs` proves, for any businesses, requests and arguments: `TypeOK`,
`LockedReadIsFresh`, `NoOverdraft`, `WalletMatchesLedger`, `CreditedOnce`,
`StatementChain`, `DebitedOnce` and `LedgerBalanced`. The assumptions are those of
`Wallets`: constants of the right kinds, finitely many businesses, and that a provider
reference names one payment. None of the properties is inductive by itself. What carries
them is

    WalletsInv == RowsKept /\ LockedReadIsFresh /\ CheckIsFresh /\ DebitsPosted

- *RowsKept*: a provisioned business has its one row; a row nobody committed was
  never written.
- *LockedReadIsFresh*: from lock to commit, the balance a request read is the
  balance of its row, because it holds the lock or is the only one to see the
  row. This needs that `Rollback` and commit are the only ways to give up a lock.
- *CheckIsFresh*: the absence of a duplicate found under the lock lasts to the
  commit, since any other credit of the business needs the same lock. It needs
  the business to be provisioned: `first` shows why.
- *DebitsPosted*: a debit on a statement has its reference in the ledger, whose
  unique key then excludes a second one, in any wallet.

Each property is then preserved by the two commit steps, with `WalletsInv` as
hypothesis; all other steps leave the tables alone. `LedgerBalanced` is a sum over
the accounts of all businesses: a posting changes two of these accounts of one
business and those of the house, and `SumChanged` says what that does to the sums.

`SettlementsProofs` proves, for any collections, amounts, accounts, servers,
starts and days, `TypeOK`, `BooksAgree` and `QueuedIsFinal`. A collection writes
back sums of totals it read some statements before, so what must be shown is that
they are still those of the row. The invariant is

    SettlementsInv == TypeOK /\ Shape /\ BooksAgree
    Shape == Placed /\ OneHolder /\ Fresh /\ ReadHolds /\ Listed

- *Placed*: what a collection joins is its own row, which nobody else can see yet,
  or a committed one, and a bucket is of the settlement of its collections.
- *OneHolder*: two open collections do not hold one settlement. (That they do not
  hold one bucket follows, since its settlement is locked before.)
- *ReadHolds*: the totals an open collection has read are those of the row, and so
  is the status of the bucket it holds. This is what the row locks are for. The
  wallet's lock is not used: `BooksAgree` holds for the first collections of a
  business, too.
- *Fresh*, *Listed*: rows that are not committed hold nothing, and the cron has
  only committed ones in hand.

`BooksAgree` is then kept by the one step that writes, `Commit`, where the sums over
the collections of a bucket and over the buckets of a settlement grow by the same
share (`SumGrows`). For `QueuedIsFinal`, a collection that holds a bucket found it
UNSETTLED, by *ReadHolds* it still is, and so no collection writes to one that is
queued; `MarkQueued` waits for those that hold it.

`SharesProofs` proves `SharesAddUp` and `SharesAreFair` for any number of parts,
any amounts and any fee (`MaxParts`, `MaxGross` and `MaxFee` are arbitrary). The
quotas of the parts that bear the fee add up to the fee, so that their floors
leave over the sum of the remainders divided by the base, which is less than the
number of parts (*LeftoverIsRemainders*). The order by remainder, then
position, is total, so that ranks are a bijection onto `0..n-1` and exactly the
first *Leftover* parts get one kobo more (*RanksGrow*, *FirstOnes*): the fee is
borne to the kobo (*FeeIsBorne*). A part never bears more than it has
(*ShareIsBorneByItsPart*), and whoever is served has a remainder at least as large
as whoever is not, which is fairness.

`TransfersProofs` proves, for any payouts, polls, batch and number of starts,
`TypeOK`, `PaidPerStart` and `Spec => KeepsContract`, with `Runs` for the contract's
`Times`. The invariant is a chain: what was paid was taken, what was taken was
posted, and every post was let through for a run of its own
(`paid <= taken <= posts <= Cardinality(Senders) <= Runs`, with one less if a
transfer is pending); and a poll that knows "paid" is right. With it, initial states
map to initial states, and every step to a step of `PayoutContract` or to a
stutter, whatever the provider makes of a second post.

`CollectionsProofs` proves `TypeOK`, `CreditedOnce`, `PaidIsCredited` and
`OneRecentAttempt`, for any orders, invoices, transfers and handlers. For the credit
(*CreditsKept*): a transfer that was credited has an order with a SUCCESS row, and no
step takes that row away, because an account (and its INITIATED row) is issued only
before the payer knows it. For what is reported (*RowsAreBacked*), the converse: a
SUCCESS row, and a job that is past the settlement, have a credit behind them, and
credits are not taken back. For the attempts (*AttemptsAreLocked*): a request in the
locked section holds its invoice's lock, so two are never in it for one invoice, and one
that found no recent attempt still finds none.

`CheckoutProofs` proves `Spec => KeepsIntake`, `CreditHasItsRow`, `ApprovedIsCredited`,
`EndedWellIsTold` and `CheckoutTypeOK`, for any orders, cards, terminals and starts of a
job. *RowsInv* says of `transactions` that an order has as many SUCCESS rows as credits,
and that their references are those of requests, each at most once; *CardsInv*, that a
job runs only for a card that was notified, and past its settlement finds the order
credited; *SalesInv*, that what is stored of a terminal charge is what the provider did.
The step that matters is `SettleRow`: it turns the row with our reference into SUCCESS,
or inserts one, which is possible because no other row has that reference or key.
`EndedWellIsTold` needs *JobInv*: a card that is marked has a job that is past the mark,
is done, or broke off there; a job that is past reconciliation finds the order marked or
with other transactions, and neither is taken back.

`PartsProofs` has the parts that share no table with those above.

- *Invoices*: `OneInvoicePerReference` (*UniqueReferences* from the index,
  *AnswersMatch* and *NotYetAnnounced* for the requests on their way),
  `TaxIsFrozen` (rows are only appended, and an allocation reads nothing else),
  and types: what is priced and assessed is a number, also when the configuration
  changed between the two reads.
- *Fees*: `FeeBorneOnce`: what was paid is what the business gets and the fee that is
  taken; who bears no fee pays the amount only, and an invoice whose payer bears it
  and pays by card or terminal brings the business all of the amount (*FeesInv*:
  the fee of such a charge travels with it).
- *Sweeps*: `SweptOnce`. The row of a reference is stored by one request, which
  alone posts it; SUCCESS is written only for a reference that was moved.
- *Access tokens*: `RetriesWithFreshToken`. *RetryInv* relates the number of the
  token a repeated call uses to the number of tokens issued when it was refused.
- *Onboarding*: `CompleteIsReviewed` and `LiveKeyWasApproved`. *SomebodyWillSee*
  says that when all is handed in and nobody has moved the business, a submission
  that has still to look, or that saw it complete, is under way or died;
  *LiveIsApproved*, that LIVE in the row, in a switch or in the scope of a
  generation was approved.
- *Accounts*: `ClosedIsRefused`. *ClosedIsUsed* says that a token that was accepted or
  replaced is marked as used, and that a request past its marking has marked
  every earlier token of its kind, while other requests add rows; *RowsGoOn*, that no
  step takes a mark back. *PeopleInv* keeps users members of the business they are
  active in.
- *All of them side by side*: `PartsTypeOK`, for `PartsSpec` of `MCServices`.

**Sums.** The models add up with `SumFunctionOnSet` of the community modules, a
fold. `Sums` takes from its definition that the sum over a set is an element and
the sum over the rest, and proves what else is needed (an element changed,
disjoint sets, groups, linearity, comparison, counting) by taking a smallest
subset on which the claim fails (`SmallestSubset`): a finite set has one, since
cardinalities are natural numbers. This does the work of an induction over
finite sets, which the installed provers cannot do: the library's induction
theorems take an operator as a parameter.

**Assumptions.** The theorems assume the named assumptions on the constants
only: kinds of values, finite sets where the code counts or adds up, and in
`Wallets` that a provider reference names one payment.
No theorem uses fairness.

`TypeOK` of `Transfers` is a theorem only; no run repeats it.

**Only model-checked**: liveness (`EveryRequestEnds`, `DecidedForGood`,
`DeferredIsTried`, `AcceptedIsCredited`, `CreditedIsReconciled`,
`NotifiedIsCredited` and `SweepIsConfirmed`), because it rests on fairness and
ENABLED, which are outside these provers. Every invariant, the three
action properties and the two refinements that a passing run checks are theorems.
The six violated properties have their counterexamples in section 5.

## 5. What the checks found

1. **First wallet** (run `first`). `wallets.service.ts:167` says the row lock
   serialises credits instead of racing idempotency checks. A business without a
   wallet row has no row to lock: its first two collections with one merchant
   reference may both be credited, to two wallet rows.
2. **Duplicate of another business** (run `order`).
   `transaction.service.ts:260` looks a reference up without its business: a
   collection whose order number another business has used is skipped.
3. **Retry cron** (run `retried`). `webhook.service.ts:239` has the bounds of
   `Between` in the wrong order: nothing is ever selected.

4. **A payout posted twice** (run `once`). `docs/security/money-integrity-audit.md:171`
   (finding 7) says that by `jobId` and `attempts: 1` "the payout worker itself can't
   process one withdrawal request twice". A job that stalls is started again all the
   same, and posts the transfer again. `payouts` shows what is left: once per start.
5. **A credit without a charge** (run `declined`). `settlement.account.service.ts:581`
   remarks "Inward credit completed". A notification of a card payment is taken for its
   success whatever it says, and nobody asks: the order of a card that was never charged
   is credited. (Audit finding 1 says the same; open, `:197`.)
6. **The fee of a transfer** (run `transfer`).
   `transfer-invoice-payment.initiator.ts:50-52` hands a fee the payer bears over, so
   that settlement need not compute it. `virtual-accounts.service.ts:107` stores null
   instead. An invoice of 1000 at 1.5% is paid with 1015, 16 are taken off, and the
   business gets 999.

That no settlement is paid to a bank (section 2) is no run: the audit document says
it, and the code agrees.

Limits seen while modelling, which no run shows: a crash between closing a virtual
account and adding its job loses the credit (`virtual-accounts.service.ts:361-377`); a
second transfer into one account is kept without a credit; an invoice whose transfer
came without our reference may stay PENDING (`transaction.service.ts:246`).

More of these from the later modules:

- *Cards.* A second card payment under one merchant reference keeps the first
  one's transaction; if the second is the one charged, no row has its reference
  and its job fails for good (`card-payment-webhook.processor.ts`). A job that
  breaks off after the card was marked passes for a duplicate when it starts again: the
  merchant is not told.
- *POS.* A crash after the charge leaves no trace of it (`pos.service.ts:142`);
  two requests for one order may both charge, and one of them is credited.
- *Transactions.* `getTransactionStatus` answers with the newest row: one that is
  initiated after the order was paid hides the SUCCESS.
- *Taxes.* The amount of a tax comes from the first read of the configuration,
  rate, payer and mode of its row from the second: they may disagree.
- *Services.* An edit that was loaded before a service was switched off writes
  the whole row and may switch it on again.
- *Sweeps.* A call that throws is recorded as FAILED although the money may have
  moved, and no cron asks about it. Rows that the provider never decides fill the
  batch of the cron. The in-flight check of VFDLUXSWEEP never finds anything.
- *Keys.* Two generations of a key that overlap may leave two that work.
- *Tokens.* Two requests that present one token at once may both be accepted;
  two that ask at once may leave two good ones.

## 6. Plan

Done: all modules above, and proofs of all their safety properties. What is
left, most important first:

1. `Collections` as a third implementation of `IntakeContract`, and its proof.
2. Invoices with several items.
3. Static virtual accounts, which are never closed.

## 7. Not modelled

Payouts of settlements to banks, because the code never reaches them (section 2):
to be modelled when the relation is mended, and then the engine's retries, the
status cron and the close of a settlement with them.

Roles and permissions, listings, reference data, KYC look-ups and account
validation at providers, e-mail, encryption, HTTP guards, migrations and seeds:
they create, read and update rows behind a guard, or change nothing. They have no
interleaving beyond a unique key, and a model would only restate them. Nobody in
`src` approves a business or changes a fee configuration: `Decide` and
`ChangeFees` stand for whoever writes these rows. Token numbers that collide,
payload formats, signatures and wording are abstracted away.
