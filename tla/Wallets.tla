------------------------------ MODULE Wallets ------------------------------
(***************************************************************************)
(* The wallet core: SettlementService.createSettlement (a collection       *)
(* credits a business) and WalletService.debitUserWallet (a payout debits  *)
(* it).  Each request runs one Postgres transaction under READ COMMITTED:  *)
(* it locks the wallet row, looks for an earlier request with the same     *)
(* reference, posts the ledger, moves the balance and writes the statement *)
(* row.  What a transaction has written is visible to others only when it  *)
(* commits, so the writes of one request are one step; the reads that lead *)
(* to them are steps of their own and interleave with other requests.      *)
(*                                                                         *)
(* One currency, one environment and one provider: every query of the code *)
(* that takes them takes the same ones.                                    *)
(***************************************************************************)
EXTENDS Integers, Sequences, FiniteSets, Functions

CONSTANTS
    Business,       \* merchants
    Request,        \* calls of createSettlement or debitUserWallet
    Provisioned,    \* businesses whose wallet row exists from the start
    Input,          \* Input[r]: the arguments of request r
    None            \* SQL NULL: no lock holder, no row

Arguments ==
    [op : {"collect", "payout"}, biz : Business, instant : BOOLEAN,
     ref : STRING, mref : STRING, pref : STRING,
     gross : Int, providerFee : Nat, merchantFee : Nat]

ASSUME ConstantsAssumption ==
    /\ IsFiniteSet(Business)
    /\ Provisioned \subseteq Business
    /\ Business \cap Request = {}
    /\ None \notin Business \cup Request
    /\ Input \in [Request -> Arguments]

(***************************************************************************)
(* A provider reference names one payment: two deliveries that carry the   *)
(* same reference agree on everything else.                                *)
(***************************************************************************)
ASSUME ReferenceNamesOnePayment ==
    \A r, q \in Request :
        /\ Input[r].op = "collect" /\ Input[q].op = "collect"
        /\ Input[r].ref = Input[q].ref
        => Input[r] = Input[q]

VARIABLES
    pc,         \* pc[r]: how far request r has come
    target,     \* target[r]: the wallet row r works on
    seen,       \* seen[r]: the balance r read when it locked that row
    owner,      \* owner[w]: the business of wallet row w, None if not committed
    balance,    \* balance[w]: wallets.balance
    holder,     \* holder[w]: the request that holds the lock on row w
    statement,  \* statement[w]: wallet_transactions of row w, oldest first
    success,    \* transactions rows with executionStatus SUCCESS
    posted,     \* ledger_transactions.reference values
    cash,       \* ledger balance of each business's CUSTOMER_CASH account
    payable,    \* ... and of its SETTLEMENT_PAYABLE account
    house       \* ... and of the provider's and the platform's own accounts

books == <<posted, cash, payable, house>>

vars == <<pc, target, seen, owner, balance, holder, statement, success, books>>

-----------------------------------------------------------------------------
(* Rows and values *)

\* A seeded row is named after its business, an inserted one after the
\* request that inserted it.
Row == Provisioned \cup Request

WalletTransaction ==
    [by : Request, type : {"CREDIT", "DEBIT"}, amount : Int,
     before : Int, after : Int]

SuccessRow ==
    [by : Request, biz : Business, ref : STRING, mref : STRING,
     pref : STRING, settled : BOOLEAN]

HouseAccounts == [provider : Int, expense : Int, revenue : Int]

Active == {"locked", "checked"}

Done == {"committed", "duplicate", "failed"}

TypeOK ==
    /\ pc \in [Request -> {"new", "ready"} \cup Active \cup Done]
    /\ target \in [Request -> Row \cup {None}]
    /\ seen \in [Request -> Int]
    /\ owner \in [Row -> Business \cup {None}]
    /\ balance \in [Row -> Int]
    /\ holder \in [Row -> Request \cup {None}]
    /\ statement \in [Row -> Seq(WalletTransaction)]
    /\ success \subseteq SuccessRow
    /\ posted \subseteq ({"ref", "settlement-collection"} \X STRING)
    /\ cash \in [Business -> Int]
    /\ payable \in [Business -> Int]
    /\ house \in HouseAccounts

-----------------------------------------------------------------------------
(* Amounts *)

Collects(r) == Input[r].op = "collect"

Settled(r) == Input[r].gross - Input[r].providerFee

Net(r) == Input[r].gross - Input[r].merchantFee

\* getCreditAmounts: neither the provider's nor the merchant's share of a
\* collection may be negative.
ValidCollection(r) == Settled(r) >= 0 /\ Net(r) >= 0

TotalDebit(r) == Input[r].gross + Input[r].merchantFee

Revenue(r) == Input[r].merchantFee - Input[r].providerFee

\* ledgerPosting rejects an entry that is not positive, zero fees included.
\* The debits and credits of each posting below are equal by the arithmetic
\* of Settled, Net, TotalDebit and Revenue.
CollectionEntriesPositive(r) ==
    /\ Settled(r) > 0
    /\ Input[r].providerFee > 0
    /\ Net(r) > 0
    /\ Input[r].merchantFee > 0

PayoutEntriesPositive(r) ==
    /\ Input[r].gross > 0
    /\ Input[r].providerFee > 0
    /\ Revenue(r) > 0

\* The unique ledger reference of the posting request r makes.
LedgerReference(r) ==
    IF Collects(r) /\ ~Input[r].instant
    THEN <<"settlement-collection", Input[r].ref>>
    ELSE <<"ref", Input[r].ref>>

-----------------------------------------------------------------------------
InitRows ==
    /\ target = [r \in Request |-> None]
    /\ seen = [r \in Request |-> 0]
    /\ owner = [w \in Row |-> IF w \in Provisioned THEN w ELSE None]
    /\ balance = [w \in Row |-> 0]
    /\ holder = [w \in Row |-> None]
    /\ statement = [w \in Row |-> <<>>]
    /\ success = {}
    /\ posted = {}
    /\ cash = [b \in Business |-> 0]
    /\ payable = [b \in Business |-> 0]
    /\ house = [provider |-> 0, expense |-> 0, revenue |-> 0]

Init == pc = [r \in Request |-> "new"] /\ InitRows

\* The end of r's database transaction gives its row lock back.
Release(r) ==
    holder' = [w \in Row |-> IF holder[w] = r THEN None ELSE holder[w]]

Goto(r, label) == pc' = [pc EXCEPT ![r] = label]

\* Fault: an error path keeps the connection and its lock.
RollbackWithoutRelease(r) ==
    /\ Goto(r, "failed")
    /\ UNCHANGED <<target, seen, owner, balance, holder, statement, success,
                   books>>

\* Rollback: nothing r wrote survives, the row it inserted included.
Rollback(r) ==
    /\ Goto(r, "failed")
    /\ Release(r)
    /\ UNCHANGED <<target, seen, owner, balance, statement, success, books>>

-----------------------------------------------------------------------------
(* Before the database transaction *)

\* createSettlement computes the amounts and rejects an impossible fee.
BeginCollection(r) ==
    /\ pc[r] = "new"
    /\ Collects(r)
    /\ Goto(r, IF ValidCollection(r) THEN "ready" ELSE "failed")
    /\ UNCHANGED <<target, seen, owner, balance, holder, statement, success,
                   books>>

\* The payout a wallet_transactions row with r's idempotency key records.
PayoutRecorded(r) ==
    \E w \in Row : \E i \in 1..Len(statement[w]) :
        LET row == statement[w][i] IN
            /\ row.type = "DEBIT"
            /\ Input[row.by].biz = Input[r].biz
            /\ Input[row.by].ref = Input[r].ref

\* debitUserWallet looks the idempotency key up before it locks anything.
BeginPayout(r) ==
    /\ pc[r] = "new"
    /\ ~Collects(r)
    /\ Goto(r, IF Input[r].gross < 0 \/ PayoutRecorded(r)
               THEN "failed" ELSE "ready")
    /\ UNCHANGED <<target, seen, owner, balance, holder, statement, success,
                   books>>

-----------------------------------------------------------------------------
(* Inside the database transaction *)

VisibleRows(b) == {w \in Row : owner[w] = b}

\* Fault: the lock mode is left out of the query.
LockExistingRowUnlocked(r, w) ==
    /\ w \in VisibleRows(Input[r].biz)
    /\ target' = [target EXCEPT ![r] = w]
    /\ seen' = [seen EXCEPT ![r] = balance[w]]
    /\ UNCHANGED holder

\* SELECT ... FOR UPDATE on a wallet row of the business.  The index on
\* (businessId, currency) is not unique and the query has no order, so any
\* visible row may be the one it returns.
LockExistingRow(r, w) ==
    /\ w \in VisibleRows(Input[r].biz)
    /\ holder[w] = None
    /\ holder' = [holder EXCEPT ![w] = r]
    /\ target' = [target EXCEPT ![r] = w]
    /\ seen' = [seen EXCEPT ![r] = balance[w]]

\* Fault: the balance column's default is not read back after the insert.
InsertRowWithoutBalance(r) ==
    /\ VisibleRows(Input[r].biz) = {}
    /\ target' = [target EXCEPT ![r] = r]
    /\ seen' = [seen EXCEPT ![r] = None]
    /\ UNCHANGED holder

\* No row to lock: the request inserts one, which nobody else sees before
\* the commit and which therefore keeps nobody out.
InsertRow(r) ==
    /\ VisibleRows(Input[r].biz) = {}
    /\ target' = [target EXCEPT ![r] = r]
    /\ seen' = [seen EXCEPT ![r] = 0]
    /\ UNCHANGED holder

LockWallet(r) ==
    /\ pc[r] = "ready"
    /\ Goto(r, "locked")
    /\ \/ \E w \in Row : LockExistingRow(r, w)
       \/ InsertRow(r)
    /\ UNCHANGED <<owner, balance, statement, success, books>>

\* An inserted wallet row becomes visible when its transaction commits.
CommitRow(r) == owner' = [owner EXCEPT ![target[r]] = Input[r].biz]

\* getSuccessfulTransaction: any SUCCESS row, of any business, that carries
\* the merchant reference in one of its three reference columns.
Processed(r) ==
    \E t \in success : Input[r].mref \in {t.ref, t.mref, t.pref}

CheckCollection(r) ==
    /\ pc[r] = "locked"
    /\ Collects(r)
    /\ IF Processed(r)
       THEN /\ Goto(r, "duplicate")
            /\ CommitRow(r)
            /\ Release(r)
       ELSE /\ Goto(r, "checked")
            /\ UNCHANGED <<owner, holder>>
    /\ UNCHANGED <<target, seen, balance, statement, success, books>>

CheckPayout(r) ==
    /\ pc[r] = "locked"
    /\ ~Collects(r)
    /\ IF PayoutRecorded(r)
       THEN Rollback(r)
       ELSE /\ Goto(r, "checked")
            /\ UNCHANGED <<target, seen, owner, balance, holder, statement,
                           success, books>>

\* The statement row a request writes: before comes from the locked read, the
\* balance itself is moved by a relative UPDATE.
WriteStatement(r, type, amount, after) ==
    statement' = [statement EXCEPT ![target[r]] =
        Append(@, [by |-> r, type |-> type, amount |-> amount,
                   before |-> seen[r], after |-> after])]

\* saveCreditTransaction: insert the SUCCESS row, or turn the INITIATED row
\* with this reference into it.
SaveTransaction(r) ==
    success' = success \cup
        {[by |-> r, biz |-> Input[r].biz, ref |-> Input[r].ref,
          mref |-> Input[r].mref, pref |-> Input[r].pref,
          settled |-> Input[r].instant]}

\* The provider's receivable and fee, and the platform's revenue: the house
\* side of every collection, settled at once or later.
PostHouse(r) ==
    /\ posted' = posted \cup {LedgerReference(r)}
    /\ house' = [provider |-> house.provider + Settled(r),
                 expense |-> house.expense + Input[r].providerFee,
                 revenue |-> house.revenue + Input[r].merchantFee]

PostCollection(r) ==
    /\ PostHouse(r)
    /\ cash' = [cash EXCEPT ![Input[r].biz] = @ + Net(r)]
    /\ UNCHANGED payable

PostDeferred(r) ==
    /\ PostHouse(r)
    /\ payable' = [payable EXCEPT ![Input[r].biz] = @ + Net(r)]
    /\ UNCHANGED cash

\* Fault: the provider's payout fee is not taken from the provider account.
PostPayoutWithoutProviderFee(r) ==
    /\ posted' = posted \cup {LedgerReference(r)}
    /\ house' = [house EXCEPT !.provider = @ - Input[r].gross,
                              !.revenue = @ + Revenue(r)]
    /\ cash' = [cash EXCEPT ![Input[r].biz] = @ - TotalDebit(r)]
    /\ UNCHANGED payable

PostPayout(r) ==
    /\ posted' = posted \cup {LedgerReference(r)}
    /\ house' = [provider |-> house.provider
                                - (Input[r].gross + Input[r].providerFee),
                 expense |-> house.expense,
                 revenue |-> house.revenue + Revenue(r)]
    /\ cash' = [cash EXCEPT ![Input[r].biz] = @ - TotalDebit(r)]
    /\ UNCHANGED payable

\* Fault: the wallet gets the amount net of the provider's fee.
CreditWalletSettled(r) ==
    /\ balance' = [balance EXCEPT ![target[r]] = @ + Settled(r)]
    /\ WriteStatement(r, "CREDIT", Settled(r), seen[r] + Settled(r))

\* creditSpendableWalletBalance
CreditWallet(r) ==
    /\ balance' = [balance EXCEPT ![target[r]] = @ + Net(r)]
    /\ WriteStatement(r, "CREDIT", Net(r), seen[r] + Net(r))

CommitCollection(r) ==
    /\ CollectionEntriesPositive(r)
    /\ LedgerReference(r) \notin posted
    /\ SaveTransaction(r)
    /\ IF Input[r].instant
       THEN PostCollection(r) /\ CreditWallet(r)
       ELSE PostDeferred(r) /\ UNCHANGED <<balance, statement>>
    /\ CommitRow(r)
    /\ Release(r)
    /\ Goto(r, "committed")
    /\ UNCHANGED <<target, seen>>

ApplyCollection(r) ==
    /\ pc[r] = "checked"
    /\ Collects(r)
    /\ \/ CommitCollection(r)
       \/ /\ ~CollectionEntriesPositive(r) \/ LedgerReference(r) \in posted
          /\ Rollback(r)

\* Fault: the fee is left out of the balance check.
CoveredWithoutFee(r) ==
    /\ seen[r] - Input[r].gross >= 0
    /\ balance[target[r]] >= Input[r].gross

\* The balance checked in memory, and again by the WHERE of the UPDATE.
Covered(r) ==
    /\ seen[r] - TotalDebit(r) >= 0
    /\ balance[target[r]] >= TotalDebit(r)

\* Fault: ledger references are not unique.
CommitPayoutRepeated(r) ==
    /\ Covered(r)
    /\ PayoutEntriesPositive(r)
    /\ balance' = [balance EXCEPT ![target[r]] = @ - TotalDebit(r)]
    /\ WriteStatement(r, "DEBIT", TotalDebit(r), seen[r] - TotalDebit(r))
    /\ PostPayout(r)
    /\ CommitRow(r)
    /\ Release(r)
    /\ Goto(r, "committed")
    /\ UNCHANGED <<target, seen, success>>

CommitPayout(r) ==
    /\ Covered(r)
    /\ PayoutEntriesPositive(r)
    /\ LedgerReference(r) \notin posted
    /\ balance' = [balance EXCEPT ![target[r]] = @ - TotalDebit(r)]
    /\ WriteStatement(r, "DEBIT", TotalDebit(r), seen[r] - TotalDebit(r))
    /\ PostPayout(r)
    /\ CommitRow(r)
    /\ Release(r)
    /\ Goto(r, "committed")
    /\ UNCHANGED <<target, seen, success>>

ApplyPayout(r) ==
    /\ pc[r] = "checked"
    /\ ~Collects(r)
    /\ \/ CommitPayout(r)
       \/ /\ \/ ~Covered(r)
             \/ ~PayoutEntriesPositive(r)
             \/ LedgerReference(r) \in posted
          /\ Rollback(r)

\* The process or its connection dies inside the transaction.
Crash(r) ==
    /\ pc[r] \in Active
    /\ Rollback(r)

-----------------------------------------------------------------------------
Step(r) ==
    \/ BeginCollection(r)
    \/ BeginPayout(r)
    \/ LockWallet(r)
    \/ CheckCollection(r)
    \/ CheckPayout(r)
    \/ ApplyCollection(r)
    \/ ApplyPayout(r)

Next == \E r \in Request : Step(r) \/ Crash(r)

Spec == Init /\ [][Next]_vars

\* A request that can go on does: Postgres grants row locks in turn and the
\* server runs what it has started.
Fairness == \A r \in Request : WF_vars(Step(r))

FairSpec == Spec /\ Fairness

-----------------------------------------------------------------------------
(* Properties *)

\* A payout never takes the spendable balance below zero, whatever debits and
\* credits run beside it (debitUserWallet, the guards at "Avoid double spend").
NoOverdraft == \A w \in Row : balance[w] >= 0

\* The spendable balance of a business with one wallet row is what the ledger
\* owes it: wallets.balance and the CUSTOMER_CASH account are written by
\* different statements of different services and must not drift apart.
WalletMatchesLedger ==
    \A b \in Provisioned : balance[b] = cash[b]

\* A merchant reference is credited once: no two SUCCESS rows of a business
\* carry the same merchantReference, although two deliveries of one payment
\* may pass through createSettlement at the same time.
CreditedOnce ==
    \A t, u \in success :
        /\ t.biz = u.biz /\ t.biz \in Provisioned
        /\ t.mref = u.mref
        => t.by = u.by

\* A payout reference is debited once, on all wallets together: the payout
\* queue and the provider know a payout by this reference alone, so a second
\* debit under it, of another business too, would never be sent (the lookups
\* of walletDebitIdempotencyKey race; the ledger's unique reference decides).
DebitedOnce ==
    \A w, x \in Row :
        \A i \in 1..Len(statement[w]), j \in 1..Len(statement[x]) :
            LET s == statement[w][i]
                t == statement[x][j]
            IN  /\ s.type = "DEBIT" /\ t.type = "DEBIT"
                /\ Input[s.by].ref = Input[t.by].ref
                => w = x /\ i = j

\* The statement of a wallet has no gap: each row starts from the balance the
\* row before it left, and the last one ends at the wallet's balance.  before
\* and after are computed from a read, the balance from a relative UPDATE.
Signed(row) == IF row.type = "CREDIT" THEN row.amount ELSE -row.amount

StatementChain ==
    \A w \in Row :
        LET s == statement[w] IN
            /\ \A i \in 1..Len(s) :
                /\ s[i].after = s[i].before + Signed(s[i])
                /\ s[i].before = IF i = 1 THEN 0 ELSE s[i - 1].after
            /\ balance[w] = IF s = <<>> THEN 0 ELSE s[Len(s)].after

\* Debits equal credits over the whole ledger, after any mix of collections,
\* deferred collections and payouts (ledgerPosting's balance check together
\* with the sign each account type gives an entry).
LedgerBalanced ==
    house.provider + house.expense =
        SumFunction(cash) + SumFunction(payable) + house.revenue

\* The lock on the wallet row is what makes a credit idempotent (the comment
\* of getLockedCreditWallet: credits serialize on it "instead of racing
\* balance updates or idempotency checks"), for every business.
CreditedOnceEverywhere ==
    \A t, u \in success : t.biz = u.biz /\ t.mref = u.mref => t.by = u.by

\* A collection skipped as a duplicate repeats a collection of the business it
\* is for (the warning names the merchant reference and the business).
DuplicateOfOwnPayment ==
    \A r \in Request :
        pc[r] = "duplicate" =>
            \E t \in success :
                /\ t.biz = Input[r].biz
                /\ Input[r].mref \in {t.ref, t.mref, t.pref}

\* Every request ends: a lock is always given back, no request waits for ever
\* behind another.
EveryRequestEnds == \A r \in Request : <>(pc[r] \in Done)

-----------------------------------------------------------------------------
(* The inductive invariant *)

\* Row names are not reused: a provisioned business has exactly its own row,
\* and a row that no commit has made visible has never been written.
RowsKept ==
    /\ \A b \in Provisioned : owner[b] = b
    /\ \A w \in Row : owner[w] \in Provisioned => w = owner[w]
    /\ \A w \in Row : owner[w] = None => balance[w] = 0 /\ statement[w] = <<>>
    /\ \A r \in Request : pc[r] \notin Done => owner[r] = None

\* What a request read under the lock stays true until its commit: the balance
\* it computes before and after from is still the balance of the row, and the
\* row is its own, by the lock or because nobody else can see it yet.
LockedReadIsFresh ==
    \A r \in Request : pc[r] \in Active =>
        /\ target[r] \in Row
        /\ seen[r] = balance[target[r]]
        /\ \/ target[r] = r /\ Input[r].biz \notin Provisioned
           \/ /\ target[r] # r
              /\ holder[target[r]] = r
              /\ owner[target[r]] = Input[r].biz

\* The duplicate check, too, still holds when the credit it allowed is made.
CheckIsFresh ==
    \A r \in Request :
        /\ pc[r] = "checked"
        /\ Collects(r)
        /\ Input[r].biz \in Provisioned
        => \A t \in success :
              t.biz = Input[r].biz => t.mref # Input[r].mref

\* Every payout on a statement has its reference in the ledger.
DebitsPosted ==
    \A w \in Row : \A i \in 1..Len(statement[w]) :
        statement[w][i].type = "DEBIT" =>
            <<"ref", Input[statement[w][i].by].ref>> \in posted

WalletsInv == RowsKept /\ LockedReadIsFresh /\ CheckIsFresh /\ DebitsPosted

=============================================================================
