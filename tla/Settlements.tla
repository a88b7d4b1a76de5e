---------------------------- MODULE Settlements ----------------------------
(***************************************************************************)
(* Settlement of the collections of one business, LIVE, from one payment   *)
(* source: a collection adds its share to a bucket of the settlement of    *)
(* the day, a cron that several servers run queues the buckets that are    *)
(* due, and a worker starts their jobs.  The collection is one database    *)
(* transaction that reads rows and writes what it has computed from them;  *)
(* the cron is a sequence of single statements, each of which may be the   *)
(* last.                                                                   *)
(*                                                                         *)
(* The worker pays nothing out, and neither does this model: the relation  *)
(* it looks the bank account up with is joined on a column nothing writes, *)
(* so it finds no account, and what comes after that is never reached.     *)
(***************************************************************************)
EXTENDS Naturals, FiniteSets, Functions

CONSTANTS
    Payment,    \* collections, of one share each that comes to something
    Amount,     \* Amount[c]: the share
    Account,    \* the business's bank accounts
    Cron,       \* runs of the queueing cron that may overlap, one per server
    Starts,     \* bound on the starts of a bucket's job
    LastDay,    \* bound on the days modelled; the last takes no collections
    None        \* SQL NULL

ASSUME SettlementsAssumption ==
    /\ IsFiniteSet(Payment)
    /\ Amount \in [Payment -> Nat \ {0}]
    /\ None \notin Payment \cup Account
    /\ Payment \cap Account = {}
    /\ Starts \in Nat /\ LastDay \in Nat

\* A wallet, a settlement and a bucket have the name of the collection that
\* inserted the row.
VARIABLES
    today,
    config, account,        \* what the business has configured
    stage,                  \* how far collection c has come
    walletOf, terms, date,  \* the wallet it holds, how and when it settles
    settlementOf, seen,     \* the settlement it joins, the totals it read
    bucketOf, found,        \* the bucket it joins, the totals it read
    wallets, settlement, bucket, status,    \* the rows that are committed
    due, marking,           \* cron v: what it has to do, what is in hand
    job, starts, outcome    \* BullMQ: job b, times started, what it returned

business   == <<config, account>>
collection == <<stage, walletOf, terms, date, settlementOf, seen, bucketOf, found>>
rows       == <<wallets, settlement, bucket>>
queueing   == <<due, marking>>
jobs       == <<job, starts, outcome>>
vars == <<today, business, collection, rows, status, queueing, jobs>>

SettlementType == {"INSTANT", "T_PLUS_1"}

\* What upsertConfig accepts.
Config == [type : SettlementType, location : {"WALLET", "BANK"}]
            \ {[type |-> "INSTANT", location |-> "BANK"]}

\* now: credited to the wallet at once, so that the bucket is born SETTLED.
Terms == [type : SettlementType, now : BOOLEAN,
          to : Payment \cup Account \cup {None}]

Totals == [expected : Nat, settled : Nat]

Nothing == [expected |-> 0, settled |-> 0]

BucketStatus == {"NONE", "UNSETTLED", "QUEUED", "SETTLED"}

Stage == {"none", "begun", "opened", "filled", "done"}

TypeOK ==
    /\ today \in 0..LastDay
    /\ config \in Config \cup {None}
    /\ account \in [Account -> {"none", "there", "removed", "restored"}]
    /\ stage \in [Payment -> Stage]
    /\ walletOf \in [Payment -> Payment \cup {None}]
    /\ terms \in [Payment -> Terms \cup {None}]
    /\ date \in [Payment -> 0..LastDay]
    /\ settlementOf \in [Payment -> Payment \cup {None}]
    /\ seen \in [Payment -> Totals]
    /\ bucketOf \in [Payment -> Payment \cup {None}]
    /\ found \in [Payment -> Totals]
    /\ wallets \subseteq Payment
    /\ settlement \in [Payment -> Totals]
    /\ bucket \in [Payment -> Totals]
    /\ status \in [Payment -> BucketStatus]
    /\ due \in [Cron -> SUBSET Payment]
    /\ marking \in [Cron -> Payment \cup {None}]
    /\ job \in [Payment -> {"none", "waiting", "active", "completed", "failed"}]
    /\ starts \in [Payment -> 0..Starts]
    /\ outcome \in [Payment -> {"none", "processed", "not found"}]

Init ==
    /\ today = 0
    /\ config = None
    /\ account = [a \in Account |-> "none"]
    /\ stage = [c \in Payment |-> "none"]
    /\ walletOf = [c \in Payment |-> None]
    /\ terms = [c \in Payment |-> None]
    /\ date = [c \in Payment |-> 0]
    /\ settlementOf = [c \in Payment |-> None]
    /\ seen = [c \in Payment |-> Nothing]
    /\ bucketOf = [c \in Payment |-> None]
    /\ found = [c \in Payment |-> Nothing]
    /\ wallets = {}
    /\ settlement = [s \in Payment |-> Nothing]
    /\ bucket = [b \in Payment |-> Nothing]
    /\ status = [b \in Payment |-> "NONE"]
    /\ due = [v \in Cron |-> {}]
    /\ marking = [v \in Cron |-> None]
    /\ job = [b \in Payment |-> "none"]
    /\ starts = [b \in Payment |-> 0]
    /\ outcome = [b \in Payment |-> "none"]

NextDay ==
    /\ today < LastDay
    /\ today' = today + 1
    /\ UNCHANGED <<business, collection, rows, status, queueing, jobs>>

-----------------------------------------------------------------------------
(* What the business configures *)

\* Fault: INSTANT settlement to the bank is accepted.
SetAnyConfig ==
    /\ config' \in [type : SettlementType, location : {"WALLET", "BANK"}]
    /\ UNCHANGED <<today, account, collection, rows, status, queueing, jobs>>

SetConfig ==
    /\ config' \in Config
    /\ UNCHANGED <<today, account, collection, rows, status, queueing, jobs>>

\* addSettlementBankAccount: an account that was removed is restored.
AddAccount(a) ==
    /\ account[a] \in {"none", "removed"}
    /\ account' = [account EXCEPT ![a] =
                        IF @ = "none" THEN "there" ELSE "restored"]
    /\ UNCHANGED <<today, config, collection, rows, status, queueing, jobs>>

RemoveAccount(a) ==
    /\ account[a] \in {"there", "restored"}
    /\ account' = [account EXCEPT ![a] = "removed"]
    /\ UNCHANGED <<today, config, collection, rows, status, queueing, jobs>>

-----------------------------------------------------------------------------
(* A collection: processCollectionSettlement *)

Underway == {"begun", "opened", "filled"}

\* d holds a row lock until it commits or rolls back.
HoldsWallet(d, w) == stage[d] \in Underway /\ walletOf[d] = w

HoldsSettlement(d, s) == stage[d] \in {"opened", "filled"} /\ settlementOf[d] = s

\* Fault: the bucket is read without its lock.
HoldsNoBucket(d, b) == FALSE

HoldsBucket(d, b) == stage[d] = "filled" /\ bucketOf[d] = b

\* shouldCreditWalletNow, getCreditSettlementOptions and
\* resolveSettlementDestination: own is the account the share names, apart says
\* that it or another share of the collection names a destination.  There is no
\* primary account: nothing makes one primary.
TermsFor(own, apart, w) ==
    LET now == ~ apart /\ (config = None \/ config.type = "INSTANT") IN
    [now |-> now,
     type |-> IF config # None THEN config.type
              ELSE IF now THEN "INSTANT" ELSE "T_PLUS_1",
     to |-> IF own # None THEN own
            ELSE IF ~ now /\ config # None /\ config.location = "BANK" THEN None
            ELSE w]

\* getLockedCreditWallet waits for the row, and inserts one if there is none.
Begin(c, w, own, apart) ==
    /\ stage[c] = "none"
    /\ today < LastDay
    /\ own # None => account[own] # "none" /\ apart
    /\ IF wallets = {} THEN w = c
       ELSE w \in wallets /\ \A d \in Payment : ~ HoldsWallet(d, w)
    /\ stage' = [stage EXCEPT ![c] = "begun"]
    /\ walletOf' = [walletOf EXCEPT ![c] = w]
    /\ terms' = [terms EXCEPT ![c] = TermsFor(own, apart, w)]
    /\ UNCHANGED <<today, business, date, settlementOf, seen, bucketOf, found,
                   rows, status, queueing, jobs>>

SettlementDate(c) == IF terms[c].type = "T_PLUS_1" THEN today + 1 ELSE today

\* The rows that are committed.
IsSettlement(s) == stage[s] = "done" /\ settlementOf[s] = s

IsBucket(b) == stage[b] = "done" /\ bucketOf[b] = b

\* The settlement's status never changes: it is settled if its terms are now.
SettlementsOfDay(c) ==
    {s \in Payment :
        /\ IsSettlement(s)
        /\ terms[s].type = terms[c].type
        /\ terms[s].now = terms[c].now
        /\ date[s] = SettlementDate(c)}

\* Fault: the settlement is read without its lock.
OpenUnlocked(c, s) ==
    /\ stage[c] = "begun"
    /\ today < LastDay
    /\ IF SettlementsOfDay(c) = {} THEN s = c ELSE s \in SettlementsOfDay(c)
    /\ stage' = [stage EXCEPT ![c] = "opened"]
    /\ date' = [date EXCEPT ![c] = SettlementDate(c)]
    /\ settlementOf' = [settlementOf EXCEPT ![c] = s]
    /\ seen' = [seen EXCEPT ![c] = IF s = c THEN Nothing ELSE settlement[s]]
    /\ UNCHANGED <<today, business, walletOf, terms, bucketOf, found, rows,
                   status, queueing, jobs>>

\* upsertDailySettlement: the settlement of the day, locked and read, or a new
\* one.
OpenSettlement(c, s) ==
    /\ stage[c] = "begun"
    /\ today < LastDay
    /\ IF SettlementsOfDay(c) = {} THEN s = c
       ELSE /\ s \in SettlementsOfDay(c)
            /\ \A d \in Payment : ~ HoldsSettlement(d, s)
    /\ stage' = [stage EXCEPT ![c] = "opened"]
    /\ date' = [date EXCEPT ![c] = SettlementDate(c)]
    /\ settlementOf' = [settlementOf EXCEPT ![c] = s]
    /\ seen' = [seen EXCEPT ![c] = IF s = c THEN Nothing ELSE settlement[s]]
    /\ UNCHANGED <<today, business, walletOf, terms, bucketOf, found, rows,
                   status, queueing, jobs>>

StatusFor(c) == IF terms[c].now THEN "SETTLED" ELSE "UNSETTLED"

Buckets(c) ==
    {b \in Payment :
        /\ IsBucket(b)
        /\ settlementOf[b] = settlementOf[c]
        /\ terms[b].to = terms[c].to
        /\ status[b] = StatusFor(c)}

\* upsertSettlementBucket: a bucket that has not been queued, locked and read,
\* or a new one.
FillBucket(c, b) ==
    /\ stage[c] = "opened"
    /\ IF Buckets(c) = {} THEN b = c
       ELSE /\ b \in Buckets(c)
            /\ \A d \in Payment : ~ HoldsBucket(d, b)
    /\ stage' = [stage EXCEPT ![c] = "filled"]
    /\ bucketOf' = [bucketOf EXCEPT ![c] = b]
    /\ found' = [found EXCEPT ![c] = IF b = c THEN Nothing ELSE bucket[b]]
    /\ UNCHANGED <<today, business, walletOf, terms, date, settlementOf, seen,
                   rows, status, queueing, jobs>>

\* What the collection computes from totals it read, and writes.
Grown(totals, c) ==
    [expected |-> totals.expected + Amount[c],
     settled |-> totals.settled + IF terms[c].now THEN Amount[c] ELSE 0]

Commit(c) ==
    /\ stage[c] = "filled"
    /\ stage' = [stage EXCEPT ![c] = "done"]
    /\ wallets' = wallets \cup {walletOf[c]}
    /\ settlement' = [settlement EXCEPT ![settlementOf[c]] = Grown(seen[c], c)]
    /\ bucket' = [bucket EXCEPT ![bucketOf[c]] = Grown(found[c], c)]
    /\ status' = [status EXCEPT ![bucketOf[c]] = StatusFor(c)]
    /\ UNCHANGED <<today, business, walletOf, terms, date, settlementOf, seen,
                   bucketOf, found, queueing, jobs>>

\* A statement of the collection fails, or its server dies.
Rollback(c) ==
    /\ stage[c] \in Underway
    /\ stage' = [stage EXCEPT ![c] = "none"]
    /\ walletOf' = [walletOf EXCEPT ![c] = None]
    /\ terms' = [terms EXCEPT ![c] = None]
    /\ date' = [date EXCEPT ![c] = 0]
    /\ settlementOf' = [settlementOf EXCEPT ![c] = None]
    /\ seen' = [seen EXCEPT ![c] = Nothing]
    /\ bucketOf' = [bucketOf EXCEPT ![c] = None]
    /\ found' = [found EXCEPT ![c] = Nothing]
    /\ UNCHANGED <<today, business, rows, status, queueing, jobs>>

-----------------------------------------------------------------------------
(* settledPendingTransactions, the queueing cron *)

\* Fault: only the settlements of this very day.
DueToday ==
    {b \in Payment :
        /\ IsBucket(b) /\ status[b] = "UNSETTLED"
        /\ ~ terms[settlementOf[b]].now
        /\ date[settlementOf[b]] = today}

Due ==
    {b \in Payment :
        /\ IsBucket(b) /\ status[b] = "UNSETTLED"
        /\ ~ terms[settlementOf[b]].now
        /\ date[settlementOf[b]] <= today}

BeginQueueing(v) ==
    /\ due[v] = {} /\ marking[v] = None
    /\ Due # {}
    /\ due' = [due EXCEPT ![v] = Due]
    /\ UNCHANGED <<today, business, collection, rows, status, marking, jobs>>

\* The job's id is the bucket's: a job that is there already is kept, until it
\* has ended and been removed (removeOnComplete, removeOnFail).
AddJob(v, b) ==
    /\ marking[v] = None
    /\ b \in due[v]
    /\ due' = [due EXCEPT ![v] = @ \ {b}]
    /\ marking' = [marking EXCEPT ![v] = b]
    /\ \/ /\ job[b] \notin {"waiting", "active"}
          /\ job' = [job EXCEPT ![b] = "waiting"]
       \/ /\ job[b] # "none"
          /\ UNCHANGED job
    /\ UNCHANGED <<today, business, collection, rows, status, starts, outcome>>

\* The status is written after the job was added, whatever it is by now, once
\* no collection holds the row.
MarkQueued(v, b) ==
    /\ marking[v] = b
    /\ \A d \in Payment : ~ HoldsBucket(d, b)
    /\ status' = [status EXCEPT ![b] = "QUEUED"]
    /\ marking' = [marking EXCEPT ![v] = None]
    /\ UNCHANGED <<today, business, collection, rows, due, jobs>>

\* A statement fails, or the server dies: the rest of the run is given up.
StopQueueing(v) ==
    /\ due[v] # {} \/ marking[v] # None
    /\ due' = [due EXCEPT ![v] = {}]
    /\ marking' = [marking EXCEPT ![v] = None]
    /\ UNCHANGED <<today, business, collection, rows, status, jobs>>

-----------------------------------------------------------------------------
(* SettlementProcessor.process *)

StartJob(b) ==
    /\ job[b] = "waiting"
    /\ starts[b] < Starts
    /\ job' = [job EXCEPT ![b] = "active"]
    /\ starts' = [starts EXCEPT ![b] = @ + 1]
    /\ UNCHANGED <<today, business, collection, rows, status, queueing, outcome>>

\* settlementBankAccount is NULL for every bucket: one that names an account is
\* reported as not found, and there is nothing to do for any other.
ProcessJob(b) ==
    /\ job[b] = "active"
    /\ job' = [job EXCEPT ![b] = "completed"]
    /\ outcome' = [outcome EXCEPT ![b] =
                    IF terms[b].to \in Account THEN "not found" ELSE "processed"]
    /\ UNCHANGED <<today, business, collection, rows, status, queueing, starts>>

\* The look-up fails, or the job stalls and the queue takes it back.
RetryJob(b) ==
    /\ job[b] = "active"
    /\ job' = [job EXCEPT ![b] = IF starts[b] < Starts THEN "waiting" ELSE "failed"]
    /\ UNCHANGED <<today, business, collection, rows, status, queueing, starts,
                   outcome>>

-----------------------------------------------------------------------------
Configure ==
    \/ SetConfig
    \/ \E a \in Account : AddAccount(a) \/ RemoveAccount(a)

Collect(c) ==
    \/ \E w \in Payment, own \in Account \cup {None}, apart \in BOOLEAN :
            Begin(c, w, own, apart)
    \/ \E s \in Payment : OpenSettlement(c, s)
    \/ \E b \in Payment : FillBucket(c, b)
    \/ Commit(c)
    \/ Rollback(c)

Queue(v) ==
    \/ BeginQueueing(v)
    \/ \E b \in Payment : AddJob(v, b) \/ MarkQueued(v, b)
    \/ StopQueueing(v)

Work(b) == StartJob(b) \/ ProcessJob(b) \/ RetryJob(b)

Next ==
    \/ NextDay
    \/ Configure
    \/ \E c \in Payment : Collect(c)
    \/ \E v \in Cron : Queue(v)
    \/ \E b \in Payment : Work(b)

Spec == Init /\ [][Next]_vars

\* Days pass, the cron fires for ever, on some server, and is not cut short at
\* the same bucket every time; a job that waits is started, and a collection
\* goes on, or is rolled back.
Fairness ==
    /\ WF_vars(NextDay)
    /\ \A c \in Payment :
        WF_vars((\E b \in Payment : OpenSettlement(c, b) \/ FillBucket(c, b)) \/ Commit(c))
    /\ WF_vars(\E v \in Cron : BeginQueueing(v))
    /\ \A b \in Payment :
        /\ SF_vars(\E v \in Cron : AddJob(v, b))
        /\ SF_vars(\E v \in Cron : MarkQueued(v, b))
        /\ WF_vars(StartJob(b))

FairSpec == Spec /\ Fairness

-----------------------------------------------------------------------------
(* Properties *)

Committed == {c \in Payment : stage[c] = "done"}

\* What the shares in S come to, and those of them credited at once.
Brought(S) == SumFunctionOnSet(Amount, S)

BroughtNow(S) == Brought({c \in S : terms[c].now})

Within(b) == {c \in Committed : bucketOf[c] = b}

Children(s) == {b \in Payment : IsBucket(b) /\ settlementOf[b] = s}

\* No collection is lost from the books: though every collection writes back
\* totals it read some statements before, a bucket says what the shares in it
\* come to and a settlement what its buckets come to, expected and settled -
\* also when a business has no wallet row yet, whose lock would keep its first
\* collections apart.
BooksAgree ==
    /\ \A b \in Payment :
        /\ bucket[b].expected = Brought(Within(b))
        /\ bucket[b].settled = BroughtNow(Within(b))
    /\ \A s \in Payment :
        /\ settlement[s].expected =
             SumFunctionOnSet([b \in Payment |-> bucket[b].expected], Children(s))
        /\ settlement[s].settled =
             SumFunctionOnSet([b \in Payment |-> bucket[b].settled], Children(s))

\* Once a bucket is marked as queued nothing joins it and it stays queued: a
\* collection that found it open before midnight has committed by then, and one
\* that comes later opens another (it would be left out of what is handed over).
QueuedIsFinal ==
    [][\A b \in Payment :
        status[b] = "QUEUED" => status'[b] = "QUEUED" /\ bucket'[b] = bucket[b]]_vars

\* A share that is settled later is handed over in the end: its bucket becomes
\* due, is queued and its job is started, however many days went by, runs of
\* the cron overlapped or were cut short, and collections held the row.
DeferredIsTried ==
    \A c \in Payment :
        stage[c] = "done" /\ ~ terms[c].now ~>
            \E b \in Payment :
                bucketOf[c] = b /\ status[b] = "QUEUED" /\ starts[b] > 0

=============================================================================
