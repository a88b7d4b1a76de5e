---------------------------- MODULE Transactions ----------------------------
(***************************************************************************)
(* The transactions table as cards and POS terminals use it: rows are      *)
(* created, settled and looked up by three references.  All of them belong *)
(* to one business, whose wallet exists, so that a settlement waits for    *)
(* the lock on that wallet's row before it looks for a duplicate and is    *)
(* one step here (the statements of it are in Wallets).                    *)
(***************************************************************************)
EXTENDS Naturals, FiniteSets

CONSTANTS
    Order,      \* references merchants give
    Request,    \* requests; each is given a reference of its own (CLV-<uuid>)
    RefOf,      \* RefOf[r]: the order request r names
    Theirs,     \* a reference the provider chose
    NoReference \* SQL NULL

ASSUME TransactionsAssumption ==
    /\ RefOf \in [Request -> Order]
    /\ Order \cap Request = {}
    /\ Theirs \notin Order \cup Request
    /\ NoReference \notin Order \cup Request \cup {Theirs}

VARIABLES
    rows,       \* the rows
    credits     \* credits[o]: wallet credits made for order o

transactions == <<rows, credits>>

Status == {"INITIATED", "SUCCESS", "FAILED"}

\* sourceId is the request a card or POS row belongs to, created a rank.
Row == [reference : Order \cup Request,
        merchantReference : Order \cup {NoReference},
        providerReference : Request \cup {Theirs, NoReference},
        idempotencyKey : {"debit-card", "pos", "collection-settlement"}
                            \X (Order \cup Request),
        sourceId : Request,
        executionStatus : Status,
        created : Nat]

TransactionsTypeOK ==
    /\ rows \subseteq Row
    /\ credits \in [Order -> Nat]

TransactionsInit ==
    /\ rows = {}
    /\ credits = [o \in Order |-> 0]

Last == Cardinality(rows) + 1

-----------------------------------------------------------------------------
(* Look-ups *)

BySystemReference(ref) == {x \in rows : x.reference = ref}

\* findOne without an order: the caller gets any of them.
ByMerchantReference(o) == {x \in rows : x.merchantReference = o}

Named(o) ==
    {x \in rows :
        o \in {x.reference, x.merchantReference, x.providerReference}}

\* Fault: whatever became of the transaction, it is one.
AnyNamed(o) == Named(o)

\* getSuccessfulTransaction
Successful(o) == {x \in Named(o) : x.executionStatus = "SUCCESS"}

\* getTransactionStatus: the newest row.  (No property is about it: a card row
\* that is initiated later hides that the order was paid.)
Newest(o) ==
    {x \in Named(o) : \A y \in Named(o) : y.created <= x.created}

-----------------------------------------------------------------------------
(* Changes *)

\* createTransaction returns the row that has its idempotency key, if any;
\* another row with its reference is an error.
Kept(key) == {x \in rows : x.idempotencyKey = key}

CreateTransaction(new) ==
    \/ /\ Kept(new.idempotencyKey) # {}
       /\ UNCHANGED rows
    \/ /\ Kept(new.idempotencyKey) = {}
       /\ BySystemReference(new.reference) = {}
       /\ rows' = rows \cup {new}

\* updateTransactionBySourceId
UpdateBySource(r, ref) ==
    \E x \in {y \in rows : y.sourceId = r} :
        rows' = (rows \ {x}) \cup {[x EXCEPT !.providerReference = ref]}

\* Fault: a row that exists keeps its status.
SettleKeepingStatus(r, o, ref) ==
    LET old == BySystemReference(r) IN
    IF old # {}
    THEN rows' = (rows \ old) \cup
            {[x EXCEPT !.merchantReference = o,
                       !.providerReference = ref,
                       !.sourceId = r] : x \in old}
    ELSE CreateTransaction(
            [reference |-> r, merchantReference |-> o,
             providerReference |-> ref,
             idempotencyKey |-> <<"collection-settlement", r>>,
             sourceId |-> r, executionStatus |-> "SUCCESS", created |-> Last])

\* saveCreditTransaction: the row with our reference becomes SUCCESS, or one
\* is created.
SettleRow(r, o, ref) ==
    LET old == BySystemReference(r) IN
    IF old # {}
    THEN rows' = (rows \ old) \cup
            {[x EXCEPT !.executionStatus = "SUCCESS",
                       !.merchantReference = o,
                       !.providerReference = ref,
                       !.sourceId = r] : x \in old}
    ELSE CreateTransaction(
            [reference |-> r, merchantReference |-> o,
             providerReference |-> ref,
             idempotencyKey |-> <<"collection-settlement", r>>,
             sourceId |-> r, executionStatus |-> "SUCCESS", created |-> Last])

\* creditSpendableWalletBalance
CreditWallet(o) == credits' = [credits EXCEPT ![o] = @ + 1]

\* createSettlement, for the order o under our reference r.
CreateSettlement(r, o, ref) ==
    IF Successful(o) # {}
    THEN UNCHANGED transactions
    ELSE /\ SettleRow(r, o, ref)
         /\ CreditWallet(o)

=============================================================================
