--------------------------- MODULE WalletsProofs ---------------------------
(***************************************************************************)
(* Proofs about Wallets for any set of businesses, requests and amounts.   *)
(***************************************************************************)
EXTENDS Wallets, Sums, TLAPS

\* What the arguments of a request are, and the numbers computed from them.
LEMMA InputTyped ==
    ASSUME NEW r \in Request
    PROVE  /\ Input[r] \in Arguments
           /\ Input[r].biz \in Business
           /\ Input[r].instant \in BOOLEAN
           /\ Input[r].ref \in STRING
           /\ Input[r].mref \in STRING
           /\ Input[r].pref \in STRING
           /\ Input[r].gross \in Int
           /\ Input[r].providerFee \in Int
           /\ Input[r].merchantFee \in Int
           /\ Settled(r) \in Int
           /\ Net(r) \in Int
           /\ TotalDebit(r) \in Int
           /\ Revenue(r) \in Int
<1>1. Input[r] \in Arguments
  BY ConstantsAssumption
<1>2. QED
  BY <1>1 DEF Arguments, Settled, Net, TotalDebit, Revenue

-----------------------------------------------------------------------------
(* Type correctness *)

LEMMA InitType == Init => TypeOK
<1> SUFFICES ASSUME Init
             PROVE  TypeOK
  OBVIOUS
<1>1. owner \in [Row -> Business \cup {None}]
  BY ConstantsAssumption DEF Init, InitRows
<1>2. <<>> \in Seq(WalletTransaction)
  OBVIOUS
<1>3. statement \in [Row -> Seq(WalletTransaction)]
  BY <1>2 DEF Init, InitRows
<1>4. house \in HouseAccounts
  BY DEF Init, InitRows, HouseAccounts
<1>5. /\ success \subseteq SuccessRow
      /\ posted \subseteq ({"ref", "settlement-collection"} \X STRING)
  BY DEF Init, InitRows
<1>6. QED
  BY <1>1, <1>3, <1>4, <1>5 DEF Init, InitRows, TypeOK

LEMMA RollbackType ==
    ASSUME TypeOK, NEW r \in Request, Rollback(r)
    PROVE  TypeOK'
BY DEF TypeOK, Rollback, Goto, Release, Done, books

\* What the ledger accounts and references are.
BooksOK ==
    /\ posted \subseteq ({"ref", "settlement-collection"} \X STRING)
    /\ cash \in [Business -> Int]
    /\ payable \in [Business -> Int]
    /\ house \in HouseAccounts

LEMMA LedgerType ==
    ASSUME BooksOK, NEW r \in Request,
           \/ PostCollection(r)
           \/ PostDeferred(r)
           \/ PostPayout(r)
    PROVE  BooksOK'
<1>1. LedgerReference(r) \in {"ref", "settlement-collection"} \X STRING
  BY InputTyped DEF LedgerReference
<1>2. ASSUME PostHouse(r)
      PROVE  /\ posted' \subseteq ({"ref", "settlement-collection"} \X STRING)
             /\ house' \in HouseAccounts
  BY <1>1, <1>2, InputTyped DEF PostHouse, BooksOK, HouseAccounts
<1>3. CASE PostCollection(r)
  BY <1>2, <1>3, InputTyped DEF PostCollection, BooksOK
<1>4. CASE PostDeferred(r)
  BY <1>2, <1>4, InputTyped DEF PostDeferred, BooksOK
<1>5. CASE PostPayout(r)
  BY <1>1, <1>5, InputTyped DEF PostPayout, BooksOK, HouseAccounts
<1>6. QED
  BY <1>3, <1>4, <1>5

LEMMA StatementType ==
    ASSUME TypeOK, NEW r \in Request,
           NEW type \in {"CREDIT", "DEBIT"}, NEW amount \in Int,
           NEW after \in Int,
           WriteStatement(r, type, amount, after)
    PROVE  statement' \in [Row -> Seq(WalletTransaction)]
<1> DEFINE row == [by |-> r, type |-> type, amount |-> amount,
                   before |-> seen[r], after |-> after]
<1>1. row \in WalletTransaction
  BY DEF TypeOK, WalletTransaction
<1>2. \A s \in Seq(WalletTransaction) :
        Append(s, row) \in Seq(WalletTransaction)
  BY <1>1
<1>3. QED
  BY <1>2 DEF TypeOK, WriteStatement

\* A relative UPDATE of one wallet row keeps every balance a number.
LEMMA BalanceType ==
    ASSUME TypeOK, NEW r \in Request, NEW n \in Int,
           \/ balance' = [balance EXCEPT ![target[r]] = @ + n]
           \/ balance' = [balance EXCEPT ![target[r]] = @ - n]
    PROVE  balance' \in [Row -> Int]
<1>1. balance \in [Row -> Int]
  BY DEF TypeOK
<1>2. \A w \in Row : balance[w] + n \in Int /\ balance[w] - n \in Int
  BY <1>1
<1>3. \A w \in Row : balance'[w] \in {balance[w], balance[w] + n, balance[w] - n}
  BY <1>1
<1>4. \A w \in Row : balance'[w] \in Int
  BY <1>1, <1>2, <1>3
<1>5. QED
  BY <1>1, <1>4

LEMMA CommitCollectionType ==
    ASSUME TypeOK, NEW r \in Request, CommitCollection(r)
    PROVE  TypeOK'
<1>1. /\ pc' \in [Request -> {"new", "ready"} \cup Active \cup Done]
      /\ owner' \in [Row -> Business \cup {None}]
      /\ holder' \in [Row -> Request \cup {None}]
  BY InputTyped DEF TypeOK, CommitCollection, Goto, CommitRow, Release, Done
<1>2. success' \subseteq SuccessRow
  BY InputTyped DEF TypeOK, CommitCollection, SaveTransaction, SuccessRow
<1>3. BooksOK'
  BY LedgerType DEF CommitCollection, TypeOK, BooksOK
<1>4. /\ balance' \in [Row -> Int]
      /\ statement' \in [Row -> Seq(WalletTransaction)]
  <2>1. CASE Input[r].instant
    <3>1. CreditWallet(r)
      BY <2>1 DEF CommitCollection
    <3>2. Net(r) \in Int /\ seen[r] + Net(r) \in Int
      BY InputTyped DEF TypeOK
    <3>3. statement' \in [Row -> Seq(WalletTransaction)]
      BY <3>1, <3>2, StatementType DEF CreditWallet
    <3>4. balance' \in [Row -> Int]
      BY <3>1, <3>2, BalanceType DEF CreditWallet
    <3>5. QED
      BY <3>3, <3>4
  <2>2. CASE ~Input[r].instant
    BY <2>2 DEF CommitCollection, TypeOK
  <2>3. QED
    BY <2>1, <2>2
<1>5. QED
  BY <1>1, <1>2, <1>3, <1>4 DEF TypeOK, CommitCollection, BooksOK

LEMMA CommitPayoutType ==
    ASSUME TypeOK, NEW r \in Request, CommitPayout(r)
    PROVE  TypeOK'
<1>1. /\ pc' \in [Request -> {"new", "ready"} \cup Active \cup Done]
      /\ owner' \in [Row -> Business \cup {None}]
      /\ holder' \in [Row -> Request \cup {None}]
  BY InputTyped DEF TypeOK, CommitPayout, Goto, CommitRow, Release, Done
<1>2. BooksOK'
  BY LedgerType DEF CommitPayout, TypeOK, BooksOK
<1>3. TotalDebit(r) \in Int /\ seen[r] - TotalDebit(r) \in Int
  BY InputTyped DEF TypeOK
<1>4. balance' \in [Row -> Int]
  BY <1>3, BalanceType DEF CommitPayout
<1>5. statement' \in [Row -> Seq(WalletTransaction)]
  BY <1>3, StatementType DEF CommitPayout
<1>6. QED
  BY <1>1, <1>2, <1>4, <1>5 DEF TypeOK, CommitPayout, BooksOK

LEMMA NextType == TypeOK /\ [Next]_vars => TypeOK'
<1> SUFFICES ASSUME TypeOK, [Next]_vars
             PROVE  TypeOK'
  OBVIOUS
<1>1. ASSUME NEW r \in Request, BeginCollection(r) \/ BeginPayout(r)
      PROVE  TypeOK'
  BY <1>1 DEF TypeOK, BeginCollection, BeginPayout, Goto, Done, books
<1>2. ASSUME NEW r \in Request, LockWallet(r)
      PROVE  TypeOK'
  <2>1. \A w \in Row : LockExistingRow(r, w) => TypeOK'
    BY <1>2 DEF TypeOK, LockWallet, LockExistingRow, Goto, Active, books
  <2>2. InsertRow(r) => TypeOK'
    BY <1>2 DEF TypeOK, LockWallet, InsertRow, Goto, Active, Row, books
  <2>3. QED
    BY <1>2, <2>1, <2>2 DEF LockWallet
<1>3. ASSUME NEW r \in Request, CheckCollection(r)
      PROVE  TypeOK'
  BY <1>3, InputTyped DEF TypeOK, CheckCollection, Goto, CommitRow, Release,
         Active, Done, books
<1>4. ASSUME NEW r \in Request, CheckPayout(r)
      PROVE  TypeOK'
  <2>1. CASE Rollback(r)
    BY <2>1, RollbackType
  <2>2. CASE ~Rollback(r)
    BY <1>4, <2>2 DEF TypeOK, CheckPayout, Goto, Active, books
  <2>3. QED
    BY <2>1, <2>2
<1>5. ASSUME NEW r \in Request, ApplyCollection(r)
      PROVE  TypeOK'
  BY <1>5, CommitCollectionType, RollbackType DEF ApplyCollection
<1>6. ASSUME NEW r \in Request, ApplyPayout(r)
      PROVE  TypeOK'
  BY <1>6, CommitPayoutType, RollbackType DEF ApplyPayout
<1>7. ASSUME NEW r \in Request, Crash(r)
      PROVE  TypeOK'
  BY <1>7, RollbackType DEF Crash
<1>8. CASE UNCHANGED vars
  BY <1>8 DEF vars, TypeOK, books
<1>9. QED
  BY <1>1, <1>2, <1>3, <1>4, <1>5, <1>6, <1>7, <1>8 DEF Next, Step

\* Every variable keeps its type (the columns of wallets, wallet_transactions,
\* transactions and ledger_accounts) in every run of the wallet core.
THEOREM TypeCorrect == Spec => []TypeOK
BY InitType, NextType, PTL DEF Spec

-----------------------------------------------------------------------------
(* The locked row: no two requests work on one row at the same time *)

LockInv == TypeOK /\ RowsKept /\ LockedReadIsFresh

LEMMA InitLocked == Init => RowsKept /\ LockedReadIsFresh
BY ConstantsAssumption DEF Init, InitRows, RowsKept, LockedReadIsFresh, Row, Active

LEMMA OneRequestPerRow ==
    ASSUME LockInv, NEW r \in Request, NEW q \in Request, r # q,
           pc[r] \in Active, pc[q] \in Active
    PROVE  target[r] # target[q]
<1>1. Input[r].biz # None /\ Input[q].biz # None
  BY InputTyped, ConstantsAssumption
<1>2. owner[r] = None /\ owner[q] = None
  BY DEF LockInv, RowsKept, Active, Done
<1>3. QED
  BY <1>1, <1>2 DEF LockInv, LockedReadIsFresh

\* A provisioned business is served from its own row, the others never are.
LEMMA RowOfBusiness ==
    ASSUME LockInv, NEW r \in Request, pc[r] \in Active
    PROVE  /\ target[r] \in Row
           /\ Input[r].biz \in Provisioned => target[r] = Input[r].biz
           /\ Input[r].biz \notin Provisioned => target[r] \notin Provisioned
<1>1. r \notin Provisioned
  BY ConstantsAssumption
<1>2. QED
  BY <1>1 DEF LockInv, RowsKept, LockedReadIsFresh

LEMMA RollbackLocked ==
    ASSUME LockInv, NEW r \in Request, Rollback(r)
    PROVE  RowsKept' /\ LockedReadIsFresh'
<1>1. pc' = [pc EXCEPT ![r] = "failed"]
  BY DEF Rollback, Goto
<1>2. \A q \in Request : pc'[q] \in Active => q # r /\ pc[q] \in Active
  BY <1>1 DEF LockInv, TypeOK, Active
<1>3. \A q \in Request : pc'[q] \notin Done => pc[q] \notin Done
  BY <1>1 DEF LockInv, TypeOK, Done
<1>4. RowsKept'
  BY <1>3 DEF LockInv, RowsKept, Rollback
<1>5. \A q \in Request, w \in Row :
        q # r /\ holder[w] = q => holder'[w] = q
  BY DEF Rollback, Release, LockInv, TypeOK
<1>6. QED
  BY <1>2, <1>4, <1>5 DEF LockInv, LockedReadIsFresh, Rollback

\* What every commit does: it ends r, makes its row visible, gives the lock
\* back and has written no row but its own.
Commits(r) ==
    /\ pc[r] \in Active
    /\ \E label \in Done : pc' = [pc EXCEPT ![r] = label]
    /\ CommitRow(r)
    /\ Release(r)
    /\ UNCHANGED <<target, seen>>
    /\ \A w \in Row : w # target[r] =>
          balance'[w] = balance[w] /\ statement'[w] = statement[w]

LEMMA CommitLocked ==
    ASSUME LockInv, NEW r \in Request, Commits(r)
    PROVE  RowsKept' /\ LockedReadIsFresh'
<1>1. PICK label \in Done : pc' = [pc EXCEPT ![r] = label]
  BY DEF Commits
<1>2. \A q \in Request : pc'[q] \in Active => q # r /\ pc[q] \in Active
  BY <1>1 DEF LockInv, TypeOK, Active, Done
<1>3. \A q \in Request : pc'[q] \notin Done => q # r /\ pc[q] \notin Done
  BY <1>1 DEF LockInv, TypeOK, Done
<1>4. /\ target[r] \in Row
      /\ Input[r].biz \in Provisioned => target[r] = Input[r].biz
      /\ Input[r].biz \notin Provisioned => target[r] \notin Provisioned
  BY RowOfBusiness DEF Commits
<1>5. Input[r].biz # None
  BY InputTyped, ConstantsAssumption
<1>6. \A w \in Row :
        owner'[w] = IF w = target[r] THEN Input[r].biz ELSE owner[w]
  BY <1>4 DEF Commits, CommitRow, LockInv, TypeOK
<1>7. \A q \in Request : q # r /\ pc[q] \notin Done => q # target[r]
  <2>1. CASE target[r] = r
    BY <2>1
  <2>2. CASE target[r] # r
    <3>1. owner[target[r]] # None
      BY <1>5, <2>2 DEF Commits, LockInv, LockedReadIsFresh
    <3>2. QED
      BY <3>1 DEF LockInv, RowsKept
  <2>3. QED
    BY <2>1, <2>2
<1>8. RowsKept'
  <2>1. \A b \in Provisioned : b \in Row
    BY DEF Row
  <2>2. \A b \in Provisioned : owner'[b] = b
    BY <1>4, <1>6, <2>1 DEF LockInv, RowsKept
  <2>3. \A w \in Row : owner'[w] \in Provisioned => w = owner'[w]
    BY <1>4, <1>6 DEF LockInv, RowsKept
  <2>4. \A w \in Row : owner'[w] = None =>
          balance'[w] = 0 /\ statement'[w] = <<>>
    BY <1>5, <1>6 DEF Commits, LockInv, RowsKept
  <2>5. \A q \in Request : pc'[q] \notin Done => owner'[q] = None
    BY <1>3, <1>6, <1>7 DEF LockInv, RowsKept, Row
  <2>6. QED
    BY <2>2, <2>3, <2>4, <2>5 DEF RowsKept
<1>9. \A q \in Request, w \in Row :
        q # r /\ holder[w] = q => holder'[w] = q
  BY DEF Commits, Release, LockInv, TypeOK
<1>10. ASSUME NEW q \in Request, pc'[q] \in Active
       PROVE  /\ target'[q] \in Row
              /\ seen'[q] = balance'[target'[q]]
              /\ \/ target'[q] = q /\ Input[q].biz \notin Provisioned
                 \/ /\ target'[q] # q
                    /\ holder'[target'[q]] = q
                    /\ owner'[target'[q]] = Input[q].biz
  <2>1. q # r /\ pc[q] \in Active
    BY <1>2, <1>10
  <2>2. target[q] # target[r] /\ target[q] \in Row
    BY <2>1, OneRequestPerRow DEF Commits, LockInv, LockedReadIsFresh
  <2>3. /\ balance'[target[q]] = balance[target[q]]
        /\ owner'[target[q]] = owner[target[q]]
    BY <1>6, <2>2 DEF Commits
  <2>4. target'[q] = target[q] /\ seen'[q] = seen[q]
    BY DEF Commits
  <2>5. QED
    BY <1>9, <2>1, <2>2, <2>3, <2>4 DEF LockInv, LockedReadIsFresh
<1>11. LockedReadIsFresh'
  BY <1>10 DEF LockedReadIsFresh
<1>12. QED
  BY <1>8, <1>11

\* The commits of the model are commits in that sense.
LEMMA CommitCollectionCommits ==
    ASSUME LockInv, NEW r \in Request, CommitCollection(r), pc[r] = "checked"
    PROVE  Commits(r)
<1>1. \A w \in Row : w # target[r] =>
        balance'[w] = balance[w] /\ statement'[w] = statement[w]
  BY DEF CommitCollection, CreditWallet, WriteStatement, LockInv, TypeOK
<1>2. QED
  BY <1>1 DEF CommitCollection, Commits, Goto, Active, Done

LEMMA CommitPayoutCommits ==
    ASSUME LockInv, NEW r \in Request, CommitPayout(r), pc[r] = "checked"
    PROVE  Commits(r)
<1>1. \A w \in Row : w # target[r] =>
        balance'[w] = balance[w] /\ statement'[w] = statement[w]
  BY DEF CommitPayout, WriteStatement, LockInv, TypeOK
<1>2. QED
  BY <1>1 DEF CommitPayout, Commits, Goto, Active, Done

LEMMA DuplicateCommits ==
    ASSUME LockInv, NEW r \in Request, CheckCollection(r), Processed(r)
    PROVE  Commits(r)
BY DEF CheckCollection, Commits, Goto, Active, Done

\* A request that goes on to a state where it holds nothing new.
LEMMA MoveLocked ==
    ASSUME LockInv, NEW r \in Request, NEW label,
           pc' = [pc EXCEPT ![r] = label],
           label \in Active => pc[r] \in Active,
           label \notin Done => pc[r] \notin Done,
           UNCHANGED <<target, seen, owner, balance, holder, statement>>
    PROVE  RowsKept' /\ LockedReadIsFresh'
<1>1. \A q \in Request : /\ pc'[q] \in Active => pc[q] \in Active
                         /\ pc'[q] \notin Done => pc[q] \notin Done
  BY DEF LockInv, TypeOK
<1>2. QED
  BY <1>1 DEF LockInv, RowsKept, LockedReadIsFresh

LEMMA LockWalletLocked ==
    ASSUME LockInv, NEW r \in Request, LockWallet(r)
    PROVE  RowsKept' /\ LockedReadIsFresh'
<1>1. pc[r] = "ready" /\ pc' = [pc EXCEPT ![r] = "locked"]
  BY DEF LockWallet, Goto
<1>2. \A q \in Request : q # r => pc'[q] = pc[q]
  BY <1>1 DEF LockInv, TypeOK
<1>3. RowsKept'
  BY <1>1, <1>2 DEF LockInv, RowsKept, LockWallet, Done
<1>4. owner[r] = None /\ Input[r].biz # None
  BY <1>1, InputTyped, ConstantsAssumption DEF LockInv, RowsKept, Done
<1>5. CASE InsertRow(r)
  <2>1. r \in Row /\ balance[r] = 0
    BY <1>4 DEF LockInv, RowsKept, Row
  <2>2. Input[r].biz \notin Provisioned
    BY <1>5 DEF InsertRow, VisibleRows, LockInv, RowsKept, Row
  <2>3. /\ target'[r] = r /\ seen'[r] = 0
        /\ \A q \in Request : q # r => target'[q] = target[q] /\ seen'[q] = seen[q]
    BY <1>5 DEF InsertRow, LockInv, TypeOK
  <2>4. UNCHANGED <<holder, owner, balance>>
    BY <1>5 DEF InsertRow, LockWallet
  <2>5. QED
    BY <1>2, <1>3, <2>1, <2>2, <2>3, <2>4 DEF LockInv, LockedReadIsFresh
<1>6. ASSUME NEW w \in Row, LockExistingRow(r, w)
      PROVE  LockedReadIsFresh'
  <2>1. w # r /\ owner[w] = Input[r].biz /\ holder[w] = None
    BY <1>4, <1>6 DEF LockExistingRow, VisibleRows
  <2>2. /\ target'[r] = w /\ seen'[r] = balance[w] /\ holder'[w] = r
        /\ \A q \in Request : q # r => target'[q] = target[q] /\ seen'[q] = seen[q]
        /\ \A x \in Row : x # w => holder'[x] = holder[x]
    BY <1>6 DEF LockExistingRow, LockInv, TypeOK
  <2>3. UNCHANGED <<owner, balance>>
    BY DEF LockWallet
  <2>4. \A q \in Request : q # None
    BY ConstantsAssumption
  <2>5. QED
    BY <1>2, <2>1, <2>2, <2>3, <2>4 DEF LockInv, LockedReadIsFresh
<1>7. QED
  BY <1>3, <1>5, <1>6 DEF LockWallet

LEMMA NextLocked == LockInv /\ [Next]_vars => LockInv'
<1> SUFFICES ASSUME LockInv, [Next]_vars
             PROVE  RowsKept' /\ LockedReadIsFresh'
  BY NextType DEF LockInv
<1>1. ASSUME NEW r \in Request, BeginCollection(r) \/ BeginPayout(r)
      PROVE  RowsKept' /\ LockedReadIsFresh'
  <2>1. PICK label \in {"ready", "failed"} : pc' = [pc EXCEPT ![r] = label]
    BY <1>1 DEF BeginCollection, BeginPayout, Goto
  <2>2. QED
    BY <1>1, <2>1, MoveLocked DEF BeginCollection, BeginPayout, Active, Done
<1>2. ASSUME NEW r \in Request, LockWallet(r)
      PROVE  RowsKept' /\ LockedReadIsFresh'
  BY <1>2, LockWalletLocked
<1>3. ASSUME NEW r \in Request, CheckCollection(r)
      PROVE  RowsKept' /\ LockedReadIsFresh'
  <2>1. CASE Processed(r)
    BY <1>3, <2>1, DuplicateCommits, CommitLocked
  <2>2. CASE ~Processed(r)
    BY <1>3, <2>2, MoveLocked DEF CheckCollection, Goto, Active, Done
  <2>3. QED
    BY <2>1, <2>2
<1>4. ASSUME NEW r \in Request, CheckPayout(r)
      PROVE  RowsKept' /\ LockedReadIsFresh'
  <2>1. CASE PayoutRecorded(r)
    BY <1>4, <2>1, RollbackLocked DEF CheckPayout
  <2>2. CASE ~PayoutRecorded(r)
    BY <1>4, <2>2, MoveLocked DEF CheckPayout, Goto, Active, Done
  <2>3. QED
    BY <2>1, <2>2
<1>5. ASSUME NEW r \in Request, ApplyCollection(r)
      PROVE  RowsKept' /\ LockedReadIsFresh'
  BY <1>5, CommitCollectionCommits, CommitLocked, RollbackLocked
     DEF ApplyCollection
<1>6. ASSUME NEW r \in Request, ApplyPayout(r)
      PROVE  RowsKept' /\ LockedReadIsFresh'
  BY <1>6, CommitPayoutCommits, CommitLocked, RollbackLocked DEF ApplyPayout
<1>7. ASSUME NEW r \in Request, Crash(r)
      PROVE  RowsKept' /\ LockedReadIsFresh'
  BY <1>7, RollbackLocked DEF Crash
<1>8. CASE UNCHANGED vars
  BY <1>8 DEF vars, LockInv, RowsKept, LockedReadIsFresh
<1>9. QED
  BY <1>1, <1>2, <1>3, <1>4, <1>5, <1>6, <1>7, <1>8 DEF Next, Step

\* What a request read under the row lock is still true when it writes.
THEOREM LockedReads == Spec => []LockedReadIsFresh
<1>1. Init => LockInv
  BY InitType, InitLocked DEF LockInv
<1>2. LockInv => LockedReadIsFresh
  BY DEF LockInv
<1>3. QED
  BY <1>1, <1>2, NextLocked, PTL DEF Spec

-----------------------------------------------------------------------------
(* Money: what each step does to the balances, the ledger and the records *)

\* A step that is not a commit of money leaves all of these alone.
Money == <<balance, statement, success, books>>

LEMMA StepCases ==
    ASSUME [Next]_vars
    PROVE  \/ UNCHANGED Money
           \/ \E r \in Request : pc[r] = "checked" /\ Collects(r) /\ CommitCollection(r)
           \/ \E r \in Request : pc[r] = "checked" /\ ~Collects(r) /\ CommitPayout(r)
<1>1. ASSUME NEW r \in Request, Rollback(r)
      PROVE  UNCHANGED Money
  BY <1>1 DEF Rollback, Money
<1>2. ASSUME NEW r \in Request,
             \/ BeginCollection(r) \/ BeginPayout(r) \/ LockWallet(r)
             \/ CheckCollection(r) \/ CheckPayout(r)
      PROVE  UNCHANGED Money
  BY <1>1, <1>2 DEF BeginCollection, BeginPayout, LockWallet, CheckCollection,
         CheckPayout, Money
<1>3. CASE UNCHANGED vars
  BY <1>3 DEF vars, Money
<1>4. QED
  BY <1>1, <1>2, <1>3 DEF Next, Step, ApplyCollection, ApplyPayout, Crash

\* The wallet's side of a commit, in numbers.
LEMMA CollectionMoves ==
    ASSUME LockInv, NEW r \in Request, CommitCollection(r), pc[r] = "checked"
    PROVE  /\ target[r] \in Row /\ Net(r) \in Int /\ Net(r) > 0
           /\ \A w \in Row : balance'[w] =
                 IF w = target[r] /\ Input[r].instant
                 THEN balance[w] + Net(r) ELSE balance[w]
           /\ \A b \in Business : cash'[b] =
                 IF b = Input[r].biz /\ Input[r].instant
                 THEN cash[b] + Net(r) ELSE cash[b]
<1>1. target[r] \in Row /\ Net(r) \in Int /\ Net(r) > 0
  BY RowOfBusiness, InputTyped DEF CommitCollection,
         CollectionEntriesPositive, Active
<1>2. CASE Input[r].instant
  BY <1>1, <1>2, InputTyped DEF CommitCollection, CreditWallet,
         PostCollection, LockInv, TypeOK
<1>3. CASE ~Input[r].instant
  BY <1>1, <1>3 DEF CommitCollection, PostDeferred
<1>4. QED
  BY <1>1, <1>2, <1>3

LEMMA PayoutMoves ==
    ASSUME LockInv, NEW r \in Request, CommitPayout(r), pc[r] = "checked"
    PROVE  /\ target[r] \in Row /\ TotalDebit(r) \in Int
           /\ balance[target[r]] >= TotalDebit(r)
           /\ \A w \in Row : balance'[w] =
                 IF w = target[r] THEN balance[w] - TotalDebit(r) ELSE balance[w]
           /\ \A b \in Business : cash'[b] =
                 IF b = Input[r].biz THEN cash[b] - TotalDebit(r) ELSE cash[b]
BY RowOfBusiness, InputTyped
DEF CommitPayout, Covered, PostPayout, LockInv, TypeOK, Active

LEMMA NextNoOverdraft == LockInv /\ NoOverdraft /\ [Next]_vars => NoOverdraft'
<1> SUFFICES ASSUME LockInv, NoOverdraft, [Next]_vars
             PROVE  NoOverdraft'
  OBVIOUS
<1>1. \A w \in Row : balance[w] \in Int
  BY DEF LockInv, TypeOK
<1>2. CASE UNCHANGED Money
  BY <1>2 DEF NoOverdraft, Money
<1>3. ASSUME NEW r \in Request, pc[r] = "checked", CommitCollection(r)
      PROVE  NoOverdraft'
  BY <1>1, <1>3, CollectionMoves DEF NoOverdraft
<1>4. ASSUME NEW r \in Request, pc[r] = "checked", CommitPayout(r)
      PROVE  NoOverdraft'
  BY <1>1, <1>4, PayoutMoves DEF NoOverdraft
<1>5. QED
  BY <1>2, <1>3, <1>4, StepCases

\* No run overdraws a wallet, for any number of requests and any amounts.
THEOREM NeverOverdrawn == Spec => []NoOverdraft
<1>1. Init => LockInv /\ NoOverdraft
  BY InitType, InitLocked DEF LockInv, NoOverdraft, Init, InitRows
<1>2. QED
  BY <1>1, NextLocked, NextNoOverdraft, PTL DEF Spec

LEMMA NextWalletMatches ==
    LockInv /\ WalletMatchesLedger /\ [Next]_vars => WalletMatchesLedger'
<1> SUFFICES ASSUME LockInv, WalletMatchesLedger, [Next]_vars
             PROVE  WalletMatchesLedger'
  OBVIOUS
<1>1. \A b \in Provisioned : b \in Business /\ b \in Row
  BY ConstantsAssumption DEF Row
<1>2. CASE UNCHANGED Money
  BY <1>2 DEF WalletMatchesLedger, Money, books
<1>3. ASSUME NEW r \in Request, pc[r] = "checked", CommitCollection(r)
      PROVE  WalletMatchesLedger'
  BY <1>1, <1>3, RowOfBusiness, CollectionMoves
     DEF WalletMatchesLedger, Active
<1>4. ASSUME NEW r \in Request, pc[r] = "checked", CommitPayout(r)
      PROVE  WalletMatchesLedger'
  BY <1>1, <1>4, RowOfBusiness, PayoutMoves DEF WalletMatchesLedger, Active
<1>5. QED
  BY <1>2, <1>3, <1>4, StepCases

\* The wallet and the ledger's CUSTOMER_CASH account of a business agree after
\* every commit.
THEOREM WalletsMatchLedger == Spec => []WalletMatchesLedger
<1>1. Init => LockInv /\ WalletMatchesLedger
  <2>1. Init => WalletMatchesLedger
    BY ConstantsAssumption DEF WalletMatchesLedger, Init, InitRows, Row
  <2>2. QED
    BY <2>1, InitType, InitLocked DEF LockInv
<1>2. QED
  BY <1>1, NextLocked, NextWalletMatches, PTL DEF Spec

-----------------------------------------------------------------------------
(* One credit per merchant reference *)

CreditInv == LockInv /\ CheckIsFresh /\ CreditedOnce

\* The row SaveTransaction adds.
SavedRow(r) ==
    [by |-> r, biz |-> Input[r].biz, ref |-> Input[r].ref,
     mref |-> Input[r].mref, pref |-> Input[r].pref,
     settled |-> Input[r].instant]

LEMMA NextCheckIsFresh == CreditInv /\ [Next]_vars => CheckIsFresh'
<1> SUFFICES ASSUME CreditInv, [Next]_vars,
                    NEW q \in Request, pc'[q] = "checked", Collects(q),
                    Input[q].biz \in Provisioned,
                    NEW t \in success', t.biz = Input[q].biz
             PROVE  t.mref # Input[q].mref
  BY DEF CheckIsFresh
<1>1. ASSUME NEW r \in Request, CommitCollection(r), pc[r] = "checked"
      PROVE  t.mref # Input[q].mref
  <2>1. pc'[r] = "committed" /\ \A p \in Request : p # r => pc'[p] = pc[p]
    BY <1>1 DEF CommitCollection, Goto, CreditInv, LockInv, TypeOK
  <2>2. q # r /\ pc[q] = "checked"
    BY <2>1
  <2>3. Input[r].biz # Input[q].biz
    <3>1. target[r] # target[q]
      BY <1>1, <2>2, OneRequestPerRow DEF CreditInv, Active
    <3>2. QED
      BY <1>1, <2>2, <3>1, RowOfBusiness DEF CreditInv, Active
  <2>4. t \in success \/ t = SavedRow(r)
    BY <1>1 DEF CommitCollection, SaveTransaction, SavedRow
  <2>5. t \in success
    BY <2>3, <2>4 DEF SavedRow
  <2>6. QED
    BY <2>2, <2>5 DEF CreditInv, CheckIsFresh
<1>2. ASSUME NEW r \in Request, CheckCollection(r)
      PROVE  t.mref # Input[q].mref
  <2>1. success' = success
    BY <1>2 DEF CheckCollection
  <2>2. CASE q = r
    <3>1. ~Processed(r)
      BY <1>2, <2>2 DEF CheckCollection, Goto, CreditInv, LockInv, TypeOK
    <3>2. QED
      BY <2>1, <2>2, <3>1 DEF Processed
  <2>3. CASE q # r
    <3>1. pc'[q] = pc[q]
      BY <1>2, <2>3 DEF CheckCollection, Goto, CreditInv, LockInv, TypeOK
    <3>2. QED
      BY <2>1, <3>1 DEF CreditInv, CheckIsFresh
  <2>4. QED
    BY <2>2, <2>3
<1>3. ASSUME success' = success,
             \A p \in Request : pc'[p] = "checked" /\ Collects(p) => pc[p] = "checked"
      PROVE  t.mref # Input[q].mref
  BY <1>3 DEF CreditInv, CheckIsFresh
<1>4. ASSUME NEW r \in Request, Rollback(r)
      PROVE  t.mref # Input[q].mref
  BY <1>3, <1>4 DEF Rollback, Goto, CreditInv, LockInv, TypeOK
<1>5. ASSUME NEW r \in Request,
             BeginCollection(r) \/ BeginPayout(r) \/ LockWallet(r)
      PROVE  t.mref # Input[q].mref
  BY <1>3, <1>5 DEF BeginCollection, BeginPayout, LockWallet, Goto, CreditInv,
         LockInv, TypeOK
<1>6. ASSUME NEW r \in Request, CheckPayout(r)
      PROVE  t.mref # Input[q].mref
  <2>1. CASE PayoutRecorded(r)
    BY <1>4, <1>6, <2>1 DEF CheckPayout
  <2>2. CASE ~PayoutRecorded(r)
    BY <1>3, <1>6, <2>2 DEF CheckPayout, Goto, CreditInv, LockInv, TypeOK
  <2>3. QED
    BY <2>1, <2>2
<1>7. ASSUME NEW r \in Request, CommitPayout(r)
      PROVE  t.mref # Input[q].mref
  BY <1>3, <1>7 DEF CommitPayout, Goto, CreditInv, LockInv, TypeOK
<1>8. CASE UNCHANGED vars
  BY <1>3, <1>8 DEF vars
<1>9. QED
  BY <1>1, <1>2, <1>4, <1>5, <1>6, <1>7, <1>8
     DEF Next, Step, ApplyCollection, ApplyPayout, Crash

LEMMA NextCreditedOnce == CreditInv /\ [Next]_vars => CreditedOnce'
<1> SUFFICES ASSUME CreditInv, [Next]_vars
             PROVE  CreditedOnce'
  OBVIOUS
<1>1. ASSUME success' = success
      PROVE  CreditedOnce'
  BY <1>1 DEF CreditInv, CreditedOnce
<1>2. ASSUME NEW r \in Request, pc[r] = "checked", Collects(r),
             CommitCollection(r)
      PROVE  CreditedOnce'
  <2>1. success' = success \cup {SavedRow(r)}
    BY <1>2 DEF CommitCollection, SaveTransaction, SavedRow
  <2>2. \A t \in success :
          t.biz = Input[r].biz /\ Input[r].biz \in Provisioned =>
              t.mref # Input[r].mref
    BY <1>2 DEF CreditInv, CheckIsFresh
  <2>3. /\ SavedRow(r).biz = Input[r].biz
        /\ SavedRow(r).mref = Input[r].mref
        /\ SavedRow(r).by = r
    BY DEF SavedRow
  <2>4. QED
    BY <2>1, <2>2, <2>3 DEF CreditInv, CreditedOnce
<1>3. QED
  BY <1>1, <1>2, StepCases DEF Money, CommitPayout

\* A provisioned business is credited once per merchant reference, however many
\* deliveries of the payment race through createSettlement.
THEOREM CreditsAreOnce == Spec => []CreditedOnce
<1>1. Init => CreditInv
  <2>1. Init => CheckIsFresh /\ CreditedOnce
    BY DEF Init, InitRows, CheckIsFresh, CreditedOnce
  <2>2. QED
    BY <2>1, InitType, InitLocked DEF CreditInv, LockInv
<1>2. CreditInv /\ [Next]_vars => CreditInv'
  BY NextLocked, NextCheckIsFresh, NextCreditedOnce DEF CreditInv
<1>3. CreditInv => CreditedOnce
  BY DEF CreditInv
<1>4. QED
  BY <1>1, <1>2, <1>3, PTL DEF Spec

-----------------------------------------------------------------------------
(* The statement of a wallet *)

\* The statement row a commit appends, and to which row's statement.
Appends(r, type, amount, after) ==
    /\ target[r] \in Row
    /\ after \in Int
    /\ statement' = [statement EXCEPT ![target[r]] =
          Append(@, [by |-> r, type |-> type, amount |-> amount,
                     before |-> seen[r], after |-> after])]

LEMMA AppendedStatement ==
    ASSUME LockInv, NEW r \in Request, NEW type, NEW amount, NEW after,
           Appends(r, type, amount, after)
    PROVE  /\ \A w \in Row : w # target[r] => statement'[w] = statement[w]
           /\ Len(statement'[target[r]]) = Len(statement[target[r]]) + 1
           /\ \A i \in 1..Len(statement[target[r]]) :
                 statement'[target[r]][i] = statement[target[r]][i]
           /\ statement'[target[r]][Len(statement[target[r]]) + 1] =
                 [by |-> r, type |-> type, amount |-> amount,
                  before |-> seen[r], after |-> after]
<1> DEFINE s == statement[target[r]]
           row == [by |-> r, type |-> type, amount |-> amount,
                   before |-> seen[r], after |-> after]
<1>1. s \in Seq(WalletTransaction)
  BY DEF LockInv, TypeOK, Appends
<1>2. statement'[target[r]] = Append(s, row)
  BY DEF LockInv, TypeOK, Appends
<1>3. \A w \in Row : w # target[r] => statement'[w] = statement[w]
  BY DEF LockInv, TypeOK, Appends
<1>4. /\ Len(Append(s, row)) = Len(s) + 1
      /\ \A i \in 1..Len(s) : Append(s, row)[i] = s[i]
      /\ Append(s, row)[Len(s) + 1] = row
  BY <1>1
<1>5. QED
  BY <1>2, <1>3, <1>4

\* Both commits append a row to the locked statement, or leave all alone.
LEMMA CollectionAppends ==
    ASSUME LockInv, NEW r \in Request, CommitCollection(r), pc[r] = "checked"
    PROVE  \/ UNCHANGED statement
           \/ Appends(r, "CREDIT", Net(r), seen[r] + Net(r))
<1>1. target[r] \in Row
  BY RowOfBusiness DEF Active
<1>2. seen[r] + Net(r) \in Int
  BY InputTyped DEF LockInv, TypeOK
<1>3. QED
  BY <1>1, <1>2 DEF CommitCollection, CreditWallet, WriteStatement, Appends

LEMMA PayoutAppends ==
    ASSUME LockInv, NEW r \in Request, CommitPayout(r), pc[r] = "checked"
    PROVE  Appends(r, "DEBIT", TotalDebit(r), seen[r] - TotalDebit(r))
<1>1. target[r] \in Row
  BY RowOfBusiness DEF Active
<1>2. seen[r] - TotalDebit(r) \in Int
  BY InputTyped DEF LockInv, TypeOK
<1>3. QED
  BY <1>1, <1>2 DEF CommitPayout, WriteStatement, Appends

\* One statement continues to its wallet's balance without a gap.
Continues(s, n) ==
    /\ \A i \in 1..Len(s) :
        /\ s[i].after = s[i].before + Signed(s[i])
        /\ s[i].before = IF i = 1 THEN 0 ELSE s[i - 1].after
    /\ n = IF s = <<>> THEN 0 ELSE s[Len(s)].after

LEMMA ChainIsContinues ==
    StatementChain <=> \A w \in Row : Continues(statement[w], balance[w])
BY DEF StatementChain, Continues

LEMMA ChainStep ==
    ASSUME LockInv, StatementChain, NEW r \in Request, pc[r] = "checked",
           NEW type, NEW amount \in Int, NEW after,
           Appends(r, type, amount, after),
           after = seen[r] + (IF type = "CREDIT" THEN amount ELSE -amount),
           \A w \in Row : balance'[w] = IF w = target[r] THEN after ELSE balance[w]
    PROVE  StatementChain'
<1> DEFINE s == statement[target[r]]
           z == statement'[target[r]]
           row == [by |-> r, type |-> type, amount |-> amount,
                   before |-> seen[r], after |-> after]
<1>1. /\ \A w \in Row : w # target[r] => statement'[w] = statement[w]
      /\ Len(z) = Len(s) + 1
      /\ \A i \in 1..Len(s) : z[i] = s[i]
      /\ z[Len(s) + 1] = row
  BY AppendedStatement
<1>2. target[r] \in Row /\ seen[r] = balance[target[r]]
  BY DEF LockInv, LockedReadIsFresh, Active
<1>3. Continues(s, seen[r])
  BY <1>2, ChainIsContinues
<1>4. Len(s) \in Nat /\ (s = <<>> <=> Len(s) = 0)
  <2>1. s \in Seq(WalletTransaction)
    BY <1>2 DEF LockInv, TypeOK
  <2>2. QED
    BY <2>1
<1>5. row.after = row.before + Signed(row)
  BY DEF Signed
<1>6. row.before = IF Len(s) + 1 = 1 THEN 0 ELSE z[Len(s)].after
  BY <1>1, <1>3, <1>4 DEF Continues
<1>7. \A i \in 1..Len(z) :
        /\ z[i].after = z[i].before + Signed(z[i])
        /\ z[i].before = IF i = 1 THEN 0 ELSE z[i - 1].after
  <2> SUFFICES ASSUME NEW i \in 1..Len(z)
               PROVE  /\ z[i].after = z[i].before + Signed(z[i])
                      /\ z[i].before = IF i = 1 THEN 0 ELSE z[i - 1].after
    OBVIOUS
  <2>1. CASE i = Len(s) + 1
    BY <1>1, <1>4, <1>5, <1>6, <2>1
  <2>2. CASE i \in 1..Len(s)
    <3>1. z[i] = s[i] /\ (i # 1 => z[i - 1] = s[i - 1])
      BY <1>1, <1>4, <2>2
    <3>2. QED
      BY <1>3, <2>2, <3>1 DEF Continues
  <2>3. QED
    BY <1>1, <1>4, <2>1, <2>2
<1>8. z # <<>> /\ z[Len(z)].after = after
  BY <1>1, <1>4
<1>9. Continues(z, after)
  BY <1>7, <1>8 DEF Continues
<1>10. \A w \in Row : Continues(statement'[w], balance'[w])
  BY <1>1, <1>2, <1>9, ChainIsContinues
<1>11. QED
  BY <1>10 DEF StatementChain, Continues

LEMMA NextChain == LockInv /\ StatementChain /\ [Next]_vars => StatementChain'
<1> SUFFICES ASSUME LockInv, StatementChain, [Next]_vars
             PROVE  StatementChain'
  OBVIOUS
<1>1. ASSUME UNCHANGED statement, \A w \in Row : balance'[w] = balance[w]
      PROVE  StatementChain'
  BY <1>1 DEF StatementChain
<1>2. ASSUME NEW r \in Request, pc[r] = "checked", CommitCollection(r)
      PROVE  StatementChain'
  <2>1. CASE Input[r].instant
    <3>1. Appends(r, "CREDIT", Net(r), seen[r] + Net(r))
      BY <1>2, <2>1, RowOfBusiness, InputTyped
         DEF CommitCollection, CreditWallet, WriteStatement, Appends, Active,
             LockInv, TypeOK
    <3>2. \A w \in Row : balance'[w] =
            IF w = target[r] THEN seen[r] + Net(r) ELSE balance[w]
      BY <1>2, <2>1, CollectionMoves DEF LockInv, LockedReadIsFresh, Active
    <3>3. QED
      BY <1>2, <3>1, <3>2, ChainStep, InputTyped
  <2>2. CASE ~Input[r].instant
    BY <1>1, <1>2, <2>2 DEF CommitCollection
  <2>3. QED
    BY <2>1, <2>2
<1>3. ASSUME NEW r \in Request, pc[r] = "checked", CommitPayout(r)
      PROVE  StatementChain'
  <2>1. Appends(r, "DEBIT", TotalDebit(r), seen[r] - TotalDebit(r))
    BY <1>3, PayoutAppends
  <2>2. \A w \in Row : balance'[w] =
          IF w = target[r] THEN seen[r] - TotalDebit(r) ELSE balance[w]
    BY <1>3, PayoutMoves DEF LockInv, LockedReadIsFresh, Active
  <2>3. seen[r] - TotalDebit(r) = seen[r] + (-TotalDebit(r))
    BY InputTyped DEF LockInv, TypeOK
  <2>4. QED
    BY <1>3, <2>1, <2>2, <2>3, ChainStep, InputTyped
<1>4. QED
  BY <1>1, <1>2, <1>3, StepCases DEF Money

\* The statement a merchant is shown adds up, after every commit.
THEOREM StatementsAddUp == Spec => []StatementChain
<1>1. Init => LockInv /\ StatementChain
  <2>1. Init => StatementChain
    BY DEF Init, InitRows, StatementChain
  <2>2. QED
    BY <2>1, InitType, InitLocked DEF LockInv
<1>2. QED
  BY <1>1, NextLocked, NextChain, PTL DEF Spec

-----------------------------------------------------------------------------
(* One debit per payout reference *)

DebitInv == LockInv /\ DebitsPosted /\ DebitedOnce

\* After an append, a statement entry is the new one or an old one.
LEMMA NewOrOld ==
    ASSUME LockInv, NEW r \in Request, NEW type, NEW amount, NEW after,
           Appends(r, type, amount, after),
           NEW w \in Row, NEW i \in 1..Len(statement'[w])
    PROVE  \/ /\ w = target[r]
              /\ i = Len(statement[target[r]]) + 1
              /\ statement'[w][i].by = r
              /\ statement'[w][i].type = type
           \/ /\ i \in 1..Len(statement[w])
              /\ statement'[w][i] = statement[w][i]
<1>1. Len(statement[w]) \in Nat
  BY DEF LockInv, TypeOK
<1>2. CASE w = target[r]
  <2>1. /\ Len(statement'[w]) = Len(statement[w]) + 1
        /\ \A k \in 1..Len(statement[w]) : statement'[w][k] = statement[w][k]
        /\ statement'[w][Len(statement[w]) + 1] =
              [by |-> r, type |-> type, amount |-> amount,
               before |-> seen[r], after |-> after]
    BY <1>2, AppendedStatement
  <2>2. CASE i = Len(statement[w]) + 1
    BY <1>2, <2>1, <2>2
  <2>3. CASE i \in 1..Len(statement[w])
    BY <2>1, <2>3
  <2>4. QED
    BY <1>1, <2>1, <2>2, <2>3
<1>3. CASE w # target[r]
  BY <1>3, AppendedStatement
<1>4. QED
  BY <1>2, <1>3

LEMMA DebitStep ==
    ASSUME DebitInv, NEW r \in Request, pc[r] = "checked", ~Collects(r),
           CommitPayout(r)
    PROVE  DebitsPosted' /\ DebitedOnce'
<1>1. Appends(r, "DEBIT", TotalDebit(r), seen[r] - TotalDebit(r))
  BY PayoutAppends DEF DebitInv
<1>2. \A w \in Row : \A i \in 1..Len(statement'[w]) :
        \/ /\ w = target[r]
           /\ i = Len(statement[target[r]]) + 1
           /\ statement'[w][i].by = r
        \/ /\ i \in 1..Len(statement[w])
           /\ statement'[w][i] = statement[w][i]
  BY <1>1, NewOrOld DEF DebitInv
<1>3. /\ <<"ref", Input[r].ref>> \notin posted
      /\ posted' = posted \cup {<<"ref", Input[r].ref>>}
  BY DEF CommitPayout, PostPayout, LedgerReference
<1>4. ASSUME NEW w \in Row, NEW i \in 1..Len(statement'[w]),
             statement'[w][i].type = "DEBIT"
      PROVE  <<"ref", Input[statement'[w][i].by].ref>> \in posted'
  BY <1>2, <1>3, <1>4 DEF DebitsPosted, DebitInv
<1>5. ASSUME NEW w \in Row, NEW i \in 1..Len(statement[w]),
             statement[w][i].type = "DEBIT"
      PROVE  Input[statement[w][i].by].ref # Input[r].ref
  BY <1>3, <1>5 DEF DebitInv, DebitsPosted
<1>6. ASSUME NEW w \in Row, NEW x \in Row,
             NEW i \in 1..Len(statement'[w]), NEW j \in 1..Len(statement'[x]),
             statement'[w][i].type = "DEBIT", statement'[x][j].type = "DEBIT",
             Input[statement'[w][i].by].ref = Input[statement'[x][j].by].ref
      PROVE  w = x /\ i = j
  <2>1. CASE /\ i \in 1..Len(statement[w])
             /\ statement'[w][i] = statement[w][i]
    <3>1. CASE /\ j \in 1..Len(statement[x])
               /\ statement'[x][j] = statement[x][j]
      BY <1>6, <2>1, <3>1 DEF DebitInv, DebitedOnce
    <3>2. CASE statement'[x][j].by = r
      BY <1>5, <1>6, <2>1, <3>2
    <3>3. QED
      BY <1>2, <3>1, <3>2
  <2>2. CASE /\ w = target[r]
             /\ i = Len(statement[target[r]]) + 1
             /\ statement'[w][i].by = r
    <3>1. CASE /\ j \in 1..Len(statement[x])
               /\ statement'[x][j] = statement[x][j]
      BY <1>5, <1>6, <2>2, <3>1
    <3>2. CASE x = target[r] /\ j = Len(statement[target[r]]) + 1
      BY <2>2, <3>2
    <3>3. QED
      BY <1>2, <3>1, <3>2
  <2>3. QED
    BY <1>2, <2>1, <2>2
<1>7. DebitsPosted'
  BY <1>4 DEF DebitsPosted
<1>8. DebitedOnce'
  BY <1>6 DEF DebitedOnce
<1>9. QED
  BY <1>7, <1>8

LEMMA CreditStep ==
    ASSUME DebitInv, NEW r \in Request, pc[r] = "checked", CommitCollection(r)
    PROVE  DebitsPosted' /\ DebitedOnce'
<1>1. posted \subseteq posted'
  BY DEF CommitCollection, PostCollection, PostDeferred, PostHouse
<1>2. CASE UNCHANGED statement
  BY <1>1, <1>2 DEF DebitInv, DebitsPosted, DebitedOnce
<1>3. CASE Appends(r, "CREDIT", Net(r), seen[r] + Net(r))
  <2>1. \A w \in Row : \A i \in 1..Len(statement'[w]) :
          statement'[w][i].type = "DEBIT" =>
              i \in 1..Len(statement[w]) /\ statement'[w][i] = statement[w][i]
    BY <1>3, NewOrOld DEF DebitInv
  <2>2. DebitsPosted'
    BY <1>1, <2>1 DEF DebitInv, DebitsPosted
  <2>3. DebitedOnce'
    <3> SUFFICES ASSUME
            NEW w \in Row, NEW x \in Row,
            NEW i \in 1..Len(statement'[w]), NEW j \in 1..Len(statement'[x]),
            statement'[w][i].type = "DEBIT", statement'[x][j].type = "DEBIT",
            Input[statement'[w][i].by].ref = Input[statement'[x][j].by].ref
          PROVE  w = x /\ i = j
      BY DEF DebitedOnce
    <3>1. /\ i \in 1..Len(statement[w]) /\ statement'[w][i] = statement[w][i]
          /\ j \in 1..Len(statement[x]) /\ statement'[x][j] = statement[x][j]
      BY <2>1
    <3>2. QED
      BY <3>1 DEF DebitInv, DebitedOnce
  <2>4. QED
    BY <2>2, <2>3
<1>4. QED
  BY <1>2, <1>3, CollectionAppends DEF DebitInv

\* A payout reference is debited once over all wallets, in every run.
THEOREM DebitsAreOnce == Spec => []DebitedOnce
<1>1. Init => DebitInv
  <2>1. Init => DebitsPosted /\ DebitedOnce
    BY DEF Init, InitRows, DebitsPosted, DebitedOnce
  <2>2. QED
    BY <2>1, InitType, InitLocked DEF DebitInv, LockInv
<1>2. DebitInv /\ [Next]_vars => DebitInv'
  <2> SUFFICES ASSUME DebitInv, [Next]_vars
               PROVE  DebitsPosted' /\ DebitedOnce'
    BY NextLocked DEF DebitInv
  <2>1. CASE UNCHANGED Money
    BY <2>1 DEF DebitInv, DebitsPosted, DebitedOnce, Money, books
  <2>2. QED
    BY <2>1, StepCases, DebitStep, CreditStep
<1>3. DebitInv => DebitedOnce
  BY DEF DebitInv
<1>4. QED
  BY <1>1, <1>2, <1>3, PTL DEF Spec

-----------------------------------------------------------------------------
(* The ledger balances *)

\* One account that is posted to changes the sum of its kind by the amount.
LEMMA PostedSum ==
    ASSUME NEW accounts \in [Business -> Int], NEW later \in [Business -> Int],
           NEW b \in Business,
           \A c \in Business : c # b => later[c] = accounts[c]
    PROVE  SumFunction(later) = SumFunction(accounts) + (later[b] - accounts[b])
<1>1. IsFiniteSet(Business)
  BY ConstantsAssumption
<1>2. \A c \in Business : accounts[c] \in Int /\ later[c] \in Int
  OBVIOUS
<1>3. SumFunctionOnSet(later, Business) =
        SumFunctionOnSet(accounts, Business) + (later[b] - accounts[b])
  BY <1>1, <1>2, SumChanged
<1>4. /\ SumFunction(accounts) = SumFunctionOnSet(accounts, Business)
      /\ SumFunction(later) = SumFunctionOnSet(later, Business)
  BY SumIsOverDomain
<1>5. QED
  BY <1>3, <1>4

LEMMA SumsAreInts ==
    ASSUME NEW accounts \in [Business -> Int]
    PROVE  SumFunction(accounts) \in Int
<1>1. IsFiniteSet(Business) /\ \A c \in Business : accounts[c] \in Int
  BY ConstantsAssumption
<1>2. SumFunctionOnSet(accounts, Business) \in Int
  BY <1>1, SumIsInt
<1>3. QED
  BY <1>2, SumIsOverDomain

\* The two sides of the ledger, after a posting for request r.
LEMMA PostingBalances ==
    ASSUME BooksOK, LedgerBalanced, NEW r \in Request,
           \/ PostCollection(r)
           \/ PostDeferred(r)
           \/ PostPayout(r)
    PROVE  LedgerBalanced'
<1> DEFINE b == Input[r].biz
           gross == Input[r].gross
           theirs == Input[r].providerFee
           ours == Input[r].merchantFee
<1>1. b \in Business /\ gross \in Int /\ theirs \in Int /\ ours \in Int
  BY InputTyped
<1>2. /\ house.provider \in Int /\ house.expense \in Int /\ house.revenue \in Int
      /\ cash \in [Business -> Int] /\ payable \in [Business -> Int]
  BY DEF BooksOK, HouseAccounts
<1>3. /\ house'.provider \in Int /\ house'.expense \in Int /\ house'.revenue \in Int
      /\ cash' \in [Business -> Int] /\ payable' \in [Business -> Int]
  BY LedgerType DEF BooksOK, HouseAccounts
<1>4. /\ SumFunction(cash) \in Int /\ SumFunction(payable) \in Int
      /\ house.provider \in Int /\ house.expense \in Int /\ house.revenue \in Int
      /\ SumFunction(cash') \in Int /\ SumFunction(payable') \in Int
      /\ house'.provider \in Int /\ house'.expense \in Int /\ house'.revenue \in Int
      /\ gross \in Int /\ theirs \in Int /\ ours \in Int
  BY <1>1, <1>2, <1>3, SumsAreInts
<1>5. house.provider + house.expense =
        SumFunction(cash) + SumFunction(payable) + house.revenue
  BY DEF LedgerBalanced
<1>6. SUFFICES house'.provider + house'.expense =
                 SumFunction(cash') + SumFunction(payable') + house'.revenue
  BY DEF LedgerBalanced
<1>7. ASSUME PostHouse(r)
      PROVE  /\ house'.provider = house.provider + (gross - theirs)
             /\ house'.expense = house.expense + theirs
             /\ house'.revenue = house.revenue + ours
  BY <1>7 DEF PostHouse, Settled
<1>8. CASE PostCollection(r)
  <2>1. /\ cash'[b] = cash[b] + (gross - ours)
        /\ \A c \in Business : c # b => cash'[c] = cash[c]
        /\ payable' = payable
    BY <1>1, <1>2, <1>8 DEF PostCollection, Net
  <2>2. SumFunction(cash') = SumFunction(cash) + (gross - ours)
    <3>1. SumFunction(cash') = SumFunction(cash) + (cash'[b] - cash[b])
      BY <1>1, <1>2, <1>3, <2>1, PostedSum
    <3>2. cash'[b] - cash[b] = gross - ours
      BY <1>1, <1>2, <2>1
    <3>3. QED
      BY <3>1, <3>2
  <2>3. PostHouse(r)
    BY <1>8 DEF PostCollection
  <2> HIDE DEF b, gross, theirs, ours
  <2>4. /\ house'.provider = house.provider + (gross - theirs)
        /\ house'.expense = house.expense + theirs
        /\ house'.revenue = house.revenue + ours
    BY <1>7, <2>3
  <2>5. SumFunction(payable') = SumFunction(payable)
    BY <2>1
  <2>6. QED
    BY <1>4, <1>5, <2>2, <2>4, <2>5
<1>9. CASE PostDeferred(r)
  <2>1. /\ payable'[b] = payable[b] + (gross - ours)
        /\ \A c \in Business : c # b => payable'[c] = payable[c]
        /\ cash' = cash
    BY <1>1, <1>2, <1>9 DEF PostDeferred, Net
  <2>2. SumFunction(payable') = SumFunction(payable) + (gross - ours)
    <3>1. SumFunction(payable') = SumFunction(payable) + (payable'[b] - payable[b])
      BY <1>1, <1>2, <1>3, <2>1, PostedSum
    <3>2. payable'[b] - payable[b] = gross - ours
      BY <1>1, <1>2, <2>1
    <3>3. QED
      BY <3>1, <3>2
  <2>3. PostHouse(r)
    BY <1>9 DEF PostDeferred
  <2> HIDE DEF b, gross, theirs, ours
  <2>4. /\ house'.provider = house.provider + (gross - theirs)
        /\ house'.expense = house.expense + theirs
        /\ house'.revenue = house.revenue + ours
    BY <1>7, <2>3
  <2>5. SumFunction(cash') = SumFunction(cash)
    BY <2>1
  <2>6. QED
    BY <1>4, <1>5, <2>2, <2>4, <2>5
<1>10. CASE PostPayout(r)
  <2>1. /\ cash'[b] = cash[b] - (gross + ours)
        /\ \A c \in Business : c # b => cash'[c] = cash[c]
        /\ payable' = payable
    BY <1>1, <1>2, <1>10 DEF PostPayout, TotalDebit
  <2>2. SumFunction(cash') = SumFunction(cash) - (gross + ours)
    <3>1. SumFunction(cash') = SumFunction(cash) + (cash'[b] - cash[b])
      BY <1>1, <1>2, <1>3, <2>1, PostedSum
    <3>2. cash'[b] - cash[b] = -(gross + ours)
      BY <1>1, <1>2, <2>1
    <3>3. QED
      BY <1>4, <3>1, <3>2
  <2>3. /\ house'.provider = house.provider - (gross + theirs)
        /\ house'.expense = house.expense
        /\ house'.revenue = house.revenue + (ours - theirs)
    BY <1>10 DEF PostPayout, Revenue
  <2> HIDE DEF b, gross, theirs, ours
  <2>4. SumFunction(payable') = SumFunction(payable)
    BY <2>1
  <2>5. QED
    BY <1>4, <1>5, <2>2, <2>3, <2>4
<1>11. QED
  BY <1>8, <1>9, <1>10

\* No business has been owed anything yet.
LEMMA InitBalanced == Init => LedgerBalanced
<1> SUFFICES ASSUME Init
             PROVE  LedgerBalanced
  OBVIOUS
<1> DEFINE zero == [b \in Business |-> 0]
<1>1. cash = zero /\ payable = zero
  BY DEF Init, InitRows
<1>2. SumFunctionOnSet(zero, Business) = 0
  BY ConstantsAssumption, SumOfZeros
<1>3. SumFunction(zero) = 0
  BY <1>2, SumIsOverDomain
<1>4. QED
  BY <1>1, <1>3 DEF Init, InitRows, LedgerBalanced

LEMMA NextBalanced == TypeOK /\ LedgerBalanced /\ [Next]_vars => LedgerBalanced'
<1> SUFFICES ASSUME TypeOK, LedgerBalanced, [Next]_vars
             PROVE  LedgerBalanced'
  OBVIOUS
<1>1. ASSUME UNCHANGED books
      PROVE  LedgerBalanced'
  BY <1>1 DEF LedgerBalanced, books
<1>2. BooksOK
  BY DEF TypeOK, BooksOK
<1>3. ASSUME NEW r \in Request, CommitCollection(r)
      PROVE  LedgerBalanced'
  BY <1>2, <1>3, PostingBalances DEF CommitCollection
<1>4. ASSUME NEW r \in Request, CommitPayout(r)
      PROVE  LedgerBalanced'
  BY <1>2, <1>4, PostingBalances DEF CommitPayout
<1>5. QED
  BY <1>1, <1>3, <1>4, StepCases DEF Money

\* Debits equal credits over the whole ledger, for any number of businesses and
\* whatever mix of collections, deferred collections and payouts was posted.
THEOREM LedgerAlwaysBalances == Spec => []LedgerBalanced
<1>1. Init => TypeOK /\ LedgerBalanced
  BY InitType, InitBalanced
<1>2. TypeOK /\ LedgerBalanced /\ [Next]_vars => TypeOK' /\ LedgerBalanced'
  BY NextType, NextBalanced
<1>3. QED
  BY <1>1, <1>2, PTL DEF Spec

============================================================================
