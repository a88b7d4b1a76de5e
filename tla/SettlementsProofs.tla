------------------------- MODULE SettlementsProofs -------------------------
(***************************************************************************)
(* Theorems about Settlements, for any collections, shares, accounts, runs *)
(* of the cron and days: the variables keep their types, the books agree,  *)
(* and a bucket that is queued is final.                                   *)
(***************************************************************************)
EXTENDS Settlements, Sums, TLAPS

Opened(c) == stage[c] \in {"opened", "filled", "done"}

Filled(c) == stage[c] \in {"filled", "done"}

\* What a collection joins, if it is not its own, is committed, and a bucket is
\* of the settlement its collections are of.
Placed ==
    \A c \in Payment :
        /\ stage[c] # "none" => walletOf[c] \in Payment /\ terms[c] \in Terms
        /\ Opened(c) =>
            /\ settlementOf[c] \in Payment
            /\ settlementOf[c] # c => IsSettlement(settlementOf[c])
        /\ Filled(c) =>
            /\ bucketOf[c] \in Payment
            /\ bucketOf[c] # c =>
                /\ IsBucket(bucketOf[c])
                /\ settlementOf[bucketOf[c]] = settlementOf[c]

\* Two open collections do not hold one settlement.
OneHolder ==
    \A c, d \in Payment : \A s \in Payment :
        HoldsSettlement(c, s) /\ HoldsSettlement(d, s) => c = d

\* A row that is not committed holds nothing.
Fresh ==
    \A b \in Payment :
        /\ ~ IsSettlement(b) => settlement[b] = Nothing
        /\ ~ IsBucket(b) => bucket[b] = Nothing /\ status[b] = "NONE"

\* What an open collection has read is still what is there.
ReadHolds ==
    \A c \in Payment :
        /\ stage[c] \in {"opened", "filled"} => seen[c] = settlement[settlementOf[c]]
        /\ stage[c] = "filled" =>
            /\ found[c] = bucket[bucketOf[c]]
            /\ bucketOf[c] # c => status[bucketOf[c]] = StatusFor(c)

\* The cron has only rows in hand.
Listed ==
    \A v \in Cron :
        /\ \A b \in due[v] : IsBucket(b)
        /\ marking[v] # None => IsBucket(marking[v])

Shape == Placed /\ OneHolder /\ Fresh /\ ReadHolds /\ Listed

SettlementsInv == TypeOK /\ Shape /\ BooksAgree

-----------------------------------------------------------------------------
(* Types *)

LEMMA TermsAreTyped ==
  ASSUME TypeOK, NEW own \in Account \cup {None}, NEW apart \in BOOLEAN,
         NEW w \in Payment
  PROVE  TermsFor(own, apart, w) \in Terms
<1> DEFINE now == ~ apart /\ (config = None \/ config.type = "INSTANT")
           type == IF config # None THEN config.type
                   ELSE IF now THEN "INSTANT" ELSE "T_PLUS_1"
           to == IF own # None THEN own
                 ELSE IF ~ now /\ config # None /\ config.location = "BANK"
                   THEN None ELSE w
<1>1. now \in BOOLEAN
  OBVIOUS
<1>2. config # None => config.type \in SettlementType
  BY DEF TypeOK, Config
<1>3. type \in SettlementType
  <2> HIDE DEF now
  <2> QED BY <1>2 DEF SettlementType
<1>4. to \in Payment \cup Account \cup {None}
  <2> HIDE DEF now
  <2> QED OBVIOUS
<1>5. TermsFor(own, apart, w) = [now |-> now, type |-> type, to |-> to]
  BY DEF TermsFor
<1> HIDE DEF now, type, to
<1> QED BY <1>1, <1>3, <1>4, <1>5 DEF Terms

LEMMA GrownIsTyped ==
  ASSUME NEW totals \in Totals, NEW c \in Payment
  PROVE  Grown(totals, c) \in Totals
<1>1. Amount[c] \in Nat
  BY SettlementsAssumption
<1> QED BY <1>1 DEF Grown, Totals

LEMMA Bounds == Starts \in Nat /\ LastDay \in Nat
BY SettlementsAssumption

LEMMA Counters ==
  ASSUME TypeOK
  PROVE  /\ today \in 0..LastDay
         /\ starts \in [Payment -> 0..Starts]
         /\ date \in [Payment -> 0..LastDay]
BY DEF TypeOK

LEMMA InitTypes == Init => TypeOK
BY SettlementsAssumption
   DEF Init, TypeOK, Totals, Nothing, Stage, BucketStatus

USE DEF business, collection, rows, queueing, jobs

LEMMA StepTypes ==
  ASSUME TypeOK, Placed, [Next]_vars
  PROVE  TypeOK'
<1>1. CASE NextDay
  <2>1. today' \in 0..LastDay
    BY <1>1, Bounds, Counters DEF NextDay
  <2> QED BY <1>1, <2>1 DEF NextDay, TypeOK
<1>2. CASE Configure
  <2>1. CASE SetConfig
    BY <2>1 DEF SetConfig, TypeOK
  <2>2. ASSUME NEW a \in Account, AddAccount(a) \/ RemoveAccount(a) PROVE TypeOK'
    BY <2>2 DEF AddAccount, RemoveAccount, TypeOK
  <2> QED BY <1>2, <2>1, <2>2 DEF Configure
<1>3. ASSUME NEW c \in Payment, Collect(c) PROVE TypeOK'
  <2>1. ASSUME NEW w \in Payment, NEW own \in Account \cup {None},
               NEW apart \in BOOLEAN, Begin(c, w, own, apart)
        PROVE  TypeOK'
    <3>1. terms' \in [Payment -> Terms \cup {None}]
      BY <2>1, TermsAreTyped DEF Begin, TypeOK
    <3>2. /\ stage' \in [Payment -> Stage]
          /\ walletOf' \in [Payment -> Payment \cup {None}]
      BY <2>1 DEF Begin, TypeOK, Stage
    <3> QED BY <2>1, <3>1, <3>2 DEF Begin, TypeOK
  <2>2. ASSUME NEW s \in Payment, OpenSettlement(c, s) PROVE TypeOK'
    <3>1. SettlementDate(c) \in 0..LastDay
      BY <2>2, Bounds, Counters DEF OpenSettlement, SettlementDate
    <3>2. seen' \in [Payment -> Totals]
      BY <2>2 DEF OpenSettlement, TypeOK, Totals, Nothing
    <3>3. stage' \in [Payment -> Stage] /\ date' \in [Payment -> 0..LastDay]
      BY <2>2, <3>1 DEF OpenSettlement, TypeOK, Stage
    <3>4. settlementOf' \in [Payment -> Payment \cup {None}]
      BY <2>2 DEF OpenSettlement, TypeOK
    <3> QED BY <2>2, <3>2, <3>3, <3>4 DEF OpenSettlement, TypeOK
  <2>3. ASSUME NEW b \in Payment, FillBucket(c, b) PROVE TypeOK'
    <3>1. found' \in [Payment -> Totals]
      BY <2>3 DEF FillBucket, TypeOK, Totals, Nothing
    <3>2. /\ stage' \in [Payment -> Stage]
          /\ bucketOf' \in [Payment -> Payment \cup {None}]
      BY <2>3 DEF FillBucket, TypeOK, Stage
    <3> QED BY <2>3, <3>1, <3>2 DEF FillBucket, TypeOK
  <2>4. CASE Commit(c)
    <3>1. /\ Grown(seen[c], c) \in Totals
          /\ Grown(found[c], c) \in Totals
      BY GrownIsTyped DEF TypeOK
    <3>2. /\ settlement' \in [Payment -> Totals]
          /\ bucket' \in [Payment -> Totals]
      BY <2>4, <3>1 DEF Commit, TypeOK
    <3>3. wallets' \subseteq Payment
      BY <2>4 DEF Commit, TypeOK, Placed
    <3>4. status' \in [Payment -> BucketStatus] /\ stage' \in [Payment -> Stage]
      BY <2>4 DEF Commit, TypeOK, BucketStatus, Stage, StatusFor
    <3> QED BY <2>4, <3>2, <3>3, <3>4 DEF Commit, TypeOK
  <2>5. CASE Rollback(c)
    <3>1. /\ seen' \in [Payment -> Totals]
          /\ found' \in [Payment -> Totals]
      BY <2>5 DEF Rollback, TypeOK, Totals, Nothing
    <3>2. stage' \in [Payment -> Stage]
      BY <2>5 DEF Rollback, TypeOK, Stage
    <3>4. date' \in [Payment -> 0..LastDay]
      BY <2>5, Bounds, Counters DEF Rollback
    <3>3. /\ walletOf' \in [Payment -> Payment \cup {None}]
          /\ terms' \in [Payment -> Terms \cup {None}]
          /\ settlementOf' \in [Payment -> Payment \cup {None}]
          /\ bucketOf' \in [Payment -> Payment \cup {None}]
      BY <2>5 DEF Rollback, TypeOK
    <3> QED BY <2>5, <3>1, <3>2, <3>3, <3>4 DEF Rollback, TypeOK
  <2> QED BY <1>3, <2>1, <2>2, <2>3, <2>4, <2>5 DEF Collect
<1>4. ASSUME NEW v \in Cron, Queue(v) PROVE TypeOK'
  <2>1. CASE BeginQueueing(v)
    <3>1. Due \subseteq Payment
      BY DEF Due
    <3> QED BY <2>1, <3>1 DEF BeginQueueing, TypeOK
  <2>2. ASSUME NEW b \in Payment, AddJob(v, b) PROVE TypeOK'
    BY <2>2 DEF AddJob, TypeOK
  <2>3. ASSUME NEW b \in Payment, MarkQueued(v, b) PROVE TypeOK'
    <3>1. status' \in [Payment -> BucketStatus]
      BY <2>3 DEF MarkQueued, TypeOK, BucketStatus
    <3> QED BY <2>3, <3>1 DEF MarkQueued, TypeOK
  <2>4. CASE StopQueueing(v)
    BY <2>4 DEF StopQueueing, TypeOK
  <2> QED BY <1>4, <2>1, <2>2, <2>3, <2>4 DEF Queue
<1>5. ASSUME NEW b \in Payment, Work(b) PROVE TypeOK'
  <2>1. CASE StartJob(b)
    <3>1. starts' \in [Payment -> 0..Starts]
      BY <2>1, Bounds, Counters DEF StartJob
    <3> QED BY <2>1, <3>1 DEF StartJob, TypeOK
  <2>2. CASE ProcessJob(b)
    BY <2>2 DEF ProcessJob, TypeOK
  <2>3. CASE RetryJob(b)
    BY <2>3 DEF RetryJob, TypeOK
  <2> QED BY <1>5, <2>1, <2>2, <2>3 DEF Work
<1>6. CASE UNCHANGED vars
  BY <1>6 DEF vars, TypeOK
<1> QED BY <1>1, <1>2, <1>3, <1>4, <1>5, <1>6 DEF Next

-----------------------------------------------------------------------------
(* The shape of what is read, held and written *)

LEMMA InitShape == Init => Shape
BY DEF Init, Shape, Placed, OneHolder, Fresh, ReadHolds, Listed, Opened, Filled,
       HoldsSettlement, IsSettlement, IsBucket, Nothing

\* Neither a new day, nor the business, nor a job touches the rows.
LEMMA AsideKeepsShape ==
  ASSUME Shape, UNCHANGED <<collection, rows, status, queueing>>
  PROVE  Shape'
BY DEF Shape, Placed, OneHolder, Fresh, ReadHolds, Listed, Opened, Filled,
       HoldsSettlement, IsSettlement, IsBucket, StatusFor

\* The rows in hand of the cron are committed, and stay so.
LEMMA ListedStays ==
  ASSUME Listed, UNCHANGED queueing,
         \A b \in Payment : IsBucket(b) => IsBucket(b)',
         TypeOK
  PROVE  Listed'
BY DEF Listed, TypeOK

LEMMA BeginKeepsShape ==
  ASSUME TypeOK, Shape, NEW c \in Payment, NEW w \in Payment,
         NEW own \in Account \cup {None}, NEW apart \in BOOLEAN,
         Begin(c, w, own, apart)
  PROVE  Shape'
<1>1. /\ stage[c] = "none"
      /\ stage' = [stage EXCEPT ![c] = "begun"]
      /\ walletOf' = [walletOf EXCEPT ![c] = w]
      /\ terms' = [terms EXCEPT ![c] = TermsFor(own, apart, w)]
      /\ UNCHANGED <<settlementOf, seen, bucketOf, found, rows, status, queueing>>
  BY DEF Begin
<1>2. TermsFor(own, apart, w) \in Terms
  BY TermsAreTyped
<1>3. \A d \in Payment :
        /\ d # c => /\ stage'[d] = stage[d] /\ walletOf'[d] = walletOf[d]
                    /\ terms'[d] = terms[d]
        /\ d = c => /\ stage'[d] = "begun" /\ walletOf'[d] = w
                    /\ terms'[d] \in Terms
  BY <1>1, <1>2 DEF TypeOK
<1>4. \A d \in Payment :
        /\ IsSettlement(d)' <=> IsSettlement(d)
        /\ IsBucket(d)' <=> IsBucket(d)
  BY <1>1, <1>3 DEF IsSettlement, IsBucket
<1>5. Placed'
  BY <1>1, <1>3, <1>4 DEF Shape, Placed, Opened, Filled
<1>6. OneHolder'
  BY <1>1, <1>3 DEF Shape, OneHolder, HoldsSettlement
<1>7. Fresh'
  BY <1>1, <1>4 DEF Shape, Fresh
<1>8. ReadHolds'
  BY <1>1, <1>3 DEF Shape, ReadHolds, StatusFor
<1>9. Listed'
  BY <1>1, <1>4, ListedStays DEF Shape
<1> QED BY <1>5, <1>6, <1>7, <1>8, <1>9 DEF Shape

LEMMA OpenKeepsShape ==
  ASSUME TypeOK, Shape, NEW c \in Payment, NEW s \in Payment,
         OpenSettlement(c, s)
  PROVE  Shape'
<1>1. /\ stage[c] = "begun"
      /\ stage' = [stage EXCEPT ![c] = "opened"]
      /\ settlementOf' = [settlementOf EXCEPT ![c] = s]
      /\ seen' = [seen EXCEPT ![c] = IF s = c THEN Nothing ELSE settlement[s]]
      /\ UNCHANGED <<walletOf, terms, bucketOf, found, rows, status, queueing>>
  BY DEF OpenSettlement
<1>2. \A d \in Payment :
        /\ d # c => /\ stage'[d] = stage[d] /\ seen'[d] = seen[d]
                    /\ settlementOf'[d] = settlementOf[d]
        /\ d = c => /\ stage'[d] = "opened" /\ settlementOf'[d] = s
                    /\ seen'[d] = IF s = c THEN Nothing ELSE settlement[s]
  BY <1>1 DEF TypeOK
<1>3. s # c => IsSettlement(s) /\ \A d \in Payment : ~ HoldsSettlement(d, s)
  BY DEF OpenSettlement, SettlementsOfDay
<1>4. \A d \in Payment :
        /\ IsSettlement(d)' <=> IsSettlement(d)
        /\ IsBucket(d)' <=> IsBucket(d)
        /\ d = c => ~ IsSettlement(d) /\ ~ IsBucket(d)
  BY <1>1, <1>2 DEF IsSettlement, IsBucket
<1>5. \A d \in Payment : ~ HoldsSettlement(d, s)
  <2>1. ASSUME NEW d \in Payment, s = c, HoldsSettlement(d, s) PROVE FALSE
    <3>1. d # c
      BY <1>1, <2>1 DEF HoldsSettlement
    <3>2. IsSettlement(c)
      BY <2>1, <3>1 DEF Shape, Placed, Opened, HoldsSettlement
    <3> QED BY <1>4, <3>2
  <2> QED BY <1>3, <2>1
<1>6. Placed'
  BY <1>1, <1>2, <1>3, <1>4 DEF Shape, Placed, Opened, Filled, IsBucket
<1>7. OneHolder'
  BY <1>1, <1>2, <1>5 DEF Shape, OneHolder, HoldsSettlement
<1>8. Fresh'
  BY <1>1, <1>4 DEF Shape, Fresh
<1>9. ReadHolds'
  <2>1. settlement[c] = Nothing
    BY <1>4 DEF Shape, Fresh
  <2> QED BY <1>1, <1>2, <2>1 DEF Shape, ReadHolds, StatusFor
<1>10. Listed'
  BY <1>1, <1>4, ListedStays DEF Shape
<1> QED BY <1>6, <1>7, <1>8, <1>9, <1>10 DEF Shape

LEMMA FillKeepsShape ==
  ASSUME TypeOK, Shape, NEW c \in Payment, NEW b \in Payment,
         FillBucket(c, b)
  PROVE  Shape'
<1>1. /\ stage[c] = "opened"
      /\ stage' = [stage EXCEPT ![c] = "filled"]
      /\ bucketOf' = [bucketOf EXCEPT ![c] = b]
      /\ found' = [found EXCEPT ![c] = IF b = c THEN Nothing ELSE bucket[b]]
      /\ UNCHANGED <<walletOf, terms, settlementOf, seen, rows, status, queueing>>
  BY DEF FillBucket
<1>2. \A d \in Payment :
        /\ d # c => /\ stage'[d] = stage[d] /\ found'[d] = found[d]
                    /\ bucketOf'[d] = bucketOf[d]
        /\ d = c => /\ stage'[d] = "filled" /\ bucketOf'[d] = b
                    /\ found'[d] = IF b = c THEN Nothing ELSE bucket[b]
  BY <1>1 DEF TypeOK
<1>3. b # c => /\ IsBucket(b) /\ settlementOf[b] = settlementOf[c]
               /\ status[b] = StatusFor(c)
  BY DEF FillBucket, Buckets
<1>4. \A d \in Payment :
        /\ IsSettlement(d)' <=> IsSettlement(d)
        /\ IsBucket(d)' <=> IsBucket(d)
        /\ d = c => ~ IsSettlement(d) /\ ~ IsBucket(d)
  BY <1>1, <1>2 DEF IsSettlement, IsBucket
<1>5. Placed'
  BY <1>1, <1>2, <1>3, <1>4 DEF Shape, Placed, Opened, Filled
<1>6. OneHolder'
  BY <1>1, <1>2 DEF Shape, OneHolder, HoldsSettlement
<1>7. Fresh'
  BY <1>1, <1>4 DEF Shape, Fresh
<1>8. ReadHolds'
  <2>1. bucket[c] = Nothing
    BY <1>4 DEF Shape, Fresh
  <2> QED BY <1>1, <1>2, <1>3, <2>1 DEF Shape, ReadHolds, StatusFor
<1>9. Listed'
  BY <1>1, <1>4, ListedStays DEF Shape
<1> QED BY <1>5, <1>6, <1>7, <1>8, <1>9 DEF Shape

\* One settlement, one holder: so one bucket, one holder.
LEMMA OneBucketHolder ==
  ASSUME Shape, NEW c \in Payment, NEW d \in Payment,
         stage[c] = "filled", stage[d] = "filled", c # d
  PROVE  bucketOf[c] # bucketOf[d]
<1>1. SUFFICES ASSUME bucketOf[c] = bucketOf[d] PROVE FALSE
  OBVIOUS
<1>2. bucketOf[c] # c /\ bucketOf[d] # d
  BY <1>1 DEF Shape, Placed, Filled, IsBucket
<1>3. settlementOf[c] = settlementOf[d] /\ settlementOf[c] \in Payment
  BY <1>1, <1>2 DEF Shape, Placed, Filled, Opened
<1> QED BY <1>3 DEF Shape, OneHolder, HoldsSettlement

LEMMA CommitKeepsShape ==
  ASSUME TypeOK, Shape, NEW c \in Payment, Commit(c)
  PROVE  Shape'
<1> DEFINE s == settlementOf[c]
           b == bucketOf[c]
<1>1. /\ stage[c] = "filled"
      /\ stage' = [stage EXCEPT ![c] = "done"]
      /\ settlement' = [settlement EXCEPT ![s] = Grown(seen[c], c)]
      /\ bucket' = [bucket EXCEPT ![b] = Grown(found[c], c)]
      /\ status' = [status EXCEPT ![b] = StatusFor(c)]
      /\ UNCHANGED <<walletOf, terms, settlementOf, seen, bucketOf, found,
                     queueing>>
  BY DEF Commit
<1>2. /\ s \in Payment /\ (s # c => IsSettlement(s))
      /\ b \in Payment
      /\ b # c => IsBucket(b) /\ settlementOf[b] = s
  BY <1>1 DEF Shape, Placed, Opened, Filled
<1>3. \A d \in Payment :
        /\ d # c => stage'[d] = stage[d]
        /\ d = c => stage'[d] = "done"
        /\ d # s => settlement'[d] = settlement[d]
        /\ d # b => bucket'[d] = bucket[d] /\ status'[d] = status[d]
  BY <1>1 DEF TypeOK
<1>4. \A d \in Payment :
        /\ IsSettlement(d) => IsSettlement(d)'
        /\ IsBucket(d) => IsBucket(d)'
  BY <1>1, <1>3 DEF IsSettlement, IsBucket
<1>5. \A d \in Payment :
        /\ d = s => IsSettlement(d)'
        /\ d = b => IsBucket(d)'
  BY <1>1, <1>2, <1>3 DEF IsSettlement, IsBucket
<1>6. Placed'
  BY <1>1, <1>2, <1>3, <1>4 DEF Shape, Placed, Opened, Filled
<1>7. OneHolder'
  BY <1>1, <1>3 DEF Shape, OneHolder, HoldsSettlement
<1>8. Fresh'
  <2>1. ASSUME NEW d \in Payment, ~ IsSettlement(d)'
        PROVE  settlement'[d] = Nothing
    <3>0. IsSettlement(d) => IsSettlement(d)'
      BY <1>4
    <3>1. ~ IsSettlement(d)
      BY <2>1, <3>0
    <3>2. d # s
      BY <1>5, <2>1
    <3> QED BY <1>3, <3>1, <3>2 DEF Shape, Fresh
  <2>2. ASSUME NEW d \in Payment, ~ IsBucket(d)'
        PROVE  bucket'[d] = Nothing /\ status'[d] = "NONE"
    <3>0. IsBucket(d) => IsBucket(d)'
      BY <1>4
    <3>1. ~ IsBucket(d)
      BY <2>2, <3>0
    <3>2. d # b
      BY <1>5, <2>2
    <3> QED BY <1>3, <3>1, <3>2 DEF Shape, Fresh
  <2> HIDE DEF s, b
  <2> QED BY <2>1, <2>2 DEF Fresh
<1>9. ReadHolds'
  <2>1. ASSUME NEW d \in Payment, stage'[d] \in {"opened", "filled"}
        PROVE  seen'[d] = settlement'[settlementOf'[d]]
    <3>1. d # c /\ stage[d] \in {"opened", "filled"}
      BY <1>3, <2>1
    <3>2. settlementOf[d] \in Payment
      BY <3>1 DEF Shape, Placed, Opened
    <3>3. settlementOf[d] # s
      BY <1>1, <1>2, <3>1 DEF Shape, OneHolder, HoldsSettlement
    <3>4. seen[d] = settlement[settlementOf[d]]
      BY <3>1 DEF Shape, ReadHolds
    <3> QED BY <1>1, <1>3, <3>2, <3>3, <3>4
  <2>2. ASSUME NEW d \in Payment, stage'[d] = "filled"
        PROVE  /\ found'[d] = bucket'[bucketOf'[d]]
               /\ bucketOf'[d] # d => status'[bucketOf'[d]] = StatusFor(d)'
    <3>1. d # c /\ stage[d] = "filled"
      BY <1>3, <2>2
    <3>2. bucketOf[d] \in Payment
      BY <3>1 DEF Shape, Placed, Filled
    <3>3. bucketOf[d] # b
      BY <1>1, <3>1, OneBucketHolder
    <3>4. /\ found[d] = bucket[bucketOf[d]]
          /\ bucketOf[d] # d => status[bucketOf[d]] = StatusFor(d)
      BY <3>1 DEF Shape, ReadHolds
    <3>5. StatusFor(d)' = StatusFor(d)
      BY <1>1 DEF StatusFor
    <3> QED BY <1>1, <1>3, <3>2, <3>3, <3>4, <3>5
  <2> QED BY <2>1, <2>2 DEF ReadHolds
<1>10. Listed'
  BY <1>1, <1>4, ListedStays DEF Shape
<1> QED BY <1>6, <1>7, <1>8, <1>9, <1>10 DEF Shape

LEMMA RollbackKeepsShape ==
  ASSUME TypeOK, Shape, NEW c \in Payment, Rollback(c)
  PROVE  Shape'
<1>1. /\ stage[c] \in Underway
      /\ stage' = [stage EXCEPT ![c] = "none"]
      /\ walletOf' = [walletOf EXCEPT ![c] = None]
      /\ terms' = [terms EXCEPT ![c] = None]
      /\ settlementOf' = [settlementOf EXCEPT ![c] = None]
      /\ seen' = [seen EXCEPT ![c] = Nothing]
      /\ bucketOf' = [bucketOf EXCEPT ![c] = None]
      /\ found' = [found EXCEPT ![c] = Nothing]
      /\ UNCHANGED <<rows, status, queueing>>
  BY DEF Rollback
<1>2. \A d \in Payment :
        /\ d # c => /\ stage'[d] = stage[d] /\ walletOf'[d] = walletOf[d]
                    /\ terms'[d] = terms[d] /\ settlementOf'[d] = settlementOf[d]
                    /\ seen'[d] = seen[d] /\ bucketOf'[d] = bucketOf[d]
                    /\ found'[d] = found[d]
        /\ d = c => stage'[d] = "none"
  BY <1>1 DEF TypeOK
<1>3. \A d \in Payment :
        /\ IsSettlement(d)' <=> IsSettlement(d)
        /\ IsBucket(d)' <=> IsBucket(d)
        /\ d = c => ~ IsSettlement(d) /\ ~ IsBucket(d)
  BY <1>1, <1>2 DEF IsSettlement, IsBucket, Underway
<1>4. Placed'
  <2>1. ASSUME NEW d \in Payment, d # c
        PROVE  /\ stage'[d] # "none" =>
                    walletOf'[d] \in Payment /\ terms'[d] \in Terms
               /\ Opened(d)' =>
                    /\ settlementOf'[d] \in Payment
                    /\ settlementOf'[d] # d => IsSettlement(settlementOf[d])'
    BY <1>2, <1>3, <2>1 DEF Shape, Placed, Opened
  <2>2. ASSUME NEW d \in Payment, d # c, Filled(d)'
        PROVE  /\ bucketOf'[d] \in Payment
               /\ bucketOf'[d] # d =>
                    /\ IsBucket(bucketOf[d])'
                    /\ (settlementOf[bucketOf[d]])' = settlementOf'[d]
    BY <1>2, <1>3, <2>2 DEF Shape, Placed, Filled
  <2>3. ~ Opened(c)' /\ ~ Filled(c)' /\ stage'[c] = "none"
    BY <1>2 DEF Opened, Filled
  <2> QED BY <2>1, <2>2, <2>3 DEF Placed, Filled, Opened
<1>5. OneHolder'
  BY <1>2 DEF Shape, OneHolder, HoldsSettlement
<1>6. Fresh'
  BY <1>1, <1>3 DEF Shape, Fresh
<1>7. ReadHolds'
  BY <1>1, <1>2 DEF Shape, ReadHolds, StatusFor
<1>8. Listed'
  BY <1>1, <1>3, ListedStays DEF Shape
<1> QED BY <1>4, <1>5, <1>6, <1>7, <1>8 DEF Shape

LEMMA QueueKeepsShape ==
  ASSUME TypeOK, Shape, NEW v \in Cron, Queue(v)
  PROVE  Shape'
<1>0. ASSUME UNCHANGED <<collection, rows, status>>, Listed' PROVE Shape'
  BY <1>0 DEF Shape, Placed, OneHolder, Fresh, ReadHolds, Opened, Filled,
              HoldsSettlement, IsSettlement, IsBucket, StatusFor
<1>1. CASE BeginQueueing(v)
  <2>1. \A b \in Due : IsBucket(b)
    BY DEF Due
  <2>2. Listed'
    <3>1. \A u \in Cron : /\ due'[u] = IF u = v THEN Due ELSE due[u]
                          /\ marking'[u] = marking[u]
      BY <1>1 DEF BeginQueueing, TypeOK
    <3> QED BY <1>1, <2>1, <3>1 DEF BeginQueueing, Shape, Listed, IsBucket
  <2> QED BY <1>0, <1>1, <2>2 DEF BeginQueueing
<1>2. ASSUME NEW b \in Payment, AddJob(v, b) PROVE Shape'
  <2>1. Listed'
    <3>1. \A u \in Cron : /\ due'[u] = IF u = v THEN due[u] \ {b} ELSE due[u]
                          /\ marking'[u] = IF u = v THEN b ELSE marking[u]
      BY <1>2 DEF AddJob, TypeOK
    <3> QED BY <1>2, <3>1 DEF AddJob, Shape, Listed, IsBucket
  <2> QED BY <1>0, <1>2, <2>1 DEF AddJob
<1>3. ASSUME NEW b \in Payment, MarkQueued(v, b) PROVE Shape'
  <2>1. /\ marking[v] = b
        /\ \A d \in Payment : ~ HoldsBucket(d, b)
        /\ status' = [status EXCEPT ![b] = "QUEUED"]
        /\ marking' = [marking EXCEPT ![v] = None]
        /\ UNCHANGED <<collection, rows, due>>
    BY <1>3 DEF MarkQueued
  <2>2. IsBucket(b)
    BY <2>1, SettlementsAssumption DEF Shape, Listed
  <2>3. /\ Placed' /\ OneHolder'
    BY <2>1 DEF Shape, Placed, OneHolder, Opened, Filled, HoldsSettlement,
                IsSettlement, IsBucket
  <2>4. Fresh'
    BY <2>1, <2>2 DEF Shape, Fresh, IsSettlement, IsBucket, TypeOK
  <2>5. ReadHolds'
    <3>1. \A d \in Payment : d # b => status'[d] = status[d]
      BY <2>1 DEF TypeOK
    <3>2. \A d \in Payment : stage[d] = "filled" =>
            bucketOf[d] \in Payment /\ bucketOf[d] # b
      BY <2>1 DEF HoldsBucket, Shape, Placed, Filled
    <3> QED BY <2>1, <3>1, <3>2 DEF Shape, ReadHolds, StatusFor
  <2>6. Listed'
    <3>1. \A u \in Cron : marking'[u] = IF u = v THEN None ELSE marking[u]
      BY <2>1 DEF TypeOK
    <3> QED BY <2>1, <3>1 DEF Shape, Listed, IsBucket
  <2> QED BY <2>3, <2>4, <2>5, <2>6 DEF Shape
<1>4. CASE StopQueueing(v)
  <2>1. Listed'
    <3>1. \A u \in Cron : /\ due'[u] = IF u = v THEN {} ELSE due[u]
                          /\ marking'[u] = IF u = v THEN None ELSE marking[u]
      BY <1>4 DEF StopQueueing, TypeOK
    <3> QED BY <1>4, <3>1 DEF StopQueueing, Shape, Listed, IsBucket
  <2> QED BY <1>0, <1>4, <2>1 DEF StopQueueing
<1> QED BY <1>1, <1>2, <1>3, <1>4 DEF Queue

LEMMA StepShape ==
  ASSUME TypeOK, Shape, [Next]_vars
  PROVE  Shape'
<1>1. CASE NextDay
  BY <1>1, AsideKeepsShape DEF NextDay
<1>2. CASE Configure
  BY <1>2, AsideKeepsShape DEF Configure, SetConfig, AddAccount, RemoveAccount
<1>3. ASSUME NEW c \in Payment, Collect(c) PROVE Shape'
  BY <1>3, BeginKeepsShape, OpenKeepsShape, FillKeepsShape, CommitKeepsShape,
     RollbackKeepsShape DEF Collect
<1>4. ASSUME NEW v \in Cron, Queue(v) PROVE Shape'
  BY <1>4, QueueKeepsShape
<1>5. ASSUME NEW b \in Payment, Work(b) PROVE Shape'
  BY <1>5, AsideKeepsShape DEF Work, StartJob, ProcessJob, RetryJob
<1>6. CASE UNCHANGED vars
  BY <1>6, AsideKeepsShape DEF vars
<1> QED BY <1>1, <1>2, <1>3, <1>4, <1>5, <1>6 DEF Next

-----------------------------------------------------------------------------
(* The books *)

LEMMA ShareIsNat == ASSUME NEW c \in Payment PROVE Amount[c] \in Nat
BY SettlementsAssumption

\* Putting c in a set adds what c brings.
LEMMA BroughtWith ==
  ASSUME NEW S \in SUBSET Payment, NEW c \in Payment, c \notin S
  PROVE  Brought(S \cup {c}) = Brought(S) + Amount[c]
<1> DEFINE T == S \cup {c}
<1>1. IsFiniteSet(T) /\ IsFiniteSet(S)
  BY SettlementsAssumption, FS_Subset
<1>2. /\ \A x \in T : Amount[x] \in Int
      /\ \A x \in S : Amount[x] \in Int
  BY ShareIsNat
<1>3. T \ {c} = S /\ c \in T
  OBVIOUS
<1> HIDE DEF T
<1>4. SumFunctionOnSet(Amount, T) = Amount[c] + SumFunctionOnSet(Amount, T \ {c})
  BY <1>1, <1>2, <1>3, SumWithout
<1>5. SumFunctionOnSet(Amount, S) \in Int
  BY <1>1, <1>2, SumIsInt
<1>6. Brought(T) = Amount[c] + Brought(S)
  BY <1>3, <1>4 DEF Brought
<1>7. Brought(S) \in Int /\ Amount[c] \in Int
  BY <1>2, <1>3, <1>5 DEF Brought
<1> QED BY <1>6, <1>7 DEF T

\* A sum over the buckets of a settlement grows with one of them, or with a new
\* one.
LEMMA SumGrows ==
  ASSUME NEW f \in [Payment -> Nat], NEW g \in [Payment -> Nat],
         NEW S \in SUBSET Payment, NEW T \in SUBSET Payment,
         NEW b \in Payment, NEW n \in Nat,
         T = S \cup {b},
         b \notin S => f[b] = 0,
         g[b] = f[b] + n,
         \A x \in Payment : x # b => g[x] = f[x]
  PROVE  SumFunctionOnSet(g, T) = SumFunctionOnSet(f, S) + n
<1>1. IsFiniteSet(T) /\ IsFiniteSet(S)
  BY SettlementsAssumption, FS_Subset
<1>2. /\ \A x \in T : f[x] \in Int /\ g[x] \in Int
      /\ \A x \in S : f[x] \in Int
  OBVIOUS
<1>3. SumFunctionOnSet(g, T) = SumFunctionOnSet(f, T) + (g[b] - f[b])
  BY <1>1, <1>2, SumChanged
<1>4. SumFunctionOnSet(f, T) = SumFunctionOnSet(f, S)
  <2>1. CASE b \in S
    BY <2>1
  <2>2. CASE b \notin S
    <3>1. T \ {b} = S
      BY <2>2
    <3>2. SumFunctionOnSet(f, T) = f[b] + SumFunctionOnSet(f, T \ {b})
      BY <1>1, <1>2, SumWithout
    <3>3. SumFunctionOnSet(f, S) \in Int
      BY <1>1, <1>2, SumIsInt
    <3> QED BY <2>2, <3>1, <3>2, <3>3
  <2> QED BY <2>1, <2>2
<1>5. SumFunctionOnSet(f, S) \in Int
  BY <1>1, <1>2, SumIsInt
<1> QED BY <1>3, <1>4, <1>5

LEMMA InitBooks == Init => BooksAgree
<1> SUFFICES ASSUME Init PROVE BooksAgree
  OBVIOUS
<1>1. Committed = {}
  BY DEF Init, Committed
<1>2. /\ \A b \in Payment : Within(b) = {}
      /\ \A s \in Payment : Children(s) = {}
  BY <1>1 DEF Within, Children, IsBucket, Committed
<1>3. \A b \in Payment : {c \in Within(b) : terms[c].now} = {}
  BY <1>2
<1>4. \A b \in Payment : bucket[b] = Nothing /\ settlement[b] = Nothing
  BY DEF Init
<1>5. \A b \in Payment : Brought(Within(b)) = 0 /\ BroughtNow(Within(b)) = 0
  BY <1>2, <1>3, SumOfNone DEF Brought, BroughtNow
<1> QED BY <1>2, <1>4, <1>5, SumOfNone DEF BooksAgree, Nothing

LEMMA BooksKept ==
  ASSUME BooksAgree,
         UNCHANGED <<settlement, bucket>>,
         \A c \in Payment : stage'[c] = "done" <=> stage[c] = "done",
         \A c \in Payment : stage[c] = "done" =>
            /\ bucketOf'[c] = bucketOf[c]
            /\ settlementOf'[c] = settlementOf[c]
            /\ terms'[c] = terms[c]
  PROVE  BooksAgree'
<1>1. \A b \in Payment : Within(b)' = Within(b)
  BY DEF Within, Committed
<1>2. \A b \in Payment :
        {c \in Within(b)' : terms'[c].now} = {c \in Within(b) : terms[c].now}
  BY <1>1 DEF Within, Committed
<1>3. \A s \in Payment : Children(s)' = Children(s)
  BY DEF Children, IsBucket
<1>4. \A b \in Payment : /\ Brought(Within(b))' = Brought(Within(b))
                         /\ BroughtNow(Within(b))' = BroughtNow(Within(b))
  BY <1>1, <1>2 DEF Brought, BroughtNow
<1> QED BY <1>3, <1>4 DEF BooksAgree

LEMMA CommitKeepsBooks ==
  ASSUME TypeOK, Shape, BooksAgree, NEW c \in Payment, Commit(c)
  PROVE  BooksAgree'
<1> DEFINE s == settlementOf[c]
           b == bucketOf[c]
           n == Amount[c]
           m == IF terms[c].now THEN Amount[c] ELSE 0
<1>1. /\ stage[c] = "filled"
      /\ stage' = [stage EXCEPT ![c] = "done"]
      /\ settlement' = [settlement EXCEPT ![s] = Grown(seen[c], c)]
      /\ bucket' = [bucket EXCEPT ![b] = Grown(found[c], c)]
      /\ UNCHANGED <<terms, settlementOf, bucketOf>>
  BY DEF Commit
<1>2. /\ s \in Payment /\ b \in Payment
      /\ b # c => IsBucket(b) /\ settlementOf[b] = s
      /\ b = c => bucket[b] = Nothing
  BY <1>1 DEF Shape, Placed, Opened, Filled, Fresh, IsBucket
<1>3. seen[c] = settlement[s] /\ found[c] = bucket[b]
  BY <1>1 DEF Shape, ReadHolds
<1>4. n \in Nat /\ m \in Nat
  BY ShareIsNat
<1>5. \A x \in Payment :
        /\ bucket[x].expected \in Nat /\ bucket[x].settled \in Nat
        /\ bucket'[x].expected = bucket[x].expected + IF x = b THEN n ELSE 0
        /\ bucket'[x].settled = bucket[x].settled + IF x = b THEN m ELSE 0
        /\ settlement[x].expected \in Nat /\ settlement[x].settled \in Nat
        /\ settlement'[x].expected = settlement[x].expected + IF x = s THEN n ELSE 0
        /\ settlement'[x].settled = settlement[x].settled + IF x = s THEN m ELSE 0
  <2>1. \A x \in Payment : bucket[x] \in Totals /\ settlement[x] \in Totals
    BY DEF TypeOK
  <2>2. \A x \in Payment :
          /\ bucket'[x] = IF x = b THEN Grown(bucket[b], c) ELSE bucket[x]
          /\ settlement'[x] = IF x = s THEN Grown(settlement[s], c)
                              ELSE settlement[x]
    BY <1>1, <1>2, <1>3 DEF TypeOK
  <2> QED BY <1>4, <2>1, <2>2 DEF Grown, Totals
<1>6. Committed' = Committed \cup {c} /\ c \notin Committed
  BY <1>1 DEF Committed, TypeOK
<1>7. \A x \in Payment : Within(x)' = IF x = b THEN Within(x) \cup {c} ELSE Within(x)
  BY <1>1, <1>6 DEF Within
<1>8. \A x \in Payment : Children(x)' = IF x = s THEN Children(x) \cup {b}
                                        ELSE Children(x)
  <2>1. \A y \in Payment : IsBucket(y)' <=> IsBucket(y) \/ (y = c /\ b = c)
    BY <1>1 DEF IsBucket, TypeOK
  <2> QED BY <1>1, <1>2, <2>1 DEF Children
<1>9. \A x \in Payment :
        /\ Brought(Within(x))' = bucket'[x].expected
        /\ BroughtNow(Within(x))' = bucket'[x].settled
  <2> SUFFICES ASSUME NEW x \in Payment
               PROVE  /\ Brought(Within(x)') = bucket'[x].expected
                      /\ Brought({d \in Within(x)' : terms[d].now}) =
                            bucket'[x].settled
    BY <1>1 DEF Brought, BroughtNow
  <2>1. /\ bucket[x].expected = Brought(Within(x))
        /\ bucket[x].settled = Brought({d \in Within(x) : terms[d].now})
    BY DEF BooksAgree, BroughtNow
  <2>2. CASE x # b
    <3>1. Within(x)' = Within(x)
      BY <1>7, <2>2
    <3>2. {d \in Within(x)' : terms[d].now} = {d \in Within(x) : terms[d].now}
      BY <3>1
    <3>3. /\ bucket'[x].expected = bucket[x].expected
          /\ bucket'[x].settled = bucket[x].settled
      BY <1>5, <2>2
    <3> QED BY <2>1, <3>1, <3>2, <3>3
  <2>3. CASE x = b
    <3>1. Within(x)' = Within(x) \cup {c}
      BY <1>7, <2>3
    <3>2. Within(x) \in SUBSET Payment /\ c \notin Within(x)
      BY <1>6 DEF Within, Committed
    <3>3. Brought(Within(x)') = Brought(Within(x)) + n
      BY <3>1, <3>2, BroughtWith
    <3>4. Brought({d \in Within(x)' : terms[d].now}) =
            Brought({d \in Within(x) : terms[d].now}) + m
      <4>1. CASE terms[c].now
        <5>1. {d \in Within(x)' : terms[d].now} =
                {d \in Within(x) : terms[d].now} \cup {c}
          BY <3>1, <4>1
        <5> QED BY <3>2, <4>1, <5>1, BroughtWith
      <4>2. CASE ~ terms[c].now
        <5>1. {d \in Within(x)' : terms[d].now} =
                {d \in Within(x) : terms[d].now}
          BY <3>1, <4>2
        <5>2. m = 0 /\ bucket[x].settled \in Nat
          BY <1>5, <4>2
        <5>3. Brought({d \in Within(x)' : terms[d].now}) =
                Brought({d \in Within(x) : terms[d].now})
          BY <5>1
        <5> HIDE DEF m
        <5> QED BY <2>1, <5>2, <5>3
      <4> QED BY <4>1, <4>2
    <3> QED BY <1>5, <2>1, <2>3, <3>3, <3>4
  <2> QED BY <2>2, <2>3
<1>10. ASSUME NEW x \in Payment
       PROVE  /\ settlement'[x].expected =
                   SumFunctionOnSet([y \in Payment |-> bucket'[y].expected],
                                    Children(x)')
              /\ settlement'[x].settled =
                   SumFunctionOnSet([y \in Payment |-> bucket'[y].settled],
                                    Children(x)')
  <2> DEFINE e == [y \in Payment |-> bucket[y].expected]
             f == [y \in Payment |-> bucket'[y].expected]
             g == [y \in Payment |-> bucket[y].settled]
             h == [y \in Payment |-> bucket'[y].settled]
             S == Children(x)
             T == Children(x)'
  <2>1. /\ settlement[x].expected = SumFunctionOnSet(e, S)
        /\ settlement[x].settled = SumFunctionOnSet(g, S)
    BY DEF BooksAgree
  <2>2. /\ e \in [Payment -> Nat] /\ f \in [Payment -> Nat]
        /\ g \in [Payment -> Nat] /\ h \in [Payment -> Nat]
        /\ \A y \in Payment : y # b => f[y] = e[y] /\ h[y] = g[y]
        /\ f[b] = e[b] + n /\ h[b] = g[b] + m
    BY <1>2, <1>4, <1>5
  <2>3. S \in SUBSET Payment /\ T \in SUBSET Payment
    BY <1>2, <1>8 DEF Children
  <2>4. IsFiniteSet(S)
    BY <2>3, SettlementsAssumption, FS_Subset
  <2>5. CASE x # s
    <3>1. T = S
      BY <1>8, <2>5
    <3>2. b \notin S
      BY <1>2, <1>1, <2>5 DEF Children, IsBucket
    <3>3. /\ \A y \in S : f[y] = e[y]
          /\ \A y \in S : h[y] = g[y]
      BY <2>2, <2>3, <3>2
    <3> HIDE DEF e, f, g, h, S, T
    <3>4. /\ SumFunctionOnSet(f, T) = SumFunctionOnSet(e, S)
          /\ SumFunctionOnSet(h, T) = SumFunctionOnSet(g, S)
      BY <2>4, <3>1, <3>3, SumAlike
    <3>5. /\ settlement'[x].expected = SumFunctionOnSet(f, T)
          /\ settlement'[x].settled = SumFunctionOnSet(h, T)
      BY <1>5, <2>1, <2>5, <3>4
    <3> QED BY <3>5 DEF f, h, T
  <2>6. CASE x = s
    <3>1. T = S \cup {b}
      BY <1>8, <2>6
    <3>2. b \notin S => e[b] = 0 /\ g[b] = 0
      BY <1>2, <2>6 DEF Children, Nothing
    <3> HIDE DEF e, f, g, h, S, T
    <3>3. SumFunctionOnSet(f, T) = SumFunctionOnSet(e, S) + n
      <4>1. /\ f[b] = e[b] + n
            /\ \A y \in Payment : y # b => f[y] = e[y]
            /\ e \in [Payment -> Nat] /\ f \in [Payment -> Nat]
        BY <2>2
      <4>2. n \in Nat /\ b \in Payment
        BY <1>2, <1>4
      <4>3. b \notin S => e[b] = 0
        BY <3>2
      <4> HIDE DEF b, n
      <4> QED BY <2>3, <3>1, <4>1, <4>2, <4>3, SumGrows
    <3>4. SumFunctionOnSet(h, T) = SumFunctionOnSet(g, S) + m
      <4>1. /\ h[b] = g[b] + m
            /\ \A y \in Payment : y # b => h[y] = g[y]
            /\ g \in [Payment -> Nat] /\ h \in [Payment -> Nat]
        BY <2>2
      <4>2. m \in Nat /\ b \in Payment
        BY <1>2, <1>4
      <4>3. b \notin S => g[b] = 0
        BY <3>2
      <4> HIDE DEF b, m
      <4> QED BY <2>3, <3>1, <4>1, <4>2, <4>3, SumGrows
    <3>5. /\ settlement'[x].expected = SumFunctionOnSet(f, T)
          /\ settlement'[x].settled = SumFunctionOnSet(h, T)
      BY <1>5, <2>1, <2>6, <3>3, <3>4
    <3> QED BY <3>5 DEF f, h, T
  <2> QED BY <2>5, <2>6
<1> QED BY <1>9, <1>10 DEF BooksAgree

LEMMA StepBooks ==
  ASSUME TypeOK, Shape, BooksAgree, [Next]_vars
  PROVE  BooksAgree'
<1>1. CASE NextDay
  BY <1>1, BooksKept DEF NextDay
<1>2. CASE Configure
  BY <1>2, BooksKept DEF Configure, SetConfig, AddAccount, RemoveAccount
<1>3. ASSUME NEW c \in Payment, Collect(c) PROVE BooksAgree'
  <2>1. ASSUME NEW w \in Payment, NEW own \in Account \cup {None},
               NEW apart \in BOOLEAN, Begin(c, w, own, apart)
        PROVE  BooksAgree'
    BY <2>1, BooksKept DEF Begin, TypeOK
  <2>2. ASSUME NEW s \in Payment, OpenSettlement(c, s) PROVE BooksAgree'
    BY <2>2, BooksKept DEF OpenSettlement, TypeOK
  <2>3. ASSUME NEW b \in Payment, FillBucket(c, b) PROVE BooksAgree'
    BY <2>3, BooksKept DEF FillBucket, TypeOK
  <2>4. CASE Commit(c)
    BY <2>4, CommitKeepsBooks
  <2>5. CASE Rollback(c)
    BY <2>5, BooksKept DEF Rollback, TypeOK, Underway
  <2> QED BY <1>3, <2>1, <2>2, <2>3, <2>4, <2>5 DEF Collect
<1>4. ASSUME NEW v \in Cron, Queue(v) PROVE BooksAgree'
  BY <1>4, BooksKept DEF Queue, BeginQueueing, AddJob, MarkQueued, StopQueueing
<1>5. ASSUME NEW b \in Payment, Work(b) PROVE BooksAgree'
  BY <1>5, BooksKept DEF Work, StartJob, ProcessJob, RetryJob
<1>6. CASE UNCHANGED vars
  BY <1>6, BooksKept DEF vars
<1> QED BY <1>1, <1>2, <1>3, <1>4, <1>5, <1>6 DEF Next

-----------------------------------------------------------------------------
(* A bucket that is queued *)

LEMMA StepKeepsQueued ==
  ASSUME TypeOK, Shape, [Next]_vars, NEW b \in Payment, status[b] = "QUEUED"
  PROVE  status'[b] = "QUEUED" /\ bucket'[b] = bucket[b]
<1>1. CASE NextDay
  BY <1>1 DEF NextDay
<1>2. CASE Configure
  BY <1>2 DEF Configure, SetConfig, AddAccount, RemoveAccount
<1>3. ASSUME NEW c \in Payment, Collect(c)
      PROVE  status'[b] = "QUEUED" /\ bucket'[b] = bucket[b]
  <2>1. CASE UNCHANGED <<rows, status>>
    BY <2>1
  <2>2. CASE Commit(c)
    <3>1. /\ stage[c] = "filled"
          /\ bucket' = [bucket EXCEPT ![bucketOf[c]] = Grown(found[c], c)]
          /\ status' = [status EXCEPT ![bucketOf[c]] = StatusFor(c)]
      BY <2>2 DEF Commit
    <3>2. bucketOf[c] # c => status[bucketOf[c]] # "QUEUED"
      BY <3>1 DEF Shape, ReadHolds, StatusFor
    <3>3. bucketOf[c] = c => status[c] = "NONE"
      BY <3>1 DEF Shape, Fresh, IsBucket
    <3>4. b # bucketOf[c]
      BY <3>2, <3>3
    <3> QED BY <3>1, <3>4 DEF TypeOK
  <2> QED BY <1>3, <2>1, <2>2 DEF Collect, Begin, OpenSettlement, FillBucket,
                                  Rollback
<1>4. ASSUME NEW v \in Cron, Queue(v)
      PROVE  status'[b] = "QUEUED" /\ bucket'[b] = bucket[b]
  BY <1>4 DEF Queue, BeginQueueing, AddJob, MarkQueued, StopQueueing, TypeOK
<1>5. ASSUME NEW d \in Payment, Work(d)
      PROVE  status'[b] = "QUEUED" /\ bucket'[b] = bucket[b]
  BY <1>5 DEF Work, StartJob, ProcessJob, RetryJob
<1>6. CASE UNCHANGED vars
  BY <1>6 DEF vars
<1> QED BY <1>1, <1>2, <1>3, <1>4, <1>5, <1>6 DEF Next

-----------------------------------------------------------------------------
(* Theorems *)

\* The inductive invariant: what an open collection has read stays what is
\* there, because the row it read is its own or locked by it alone.
THEOREM SettlementsInvariant == Spec => []SettlementsInv
<1>1. Init => SettlementsInv
  BY InitTypes, InitShape, InitBooks DEF SettlementsInv
<1>2. SettlementsInv /\ [Next]_vars => SettlementsInv'
  BY StepTypes, StepShape, StepBooks DEF SettlementsInv, Shape
<1> QED BY <1>1, <1>2, PTL DEF Spec

\* Every variable of Settlements keeps its type.
THEOREM TypeCorrect == Spec => []TypeOK
<1>1. SettlementsInv => TypeOK
  BY DEF SettlementsInv
<1> QED BY <1>1, SettlementsInvariant, PTL

\* No collection is lost from the totals of its bucket and its settlement,
\* however many overlap, with or without a wallet row to lock.
THEOREM BooksAlwaysAgree == Spec => []BooksAgree
<1>1. SettlementsInv => BooksAgree
  BY DEF SettlementsInv
<1> QED BY <1>1, SettlementsInvariant, PTL

\* A bucket that is marked as queued does not change again, whatever
\* collections were about to join it and however many runs of the cron marked
\* it.
THEOREM QueuedStaysFinal == Spec => QueuedIsFinal
<1>1. SettlementsInv /\ [Next]_vars =>
        [\A b \in Payment : status[b] = "QUEUED" =>
            status'[b] = "QUEUED" /\ bucket'[b] = bucket[b]]_vars
  BY StepKeepsQueued DEF SettlementsInv
<1> QED BY <1>1, SettlementsInvariant, PTL DEF Spec, QueuedIsFinal
=============================================================================
