----------------------------- MODULE PartsProofs -----------------------------
(***************************************************************************)
(* Theorems about the parts of the system that do not interact with each   *)
(* other: invoices and their fees, sweeps, the token of the provider,      *)
(* onboarding, and accounts with their tokens; and the types of all parts  *)
(* as MCServices puts them side by side.                                   *)
(***************************************************************************)
EXTENDS MCServices, CheckoutProofs, Sums, SequenceTheorems, TLAPS

(***************************************************************************)
(* InvoiceFees and Invoices                                                *)
(***************************************************************************)

(* The fee of an invoice *)

\* A fee is a natural number, whatever the configuration.
LEMMA FeeIsNat ==
    ASSUME NEW config \in FeeConfig, NEW a \in Nat
    PROVE  CalculateFee(config, a) \in Nat
  <1> DEFINE top == a * config.rate + config.scale - 1
  <1>1. /\ config.useFlatFee \in BOOLEAN
        /\ config.flatFee \in Nat /\ config.rate \in Nat
        /\ config.scale \in Nat \ {0} /\ config.cap \in Nat
    BY InvoiceFeesAssumption
  <1>2. a * config.rate \in Nat
    BY <1>1
  <1>3. top \in Nat
    BY <1>1, <1>2
  <1>4. top \div config.scale \in Nat
    <2> HIDE DEF top
    <2> QED BY <1>1, <1>3
  <1> QED BY <1>1, <1>4 DEF CalculateFee

\* What was paid is the invoice, and the fee that travels with a charge.
FeesInv ==
    /\ InvoiceFeesTypeOK
    /\ paid # NoFee =>
        /\ chargeFee /\ method # Transfer =>
              feeCharged \in Nat /\ paid = amount + feeCharged
        /\ ~chargeFee => paid = amount
    /\ settled # NoFee => paid # NoFee
    /\ FeeBorneOnce

LEMMA FeesInitially == InvoiceFeesInit => FeesInv
  BY InvoiceFeesAssumption DEF InvoiceFeesInit, FeesInv, InvoiceFeesTypeOK,
         FeeBorneOnce

LEMMA FeesStep == FeesInv /\ [InvoiceFeesNext]_invoiceFees => FeesInv'
  <1> SUFFICES ASSUME FeesInv, [InvoiceFeesNext]_invoiceFees PROVE FeesInv'
    OBVIOUS
  <1> USE InvoiceFeesAssumption
  <1>0. /\ amount \in Nat
        /\ \A m \in Method, a \in Nat : platform[m] # NoFee => ChargedFee(m, a) \in Nat
    BY FeeIsNat DEF FeesInv, InvoiceFeesTypeOK, ChargedFee
  <1>1. CASE ChangeFees
    BY <1>1 DEF FeesInv, InvoiceFeesTypeOK, FeeBorneOnce, ChangeFees, payment
  <1>2. ASSUME NEW m \in Method, PreviewFee(m) PROVE FeesInv'
    <2>1. Total(m) \in Nat
      BY <1>0, <1>2 DEF PreviewFee, IsPriced, Total, Fee, FeesInv,
             InvoiceFeesTypeOK
    <2> QED
      BY <1>2, <2>1 DEF PreviewFee, FeesInv, InvoiceFeesTypeOK, FeeBorneOnce,
             configs
  <1>3. CASE Initiate
    <2>1. chargeFee => Fee(method) \in Nat
      BY <1>0, <1>3 DEF Initiate, InitiateTransfer, InitiateCharge, Pay,
             IsPriced, Fee, FeesInv, InvoiceFeesTypeOK
    <2>2. /\ chargeFee => Total(method) = amount + Fee(method)
          /\ ~chargeFee => Total(method) = amount
      BY <1>0 DEF Total, Fee
    <2>3. Total(method) \in Nat
      BY <1>0, <2>1, <2>2 DEF FeesInv, InvoiceFeesTypeOK
    <2>4. settled = NoFee
      BY <1>3 DEF Initiate, InitiateTransfer, InitiateCharge, Pay, FeesInv
    <2> QED
      BY <1>3, <2>1, <2>2, <2>3, <2>4 DEF Initiate, InitiateTransfer,
             InitiateCharge, Pay, FeesInv, InvoiceFeesTypeOK, FeeBorneOnce,
             configs
  <1>4. CASE Settle
    <2> DEFINE charged     == FeeBySource(method, paid, feeCharged)
               providerFee == CalculateFee(provider[method], paid)
    <2>1. /\ paid \in Nat
          /\ settled' = [netAmount |-> paid - charged, chargedFee |-> charged,
                         platformRevenue |-> charged - providerFee]
          /\ charged <= paid
          /\ UNCHANGED <<amount, configs, payment>>
      BY <1>4 DEF Settle, FeeRow, FeesInv, InvoiceFeesTypeOK
    <2>2. charged \in Nat /\ (feeCharged # NoFee => charged = feeCharged)
      BY <1>0, <1>4, <2>1 DEF Settle, FeesInv, InvoiceFeesTypeOK, FeeBySource
    <2>3. providerFee \in Nat
      BY <2>1, FeeIsNat DEF FeesInv, InvoiceFeesTypeOK
    <2> HIDE DEF charged, providerFee
    <2>4. /\ settled'.netAmount = paid - charged
          /\ settled'.chargedFee = charged
      BY <2>1
    <2>5. settled' \in Settled
      BY <2>1, <2>2, <2>3 DEF Settled
    <2>6. InvoiceFeesTypeOK'
      BY <2>1, <2>5 DEF FeesInv, InvoiceFeesTypeOK, configs, payment
    <2>7. /\ chargeFee /\ method # Transfer =>
                feeCharged \in Nat /\ paid = amount + feeCharged
          /\ ~chargeFee => paid = amount
      BY <2>1 DEF FeesInv
    <2>8. /\ paid = settled'.netAmount + settled'.chargedFee
          /\ chargeFee /\ method # Transfer => settled'.netAmount = amount
      BY <1>0, <2>1, <2>2, <2>4, <2>7
    <2> QED
      BY <2>1, <2>6, <2>7, <2>8 DEF FeesInv, FeeBorneOnce, configs, payment
  <1>5. CASE UNCHANGED invoiceFees
    BY <1>5 DEF FeesInv, InvoiceFeesTypeOK, FeeBorneOnce, invoiceFees,
           configs, payment
  <1> QED BY <1>1, <1>2, <1>3, <1>4, <1>5 DEF InvoiceFeesNext

\* However fee configurations change between preview, payment and settlement,
\* the fee of an invoice is borne exactly once, for every set of
\* configurations, methods and amounts.
THEOREM FeeIsBorneOnce == InvoiceFeesSpec => []FeeBorneOnce
  <1>1. FeesInv => FeeBorneOnce
    BY DEF FeesInv
  <1> QED BY <1>1, FeesInitially, FeesStep, PTL DEF InvoiceFeesSpec

-----------------------------------------------------------------------------
(* The rows of invoices *)

\* A row that is appended leaves the others as they are.
LEMMA AppendedRow ==
    ASSUME NEW S, NEW rws \in Seq(S), NEW new
    PROVE  /\ Append(rws, new) \in Seq(S \cup {new})
           /\ Len(rws) \in Nat
           /\ Len(Append(rws, new)) = Len(rws) + 1
           /\ DOMAIN rws = 1..Len(rws)
           /\ DOMAIN Append(rws, new) = 1..(Len(rws) + 1)
           /\ Append(rws, new)[Len(rws) + 1] = new
           /\ \A i \in DOMAIN rws : Append(rws, new)[i] = rws[i]
  <1>1. rws \in Seq(S \cup {new})
    BY SeqMonotonic, IsASeq, LenProperties
  <1>2. new \in S \cup {new}
    OBVIOUS
  <1> QED BY <1>1, <1>2, AppendProperties, LenProperties

NewRow(c) ==
    [merchantReference |-> AskOf[c].merchantReference,
     amount |-> priced[c].amount, baseAmount |-> priced[c].baseAmount,
     taxRow |-> TaxRowOf(c)]

\* A step appends one row to the invoices or leaves them alone.
LEMMA RowsOnlyGrow ==
    ASSUME [InvoicesNext]_invoicing
    PROVE  \/ UNCHANGED invoices
           \/ \E c \in Creator :
                CommitInvoice(c) /\ invoices' = Append(invoices, NewRow(c))
  <1>1. CASE Change
    BY <1>1 DEF Change
  <1>2. ASSUME NEW c \in Creator, Create(c)
        PROVE  UNCHANGED invoices \/ CommitInvoice(c)
    BY <1>2 DEF Create, LoadForInvoice, ResolveInvoiceItem, FindExisting,
           MissExisting, ReadTax, CommitRefused, CollideAndRetry,
           AnnounceInvoice, EndCreate, AnswerWith
  <1>3. ASSUME NEW c \in Creator, CommitInvoice(c)
        PROVE  invoices' = Append(invoices, NewRow(c))
    BY <1>3 DEF CommitInvoice, NewRow
  <1>4. CASE UNCHANGED invoicing
    BY <1>4 DEF invoicing
  <1> QED BY <1>1, <1>2, <1>3, <1>4 DEF InvoicesNext

\* Rows are a sequence, and answers name rows.
InvoicesAreASeq == \E S : invoices \in Seq(S)

Step == {"new", "loaded", "priced", "missed", "assessed", "created", "answered",
         "refused"}

RowsTyped ==
    /\ InvoicesAreASeq
    /\ Len(invoices) \in Nat
    /\ DOMAIN invoices = 1..Len(invoices)
    /\ got \in [Creator -> Nat]
    /\ step \in [Creator -> Step]
    /\ \A c \in Creator : got[c] \in 0..Len(invoices)
    /\ announced \subseteq Creator \X DOMAIN invoices

UniqueReferences ==
    \A i, j \in DOMAIN invoices :
        /\ invoices[i].merchantReference = invoices[j].merchantReference
        /\ invoices[i].merchantReference # None
        => i = j

AnswersMatch ==
    \A c \in Creator :
        got[c] > 0 =>
            invoices[got[c]].merchantReference = AskOf[c].merchantReference

\* A created invoice that was not announced yet belongs to one request.
NotYetAnnounced ==
    \A c \in Creator : step[c] = "created" =>
        /\ got[c] > 0
        /\ \A a \in announced : a[2] # got[c]
        /\ \A d \in Creator : step[d] = "created" /\ got[d] = got[c] => d = c

AnnouncedOnce == \A a, b \in announced : a[2] = b[2] => a = b

InvoicesInv ==
    /\ RowsTyped
    /\ UniqueReferences
    /\ AnswersMatch
    /\ NotYetAnnounced
    /\ AnnouncedOnce

LEMMA InvoicesInitially == InvoicesInit => InvoicesInv
  <1> SUFFICES ASSUME InvoicesInit PROVE InvoicesInv
    OBVIOUS
  <1>1. invoices \in Seq({}) /\ Len(invoices) = 0 /\ DOMAIN invoices = {}
    BY DEF InvoicesInit
  <1>2. InvoicesAreASeq
    BY <1>1 DEF InvoicesAreASeq
  <1>3. RowsTyped
    BY <1>1, <1>2 DEF InvoicesInit, RowsTyped, Step
  <1> QED
    BY <1>1, <1>3 DEF InvoicesInit, InvoicesInv, UniqueReferences,
           AnswersMatch, NotYetAnnounced, AnnouncedOnce

\* The request that commits is the only one with the new row.
LEMMA CommitKeeps ==
    ASSUME InvoicesInv, NEW c \in Creator, CommitInvoice(c),
           invoices' = Append(invoices, NewRow(c))
    PROVE  InvoicesInv'
  <1> DEFINE n == Len(invoices)
  <1>1. PICK S : invoices \in Seq(S)
    BY DEF InvoicesInv, RowsTyped, InvoicesAreASeq
  <1>2. /\ invoices' \in Seq(S \cup {NewRow(c)})
        /\ n \in Nat
        /\ Len(invoices') = n + 1
        /\ DOMAIN invoices = 1..n
        /\ DOMAIN invoices' = 1..(n + 1)
        /\ invoices'[n + 1] = NewRow(c)
        /\ \A i \in 1..n : invoices'[i] = invoices[i]
    BY <1>1, AppendedRow
  <1> HIDE DEF n
  <1>3. /\ step' = [step EXCEPT ![c] = "created"]
        /\ got' = [got EXCEPT ![c] = n + 1]
        /\ announced' = announced
        /\ Existing(c) = {}
    BY <1>2 DEF CommitInvoice, Go
  <1>4. /\ \A d \in Creator : got[d] \in 0..n
        /\ step \in [Creator -> Step] /\ got \in [Creator -> Nat]
        /\ announced \subseteq Creator \X (1..n)
    BY <1>2 DEF InvoicesInv, RowsTyped, n
  <1>5. RowsTyped'
    <2>1. announced' \subseteq Creator \X DOMAIN invoices'
      BY <1>2, <1>3, <1>4
    <2>2. \A d \in Creator : got'[d] \in 0..Len(invoices')
      BY <1>2, <1>3, <1>4
    <2>3. InvoicesAreASeq'
      BY <1>2 DEF InvoicesAreASeq
    <2>4. got' \in [Creator -> Nat] /\ step' \in [Creator -> Step]
      BY <1>2, <1>3, <1>4 DEF Step
    <2> QED BY <1>2, <2>1, <2>2, <2>3, <2>4 DEF RowsTyped
  <1>6. UniqueReferences'
    <2>1. NewRow(c).merchantReference = AskOf[c].merchantReference
      BY DEF NewRow
    <2>2. \A i \in 1..n :
            AskOf[c].merchantReference # None =>
                invoices[i].merchantReference # AskOf[c].merchantReference
      BY <1>2, <1>3 DEF Existing
    <2>3. UniqueReferences
      BY DEF InvoicesInv
    <2> QED BY <1>2, <2>1, <2>2, <2>3 DEF UniqueReferences
  <1>7. AnswersMatch'
    <2>1. NewRow(c).merchantReference = AskOf[c].merchantReference
      BY DEF NewRow
    <2>2. ASSUME NEW d \in Creator, got'[d] > 0
          PROVE  invoices'[got'[d]].merchantReference = AskOf[d].merchantReference
      <3>1. CASE d = c
        BY <1>2, <1>3, <1>4, <2>1, <3>1
      <3>2. CASE d # c
        BY <1>2, <1>3, <1>4, <2>2, <3>2 DEF InvoicesInv, AnswersMatch
      <3> QED BY <3>1, <3>2
    <2> QED BY <2>2 DEF AnswersMatch
  <1>8. NotYetAnnounced'
    <2>1. \A a \in announced : a[2] \in 1..n
      BY <1>4
    <2>2. \A d \in Creator : d # c => step'[d] = step[d] /\ got'[d] = got[d]
      BY <1>3, <1>4
    <2>3. step'[c] = "created" /\ got'[c] = n + 1
      BY <1>3, <1>4
    <2> QED
      BY <1>2, <1>3, <1>4, <2>1, <2>2, <2>3 DEF InvoicesInv, NotYetAnnounced
  <1>9. AnnouncedOnce'
    BY <1>3 DEF InvoicesInv, AnnouncedOnce
  <1> QED BY <1>5, <1>6, <1>7, <1>8, <1>9 DEF InvoicesInv

LEMMA InvoicesStep == InvoicesInv /\ [InvoicesNext]_invoicing => InvoicesInv'
  <1> SUFFICES ASSUME InvoicesInv, [InvoicesNext]_invoicing PROVE InvoicesInv'
    OBVIOUS
  <1> USE DEF InvoicesInv, RowsTyped, UniqueReferences, AnswersMatch, NotYetAnnounced,
              AnnouncedOnce
  <1>0. UNCHANGED invoices => InvoicesAreASeq'
    BY DEF InvoicesAreASeq
  <1>1. CASE UNCHANGED <<step, got, invoices, announced>>
    BY <1>0, <1>1
  <1>2. ASSUME NEW c \in Creator, NEW to \in Step \ {"created"},
               step' = [step EXCEPT ![c] = to],
               UNCHANGED <<got, invoices, announced>>
        PROVE  InvoicesInv'
    BY <1>0, <1>2
  <1>3. ASSUME NEW c \in Creator, NEW i \in Existing(c), AnswerWith(c, i)
        PROVE  InvoicesInv'
    <2>1. /\ step' = [step EXCEPT ![c] = "answered"]
          /\ got' = [got EXCEPT ![c] = i]
          /\ UNCHANGED <<invoices, announced>>
      BY <1>3 DEF AnswerWith
    <2>2. /\ i \in DOMAIN invoices
          /\ invoices[i].merchantReference = AskOf[c].merchantReference
      BY <1>3 DEF Existing
    <2>3. i \in Nat \ {0} /\ i \in 0..Len(invoices)
      BY <2>2
    <2>4. \A d \in Creator : d # c => got'[d] = got[d] /\ step'[d] = step[d]
      BY <2>1
    <2>5. got'[c] = i /\ step'[c] = "answered"
      BY <2>1
    <2>6. RowsTyped'
      BY <1>0, <2>1, <2>3, <2>4, <2>5 DEF Step
    <2>7. AnswersMatch'
      BY <2>1, <2>2, <2>4, <2>5
    <2>8. NotYetAnnounced'
      BY <2>1, <2>4, <2>5
    <2> QED BY <2>1, <2>6, <2>7, <2>8
  <1>4. ASSUME NEW c \in Creator, AnnounceInvoice(c) PROVE InvoicesInv'
    <2>1. /\ step[c] = "created"
          /\ step' = [step EXCEPT ![c] = "answered"]
          /\ announced' = announced \cup {<<c, got[c]>>}
          /\ UNCHANGED <<invoices, got>>
      BY <1>4 DEF AnnounceInvoice, Go
    <2>3. got[c] \in DOMAIN invoices
      BY <2>1
    <2>4. RowsTyped'
      BY <1>0, <2>1, <2>3 DEF Step
    <2>5. AnnouncedOnce'
      BY <2>1
    <2>6. NotYetAnnounced'
      BY <2>1
    <2> QED BY <2>1, <2>4, <2>5, <2>6
  <1>5. ASSUME NEW c \in Creator, EndCreate(c) PROVE InvoicesInv'
    <2>1. /\ step' = [step EXCEPT ![c] = "refused"]
          /\ got' = [got EXCEPT ![c] = 0]
          /\ UNCHANGED <<invoices, announced>>
      BY <1>5 DEF EndCreate
    <2>2. \A d \in Creator : d # c => got'[d] = got[d] /\ step'[d] = step[d]
      BY <2>1
    <2>3. got'[c] = 0 /\ step'[c] = "refused"
      BY <2>1
    <2>4. RowsTyped'
      BY <1>0, <2>1, <2>2, <2>3 DEF Step
    <2>5. NotYetAnnounced'
      BY <2>1, <2>2, <2>3
    <2> QED BY <2>1, <2>2, <2>3, <2>4, <2>5
  <1>6. ASSUME NEW c \in Creator, Create(c) PROVE InvoicesInv'
    <2> USE DEF Go, Step
    <2>1. CASE LoadForInvoice(c)
      BY <1>2, <2>1 DEF LoadForInvoice
    <2>2. CASE ResolveInvoiceItem(c)
      BY <1>2, <2>2 DEF ResolveInvoiceItem
    <2>3. CASE FindExisting(c)
      BY <1>3, <2>3 DEF FindExisting
    <2>4. CASE MissExisting(c)
      BY <1>2, <2>4 DEF MissExisting
    <2>5. CASE ReadTax(c)
      BY <1>2, <2>5 DEF ReadTax
    <2>6. CASE CommitInvoice(c)
      <3>1. invoices' = Append(invoices, NewRow(c))
        BY <2>6 DEF CommitInvoice, NewRow
      <3> HIDE DEF InvoicesInv
      <3> QED BY <2>6, <3>1, CommitKeeps
    <2>7. CASE CommitRefused(c)
      BY <1>3, <2>7 DEF CommitRefused
    <2>8. CASE CollideAndRetry(c)
      BY <1>2, <2>8 DEF CollideAndRetry
    <2> QED
      BY <1>4, <1>5, <1>6, <2>1, <2>2, <2>3, <2>4, <2>5, <2>6, <2>7, <2>8
         DEF Create
  <1>7. CASE Change
    BY <1>1, <1>7 DEF Change, creators
  <1>8. CASE UNCHANGED invoicing
    BY <1>1, <1>8 DEF invoicing, creators
  <1> QED BY <1>6, <1>7, <1>8 DEF InvoicesNext

\* For any number of requests, however they overlap and break off, there is one
\* invoice under a merchant's reference, all answers name it, and it is
\* announced at most once.
THEOREM InvoicesAreUnique == InvoicesSpec => []OneInvoicePerReference
  <1>1. InvoicesInv => OneInvoicePerReference
    BY DEF InvoicesInv, UniqueReferences, AnswersMatch, AnnouncedOnce,
           OneInvoicePerReference
  <1> QED BY <1>1, InvoicesInitially, InvoicesStep, PTL DEF InvoicesSpec

-----------------------------------------------------------------------------
(* The tax of an invoice *)

\* A row that is there stays as it is.
LEMMA InvoicesAreKept ==
    ASSUME InvoicesInv, [InvoicesNext]_invoicing, NEW i \in DOMAIN invoices
    PROVE  invoices'[i] = invoices[i]
  <1>1. PICK S : invoices \in Seq(S)
    BY DEF InvoicesInv, RowsTyped, InvoicesAreASeq
  <1> QED BY <1>1, RowsOnlyGrow, AppendedRow

\* Whatever administrators change, and whatever requests run, the allocation
\* of an invoice's tax and the merchant's part are those of its creation.
THEOREM TaxStaysFrozen == InvoicesSpec => TaxIsFrozen
  <1>1. ASSUME InvoicesInv, [InvoicesNext]_invoicing, NEW i \in DOMAIN invoices
        PROVE  /\ TaxAllocations(i)' = TaxAllocations(i)
               /\ {a.amount : a \in MerchantAllocations(i)}'
                    = {a.amount : a \in MerchantAllocations(i)}
    <2>1. invoices'[i] = invoices[i]
      BY <1>1, InvoicesAreKept
    <2>2. TaxAllocations(i)' = TaxAllocations(i)
      BY <2>1 DEF TaxAllocations
    <2>3. SplitAmount(i)' = SplitAmount(i)
      BY <2>2 DEF SplitAmount
    <2> DEFINE left == invoices[i].amount - SplitAmount(i)
    <2>4. CASE invoices[i].amount > SplitAmount(i)
      <3>1. MerchantAllocations(i) =
                {[account |-> item.settlementAccountId, amount |-> left]}
        BY <2>4 DEF MerchantAllocations
      <3>2. MerchantAllocations(i)' =
                {[account |-> item'.settlementAccountId, amount |-> left]}
        BY <2>1, <2>3, <2>4 DEF MerchantAllocations
      <3> QED BY <2>2, <3>1, <3>2
    <2>5. CASE ~(invoices[i].amount > SplitAmount(i))
      <3>1. MerchantAllocations(i) = {} /\ MerchantAllocations(i)' = {}
        BY <2>1, <2>3, <2>5 DEF MerchantAllocations
      <3> QED BY <2>2, <3>1
    <2> QED BY <2>4, <2>5
  <1>2. InvoicesInv /\ [InvoicesNext]_invoicing
          => [\A i \in DOMAIN invoices :
                /\ TaxAllocations(i)' = TaxAllocations(i)
                /\ {a.amount : a \in MerchantAllocations(i)}'
                    = {a.amount : a \in MerchantAllocations(i)}]_invoicing
    BY <1>1
  <1> QED
    BY <1>2, InvoicesInitially, InvoicesStep, PTL
       DEF InvoicesSpec, TaxIsFrozen

-----------------------------------------------------------------------------
(* The types of invoices *)

\* A set of numbers that is finite and not empty has a largest.
LEMMA LargestNumber ==
    ASSUME NEW A, IsFiniteSet(A), A \subseteq Nat, A # {}
    PROVE  \E i \in A : \A j \in A : j <= i
  <1> DEFINE Above(i) == {j \in A : j > i}
             B == {Above(i) : i \in A}
  <1>1. B \subseteq SUBSET A /\ B # {}
    OBVIOUS
  <1> HIDE DEF B
  <1>2. PICK s \in B : \A t \in SUBSET s : t # s => t \notin B
    BY <1>1, SmallestSubset
  <1>3. PICK i \in A : s = Above(i)
    BY <1>2 DEF B
  <1>4. ASSUME NEW k \in A, k > i PROVE FALSE
    <2>0. i \in Int /\ k \in Int /\ \A j \in A : j \in Int
      OBVIOUS
    <2>1. Above(k) \subseteq s /\ k \in s /\ k \notin Above(k)
      <3>1. \A j \in Above(k) : j \in Above(i)
        BY <1>4, <2>0
      <3>2. k \in Above(i) /\ k \notin Above(k)
        BY <1>4, <2>0
      <3> HIDE DEF Above
      <3> QED BY <1>3, <3>1, <3>2
    <2>2. Above(k) \in B
      BY DEF B
    <2> QED BY <1>2, <2>1, <2>2
  <1>5. \A j \in A : j <= i
    BY <1>4
  <1> QED BY <1>5

\* The destination that tax goes to now is one, or there is none.
LEMMA CurrentIsTyped ==
    ASSUME destinations \in Seq(Destination)
    PROVE  CurrentDestination \in TaxAccount \cup {NoAccount}
  <1>1. CASE ActiveDestinations = {}
    BY <1>1 DEF CurrentDestination
  <1>2. CASE ActiveDestinations # {}
    <2>1. Len(destinations) \in Nat /\ DOMAIN destinations = 1..Len(destinations)
      BY LenProperties
    <2>2. ActiveDestinations \subseteq DOMAIN destinations
      BY DEF ActiveDestinations
    <2>3. IsFiniteSet(DOMAIN destinations)
      BY <2>1, FS_Interval
    <2>4. IsFiniteSet(ActiveDestinations) /\ ActiveDestinations \subseteq Nat
      BY <2>1, <2>2, <2>3, FS_Subset
    <2>5. \E i \in ActiveDestinations : \A j \in ActiveDestinations : j <= i
      BY <1>2, <2>4, LargestNumber
    <2> DEFINE last == CHOOSE i \in ActiveDestinations :
                            \A j \in ActiveDestinations : j <= i
    <2>6. last \in ActiveDestinations
      BY <2>5
    <2>7. CurrentDestination = destinations[last].account
      BY <1>2 DEF CurrentDestination
    <2> HIDE DEF last
    <2>8. destinations[last] \in Destination
      BY <2>2, <2>6, ElementOfSeq, <2>1
    <2> QED BY <2>7, <2>8 DEF Destination
  <1> QED BY <1>1, <1>2

\* The tax an invoice would be assessed now.
LEMMA AssessedIsTyped ==
    ASSUME TaxesTypeOK, NEW config \in TaxConfig, NEW a \in Nat
    PROVE  /\ Assessed(config, a) \in TaxTransaction
           /\ [Assessed(config, a) EXCEPT !.destination = NoAccount] \in TaxTransaction
  <1>1. CurrentDestination \in TaxAccount \cup {NoAccount}
    BY CurrentIsTyped DEF TaxesTypeOK
  <1>2. config \in TaxConfiguration
    BY TaxesAssumption
  <1>3. Assessed(config, a) \in TaxTransaction
    BY <1>1, <1>2 DEF Assessed, TaxTransaction, TaxConfiguration
  <1> HIDE DEF Assessed
  <1> QED BY <1>3 DEF TaxTransaction

LEMMA NewRowIsTyped ==
    ASSUME InvoicesTypeOK, NEW c \in Creator
    PROVE  NewRow(c) \in InvoiceRow
  <1>1. /\ priced[c].amount \in Nat /\ priced[c].baseAmount \in Nat
        /\ priced[c].taxAmount \in Nat /\ assessed[c] \in TaxConfig
        /\ TaxesTypeOK
    BY DEF InvoicesTypeOK
  <1>2. TaxRowOf(c) \in TaxTransaction
    BY <1>1, AssessedIsTyped DEF TaxRowOf
  <1>3. AskOf[c].merchantReference \in Reference \cup {None}
    BY InvoicesAssumption
  <1> QED BY <1>1, <1>2, <1>3 DEF NewRow, InvoiceRow

\* What a request works out an invoice to be worth.
LEMMA PricedIsTyped ==
    ASSUME InvoicesTypeOK, NEW c \in Creator, ResolveInvoiceItem(c)
    PROVE  \E p : /\ priced' = [priced EXCEPT ![c] = p]
                  /\ {p.amount, p.baseAmount, p.taxAmount} \subseteq Nat
                  /\ p.taxed \in BOOLEAN
  <1> DEFINE due == IF chosen[c].taxed
                    THEN CalculateTaxAmount(Base(c), tax.rate) ELSE 0
             total == Base(c) + IF chosen[c].taxed /\ tax.payer = "CUSTOMER"
                                THEN due ELSE 0
             p == [amount |-> total, baseAmount |-> Base(c),
                   taxAmount |-> due, taxed |-> chosen[c].taxed]
  <1>1. chosen[c] \in Item
    BY DEF InvoicesTypeOK
  <1>2. Base(c) \in Nat
    <2>1. Base(c) \in Price \cup {None}
      BY <1>1, InvoicesAssumption DEF Base, Item
    <2>2. Base(c) # None
      BY DEF ResolveInvoiceItem
    <2> QED BY <2>1, <2>2, ServicesAssumption
  <1>3. tax.rate \in Nat
    BY TaxesAssumption DEF InvoicesTypeOK, TaxesTypeOK, TaxConfiguration
  <1>4. CalculateTaxAmount(Base(c), tax.rate) \in Nat
    <2>1. Base(c) * tax.rate \in Nat
      BY <1>2, <1>3
    <2> QED BY <2>1 DEF CalculateTaxAmount
  <1>5. chosen[c].taxed \in BOOLEAN
    BY <1>1 DEF Item
  <1>6. due \in Nat
    BY <1>4
  <1>7. total \in Nat
    BY <1>2, <1>6
  <1>8. priced' = [priced EXCEPT ![c] = p]
    BY DEF ResolveInvoiceItem
  <1>9. /\ p.amount = total /\ p.baseAmount = Base(c)
        /\ p.taxAmount = due /\ p.taxed = chosen[c].taxed
    OBVIOUS
  <1> HIDE DEF p, total, due
  <1> QED BY <1>2, <1>5, <1>6, <1>7, <1>8, <1>9

\* priced is a function on the requests: its type alone does not say so.
InvoicesTyped ==
    /\ InvoicesTypeOK
    /\ DOMAIN priced = Creator

LEMMA InvoicesTypedInitially == InvoicesInit => InvoicesTyped
  <1> SUFFICES ASSUME InvoicesInit PROVE InvoicesTyped
    OBVIOUS
  <1>1. ServicesTypeOK
    BY ServicesAssumption DEF InvoicesInit, ServicesInit, ServicesTypeOK, Item
  <1>2. TaxesTypeOK
    BY DEF InvoicesInit, TaxesInit, TaxesTypeOK
  <1>3. invoices = << >> /\ Len(invoices) = 0 /\ DOMAIN invoices = {}
    BY DEF InvoicesInit
  <1>4. /\ item \in Item /\ tax \in TaxConfig
        /\ 0 \in 0..Collisions /\ 0 \in 0..Edits /\ 0 \in 0..Len(invoices)
    BY <1>1, <1>2, <1>3, InvoicesAssumption DEF ServicesTypeOK, TaxesTypeOK
  <1>5. /\ DOMAIN priced = Creator
        /\ \A c \in Creator :
            /\ {priced[c].amount, priced[c].baseAmount, priced[c].taxAmount} \subseteq Nat
            /\ priced[c].taxed \in BOOLEAN
    <2>1. priced = [c \in Creator |-> Unpriced]
      BY DEF InvoicesInit
    <2>2. /\ Unpriced.amount = 0 /\ Unpriced.baseAmount = 0 /\ Unpriced.taxAmount = 0
          /\ Unpriced.taxed = FALSE
      BY DEF Unpriced
    <2>3. DOMAIN priced = Creator /\ \A c \in Creator : priced[c] = Unpriced
      BY <2>1
    <2>4. 0 \in Nat
      OBVIOUS
    <2>5. {0, 0, 0} \subseteq Nat
      BY <2>4
    <2> QED BY <2>2, <2>3, <2>5
  <1>6. /\ step \in [Creator -> {"new", "loaded", "priced", "missed", "assessed",
                                 "created", "answered", "refused"}]
        /\ chosen \in [Creator -> Item]
        /\ assessed \in [Creator -> TaxConfig]
    BY <1>4 DEF InvoicesInit
  <1>7. /\ collided \in [Creator -> 0..Collisions]
        /\ got \in [Creator -> 0..Len(invoices)]
        /\ announced \subseteq Creator \X DOMAIN invoices
        /\ edits \in 0..Edits
    BY <1>4 DEF InvoicesInit
  <1> QED BY <1>1, <1>2, <1>3, <1>5, <1>6, <1>7
             DEF InvoicesTyped, InvoicesTypeOK

\* What administrators change.
LEMMA ChangeIsTyped ==
    ASSUME InvoicesTyped, Change
    PROVE  InvoicesTyped'
  <1>0. ServicesTypeOK /\ TaxesTypeOK
    BY DEF InvoicesTyped, InvoicesTypeOK
  <1>1. ServicesTypeOK'
    <2>1. ASSUME Edit PROVE ServicesTypeOK'
      <3>1. ASSUME NEW new \in Items, CreateService(new) \/ UpdateServiceItem(new)
            PROVE  ServicesTypeOK'
        BY <1>0, <3>1, ServicesAssumption
           DEF CreateService, UpdateServiceItem, ServicesTypeOK
      <3>2. ASSUME NEW e \in Editor, LoadService(e) PROVE ServicesTypeOK'
        BY <1>0, <3>2 DEF LoadService, ServicesTypeOK
      <3>3. ASSUME NEW e \in Editor, ToggleServiceStatus(e) \/ UpdateService(e)
            PROVE  ServicesTypeOK'
        BY <1>0, <3>3 DEF ToggleServiceStatus, UpdateService, SaveService,
               ServicesTypeOK
      <3> QED BY <2>1, <3>1, <3>2, <3>3 DEF Edit
    <2>2. ASSUME UNCHANGED services PROVE ServicesTypeOK'
      BY <1>0, <2>2 DEF services, ServicesTypeOK
    <2> QED BY <2>1, <2>2 DEF Change
  <1>2. TaxesTypeOK'
    <2>1. ASSUME NEW new \in TaxConfig, UpdateTaxConfiguration(new)
          PROVE  TaxesTypeOK'
      BY <1>0, <2>1 DEF UpdateTaxConfiguration, TaxesTypeOK
    <2>2. ASSUME NEW new \in Destination, AddTaxSettlementDestination(new)
          PROVE  TaxesTypeOK'
      BY <1>0, <2>2, AppendProperties DEF AddTaxSettlementDestination,
             TaxesTypeOK
    <2>3. ASSUME NEW new \in Destination, NEW i \in DOMAIN destinations,
                 UpdateTaxSettlementDestination(i, new)
          PROVE  TaxesTypeOK'
      BY <1>0, <2>3, ExceptSeq DEF UpdateTaxSettlementDestination, TaxesTypeOK
    <2>4. ASSUME UNCHANGED taxes PROVE TaxesTypeOK'
      BY <1>0, <2>4 DEF taxes, TaxesTypeOK
    <2> QED BY <2>1, <2>2, <2>3, <2>4 DEF Change, Administer
  <1>3. edits' \in 0..Edits
    BY InvoicesAssumption DEF Change, InvoicesTyped, InvoicesTypeOK
  <1> QED
    BY <1>1, <1>2, <1>3 DEF Change, creators, InvoicesTyped, InvoicesTypeOK,
           ServicesTypeOK, TaxesTypeOK

\* The steps of a request.
LEMMA CreateIsTyped ==
    ASSUME InvoicesTyped, InvoicesInv, NEW c \in Creator, Create(c)
    PROVE  InvoicesTyped'
  <1>0. /\ InvoicesTypeOK /\ DOMAIN priced = Creator
        /\ ServicesTypeOK /\ TaxesTypeOK
        /\ Len(invoices) \in Nat /\ DOMAIN invoices = 1..Len(invoices)
    BY DEF InvoicesTyped, InvoicesTypeOK, InvoicesInv, RowsTyped
  <1>00. UNCHANGED <<services, taxes>>
    BY DEF Create, LoadForInvoice, ResolveInvoiceItem, FindExisting,
           MissExisting, ReadTax, CommitInvoice, CommitRefused,
           CollideAndRetry, AnnounceInvoice, EndCreate, AnswerWith
  <1>01. ServicesTypeOK' /\ TaxesTypeOK'
    BY <1>0, <1>00 DEF services, taxes, ServicesTypeOK, TaxesTypeOK
  <1> USE DEF Go
  <1>1. CASE LoadForInvoice(c)
    <2>1. item \in Item
      BY <1>0 DEF ServicesTypeOK
    <2> QED BY <1>0, <1>01, <1>1, <2>1 DEF LoadForInvoice, InvoicesTyped,
                   InvoicesTypeOK
  <1>2. CASE ResolveInvoiceItem(c)
    <2>1. PICK p : /\ priced' = [priced EXCEPT ![c] = p]
                   /\ {p.amount, p.baseAmount, p.taxAmount} \subseteq Nat
                   /\ p.taxed \in BOOLEAN
      BY <1>0, <1>2, PricedIsTyped
    <2>2. \A d \in Creator : priced'[d] = IF d = c THEN p ELSE priced[d]
      BY <1>0, <2>1
    <2>3. DOMAIN priced' = Creator
      BY <1>0, <2>1
    <2>4. \A d \in Creator :
            /\ {priced'[d].amount, priced'[d].baseAmount, priced'[d].taxAmount} \subseteq Nat
            /\ priced'[d].taxed \in BOOLEAN
      BY <1>0, <2>1, <2>2 DEF InvoicesTypeOK
    <2>5. /\ step' = [step EXCEPT ![c] = "priced"]
          /\ UNCHANGED <<chosen, assessed, collided, invoices, got, announced, edits>>
      BY <1>2 DEF ResolveInvoiceItem
    <2> QED BY <1>0, <1>01, <2>3, <2>4, <2>5 DEF InvoicesTyped, InvoicesTypeOK
  <1>3. CASE FindExisting(c) \/ CommitRefused(c)
    <2>1. PICK i \in Existing(c) : AnswerWith(c, i)
      BY <1>3 DEF FindExisting, CommitRefused
    <2>2. i \in 0..Len(invoices)
      BY <1>0 DEF Existing
    <2> QED BY <1>0, <1>01, <2>1, <2>2 DEF AnswerWith, InvoicesTyped,
                   InvoicesTypeOK
  <1>4. CASE MissExisting(c)
    BY <1>0, <1>01, <1>4 DEF MissExisting, InvoicesTyped, InvoicesTypeOK
  <1>5. CASE ReadTax(c)
    <2>1. tax \in TaxConfig
      BY <1>0 DEF TaxesTypeOK
    <2> QED BY <1>0, <1>01, <1>5, <2>1 DEF ReadTax, InvoicesTyped,
                   InvoicesTypeOK
  <1>6. CASE CommitInvoice(c)
    <2> DEFINE n == Len(invoices)
    <2>1. invoices' = Append(invoices, NewRow(c))
      BY <1>6 DEF CommitInvoice, NewRow
    <2>2. PICK S : invoices \in Seq(S)
      BY DEF InvoicesInv, RowsTyped, InvoicesAreASeq
    <2>3. /\ Len(invoices') = n + 1 /\ DOMAIN invoices' = 1..(n + 1)
          /\ invoices'[n + 1] = NewRow(c)
          /\ \A i \in 1..n : invoices'[i] = invoices[i]
      BY <1>0, <2>1, <2>2, AppendedRow
    <2>4. NewRow(c) \in InvoiceRow
      BY <1>0, NewRowIsTyped
    <2> HIDE DEF n
    <2>5. n \in Nat /\ DOMAIN invoices = 1..n
      BY <1>0 DEF n
    <2>6. \A i \in DOMAIN invoices' : invoices'[i] \in InvoiceRow
      <3> SUFFICES ASSUME NEW i \in 1..(n + 1) PROVE invoices'[i] \in InvoiceRow
        BY <2>3
      <3>1. CASE i = n + 1
        BY <2>3, <2>4, <3>1
      <3>2. CASE i # n + 1
        <4>1. i \in 1..n
          BY <2>5, <3>2
        <4> QED BY <1>0, <2>3, <2>5, <4>1 DEF InvoicesTypeOK
      <3> QED BY <3>1, <3>2
    <2>7. /\ step' = [step EXCEPT ![c] = "created"]
          /\ got' = [got EXCEPT ![c] = n + 1]
          /\ UNCHANGED <<chosen, priced, assessed, collided, announced, edits>>
      BY <1>6, <2>3 DEF CommitInvoice
    <2>8. got' \in [Creator -> 0..Len(invoices')]
      <3>1. \A d \in Creator : got[d] \in 0..n
        BY <1>0 DEF InvoicesTypeOK, n
      <3>2. DOMAIN got = Creator
        BY <1>0 DEF InvoicesTypeOK
      <3>3. \A d \in Creator : got'[d] \in 0..(n + 1)
        BY <2>5, <2>7, <3>1, <3>2
      <3>4. got' = [d \in Creator |-> got'[d]]
        BY <2>7, <3>2
      <3> QED BY <2>3, <3>3, <3>4
    <2>9. announced' \subseteq Creator \X DOMAIN invoices'
      BY <1>0, <2>3, <2>5, <2>7 DEF InvoicesTypeOK
    <2> QED
      BY <1>0, <1>01, <2>6, <2>7, <2>8, <2>9 DEF InvoicesTyped, InvoicesTypeOK
  <1>7. CASE CollideAndRetry(c)
    <2>1. collided' \in [Creator -> 0..Collisions]
      BY <1>0, <1>7, InvoicesAssumption DEF CollideAndRetry, InvoicesTypeOK
    <2>2. /\ step' = [step EXCEPT ![c] = "priced"]
          /\ UNCHANGED <<chosen, priced, assessed, invoices, got, announced, edits>>
      BY <1>7 DEF CollideAndRetry
    <2> QED BY <1>0, <1>01, <2>1, <2>2 DEF InvoicesTyped, InvoicesTypeOK
  <1>8. CASE AnnounceInvoice(c)
    <2>1. /\ announced' = announced \cup {<<c, got[c]>>}
          /\ step[c] = "created" /\ step' = [step EXCEPT ![c] = "answered"]
          /\ UNCHANGED <<chosen, priced, assessed, collided, invoices, got, edits>>
      BY <1>8 DEF AnnounceInvoice
    <2>2. got[c] \in DOMAIN invoices
      BY <1>0, <2>1 DEF InvoicesInv, NotYetAnnounced, RowsTyped
    <2> QED BY <1>0, <1>01, <2>1, <2>2 DEF InvoicesTyped, InvoicesTypeOK
  <1>9. CASE EndCreate(c)
    <2>1. 0 \in 0..Len(invoices)
      BY <1>0
    <2> QED BY <1>0, <1>01, <1>9, <2>1 DEF EndCreate, InvoicesTyped,
                   InvoicesTypeOK
  <1> QED
    BY <1>1, <1>2, <1>3, <1>4, <1>5, <1>6, <1>7, <1>8, <1>9 DEF Create

LEMMA InvoicesTypedStep ==
    InvoicesTyped /\ InvoicesInv /\ [InvoicesNext]_invoicing => InvoicesTyped'
  <1> SUFFICES ASSUME InvoicesTyped, InvoicesInv, [InvoicesNext]_invoicing
               PROVE  InvoicesTyped'
    OBVIOUS
  <1>1. CASE UNCHANGED invoicing
    BY <1>1 DEF invoicing, creators, services, taxes, InvoicesTyped,
           InvoicesTypeOK, ServicesTypeOK, TaxesTypeOK
  <1> QED BY <1>1, ChangeIsTyped, CreateIsTyped DEF InvoicesNext

\* Every variable keeps its type: what is priced is worth a number, rows of
\* invoices are rows, and their tax goes to a destination or to none.
THEOREM InvoicesAreTyped == InvoicesSpec => []InvoicesTypeOK
  <1>1. InvoicesTyped => InvoicesTypeOK
    BY DEF InvoicesTyped
  <1> QED
    BY <1>1, InvoicesInitially, InvoicesStep, InvoicesTypedInitially,
       InvoicesTypedStep, PTL
       DEF InvoicesSpec

(***************************************************************************)
(* Sweeps                                                                  *)
(***************************************************************************)

SweepsAreASeq == \E S : sweepRows \in Seq(S)

\* A request that has stored its row and not called yet is the only one with
\* its reference, and nothing was moved under that; without a row neither.
SweepsInv ==
    /\ SweepsAreASeq
    /\ moved \in [SweepReference -> 0..1]
    /\ DOMAIN sweepStep = Sweep
    /\ \A r \in SweepReference : RowsOf(r) = {} => moved[r] = 0
    /\ \A s \in Sweep : sweepStep[s] = "stored" =>
        /\ moved[SweepRef[s]] = 0
        /\ RowsOf(SweepRef[s]) # {}
        /\ \A q \in Sweep :
            sweepStep[q] = "stored" /\ SweepRef[q] = SweepRef[s] => q = s
    /\ \A i \in DOMAIN sweepRows : sweepRows[i].ref \in SweepReference
    /\ \A i \in DOMAIN sweepRows :
        sweepRows[i].status = "SUCCESS" => moved[sweepRows[i].ref] = 1

LEMMA SweepsInitially == SweepsInit => SweepsInv
  <1> SUFFICES ASSUME SweepsInit PROVE SweepsInv
    OBVIOUS
  <1>1. sweepRows \in Seq({}) /\ DOMAIN sweepRows = {}
    BY DEF SweepsInit
  <1>2. SweepsAreASeq
    BY <1>1 DEF SweepsAreASeq
  <1> QED BY <1>1, <1>2 DEF SweepsInit, SweepsInv, RowsOf

-----------------------------------------------------------------------------
(* What happens to the rows *)

\* A row that is added.
LEMMA RowIsAdded ==
    ASSUME SweepsAreASeq, NEW new, sweepRows' = Append(sweepRows, new)
    PROVE  /\ SweepsAreASeq'
           /\ DOMAIN sweepRows' = DOMAIN sweepRows \cup {Len(sweepRows) + 1}
           /\ sweepRows'[Len(sweepRows) + 1] = new
           /\ \A i \in DOMAIN sweepRows : sweepRows'[i] = sweepRows[i]
           /\ Len(sweepRows) + 1 \notin DOMAIN sweepRows
  <1>1. PICK S : sweepRows \in Seq(S)
    BY DEF SweepsAreASeq
  <1>2. sweepRows \in Seq(S \cup {new}) /\ new \in S \cup {new}
    BY <1>1, SeqMonotonic, IsASeq, LenProperties
  <1>3. sweepRows' \in Seq(S \cup {new})
    BY <1>2, AppendProperties
  <1>4. SweepsAreASeq'
    BY <1>3 DEF SweepsAreASeq
  <1> QED BY <1>2, <1>4, AppendProperties, LenProperties

\* A change of status changes nothing else.
LEMMA StatusIsSet ==
    ASSUME SweepsInv, NEW r \in SweepReference, NEW status, SetStatus(r, status)
    PROVE  /\ SweepsAreASeq'
           /\ DOMAIN sweepRows' = DOMAIN sweepRows
           /\ \A i \in DOMAIN sweepRows :
                /\ sweepRows'[i].ref = sweepRows[i].ref
                /\ i \notin RowsOf(r) => sweepRows'[i] = sweepRows[i]
                /\ i \in RowsOf(r) => sweepRows'[i].status \in {status, sweepRows[i].status}
           /\ \A q \in SweepReference : RowsOf(q)' = RowsOf(q)
  <1>1. PICK S : sweepRows \in Seq(S)
    BY DEF SweepsInv, SweepsAreASeq
  <1>2. sweepRows' = [i \in DOMAIN sweepRows |->
            IF i \in RowsOf(r) THEN [sweepRows[i] EXCEPT !.status = status]
            ELSE sweepRows[i]]
    BY DEF SetStatus
  <1> DEFINE n == Len(sweepRows)
             T == {sweepRows'[i] : i \in 1..n}
  <1>3. n \in Nat /\ DOMAIN sweepRows = 1..n
    BY <1>1, LenProperties
  <1> HIDE DEF n
  <1>4. sweepRows' \in [1..n -> T]
    BY <1>2, <1>3
  <1>5. sweepRows' \in Seq(T)
    <2> HIDE DEF T
    <2> QED BY <1>3, <1>4, SeqDef
  <1>6. SweepsAreASeq'
    BY <1>5 DEF SweepsAreASeq
  <1>7. \A i \in DOMAIN sweepRows :
            /\ sweepRows'[i].ref = sweepRows[i].ref
            /\ i \notin RowsOf(r) => sweepRows'[i] = sweepRows[i]
            /\ i \in RowsOf(r) => sweepRows'[i].status \in {status, sweepRows[i].status}
    BY <1>2
  <1>8. DOMAIN sweepRows' = DOMAIN sweepRows
    BY <1>2
  <1>9. \A q \in SweepReference : RowsOf(q)' = RowsOf(q)
    BY <1>7, <1>8 DEF RowsOf
  <1> QED BY <1>6, <1>7, <1>8, <1>9

-----------------------------------------------------------------------------
(* The steps of a request, and of the cron *)

\* Steps that store and move nothing.
LEMMA SweepMoves ==
    ASSUME SweepsInv, UNCHANGED <<sweepRows, moved>>,
           DOMAIN sweepStep' = Sweep,
           \A s \in Sweep : sweepStep'[s] = "stored" => sweepStep[s] = "stored"
    PROVE  SweepsInv'
  <1>1. SweepsAreASeq'
    BY DEF SweepsInv, SweepsAreASeq
  <1>2. \A r \in SweepReference : RowsOf(r)' = RowsOf(r)
    BY DEF RowsOf
  <1> QED BY <1>1, <1>2, SweepsAssumption DEF SweepsInv

\* The look-up does not keep a second row out, the index does.
LEMMA SaveKeeps ==
    ASSUME SweepsInv, NEW s \in Sweep, SaveSweep(s)
    PROVE  SweepsInv'
  <1> DEFINE new == [ref |-> SweepRef[s], from |-> FromOf[s], status |-> "INITIATED"]
             n   == Len(sweepRows) + 1
  <1>1. /\ RowsOf(SweepRef[s]) = {}
        /\ sweepStep' = [sweepStep EXCEPT ![s] = "stored"]
        /\ sweepRows' = Append(sweepRows, new)
        /\ moved' = moved
    BY DEF SaveSweep, Proceed
  <1>2. /\ new.ref = SweepRef[s] /\ new.status = "INITIATED"
        /\ SweepRef[s] \in SweepReference
    BY SweepsAssumption
  <1>3. SweepsAreASeq
    BY DEF SweepsInv
  <1> HIDE DEF new
  <1>4. /\ SweepsAreASeq'
        /\ DOMAIN sweepRows' = DOMAIN sweepRows \cup {n}
        /\ sweepRows'[n] = new
        /\ \A i \in DOMAIN sweepRows : sweepRows'[i] = sweepRows[i]
    BY <1>1, <1>3, RowIsAdded
  <1> HIDE DEF n
  <1>5. \A r \in SweepReference :
            RowsOf(r)' = IF r = SweepRef[s] THEN RowsOf(r) \cup {n} ELSE RowsOf(r)
    BY <1>2, <1>4 DEF RowsOf, SweepsInv
  <1>6. \A q \in Sweep : q # s => sweepStep'[q] = sweepStep[q]
    BY <1>1 DEF SweepsInv
  <1>7. ASSUME NEW q \in Sweep, sweepStep'[q] = "stored"
        PROVE  /\ moved'[SweepRef[q]] = 0
               /\ RowsOf(SweepRef[q])' # {}
               /\ \A p \in Sweep :
                    sweepStep'[p] = "stored" /\ SweepRef[p] = SweepRef[q] => p = q
    BY <1>1, <1>2, <1>5, <1>6, <1>7, SweepsAssumption DEF SweepsInv
  <1>8. \A r \in SweepReference : RowsOf(r)' = {} => moved'[r] = 0
    BY <1>1, <1>5 DEF SweepsInv
  <1>9. \A i \in DOMAIN sweepRows' :
            /\ sweepRows'[i].ref \in SweepReference
            /\ sweepRows'[i].status = "SUCCESS" => moved'[sweepRows'[i].ref] = 1
    BY <1>1, <1>2, <1>4 DEF SweepsInv
  <1> QED BY <1>1, <1>4, <1>7, <1>8, <1>9 DEF SweepsInv

\* The provider moves money for the one request that is about to call.
LEMMA SweepCallKeeps ==
    ASSUME SweepsInv, NEW s \in Sweep, CallPayout(s)
    PROVE  SweepsInv'
  <1>1. PICK end \in {"returned", "threw"} : Proceed(s, "stored", end)
    BY DEF CallPayout
  <1>2. PICK k \in {0, 1} : moved' = [moved EXCEPT ![SweepRef[s]] = @ + k]
    BY DEF CallPayout
  <1>3. /\ sweepStep[s] = "stored"
        /\ sweepStep' = [sweepStep EXCEPT ![s] = end]
        /\ sweepRows' = sweepRows
    BY <1>1 DEF CallPayout, Proceed
  <1>4. /\ SweepRef[s] \in SweepReference
        /\ moved[SweepRef[s]] = 0
        /\ RowsOf(SweepRef[s]) # {}
    BY <1>3, SweepsAssumption DEF SweepsInv
  <1>5. /\ moved' \in [SweepReference -> 0..1]
        /\ \A r \in SweepReference : r # SweepRef[s] => moved'[r] = moved[r]
    BY <1>2, <1>4 DEF SweepsInv
  <1>6. SweepsAreASeq'
    BY <1>3 DEF SweepsInv, SweepsAreASeq
  <1>7. \A r \in SweepReference : RowsOf(r)' = RowsOf(r)
    BY <1>3 DEF RowsOf
  <1>8. ASSUME NEW q \in Sweep, sweepStep'[q] = "stored"
        PROVE  /\ sweepStep[q] = "stored" /\ SweepRef[q] # SweepRef[s]
               /\ SweepRef[q] \in SweepReference
    BY <1>3, <1>8, SweepsAssumption DEF SweepsInv
  <1>9. \A i \in DOMAIN sweepRows :
            sweepRows[i].status = "SUCCESS" => moved'[sweepRows[i].ref] = 1
    BY <1>4, <1>5 DEF SweepsInv
  <1>10. \A q \in Sweep : sweepStep'[q] = "stored" =>
            /\ moved'[SweepRef[q]] = 0
            /\ RowsOf(SweepRef[q])' # {}
            /\ \A p \in Sweep :
                sweepStep'[p] = "stored" /\ SweepRef[p] = SweepRef[q] => p = q
    BY <1>5, <1>7, <1>8 DEF SweepsInv
  <1>11. \A r \in SweepReference : RowsOf(r)' = {} => moved'[r] = 0
    BY <1>4, <1>5, <1>7 DEF SweepsInv
  <1> QED BY <1>3, <1>5, <1>6, <1>9, <1>10, <1>11 DEF SweepsInv

\* A status is written, SUCCESS only for money that was moved.
LEMMA SetStatusKeeps ==
    ASSUME SweepsInv, NEW r \in SweepReference, NEW status, SetStatus(r, status),
           status = "SUCCESS" => moved[r] = 1,
           moved' = moved, DOMAIN sweepStep' = Sweep,
           \A s \in Sweep : sweepStep'[s] = "stored" => sweepStep[s] = "stored"
    PROVE  SweepsInv'
  <1>1. /\ SweepsAreASeq'
        /\ DOMAIN sweepRows' = DOMAIN sweepRows
        /\ \A q \in SweepReference : RowsOf(q)' = RowsOf(q)
    BY StatusIsSet
  <1>2. \A i \in DOMAIN sweepRows :
            /\ sweepRows'[i].ref = sweepRows[i].ref
            /\ i \notin RowsOf(r) => sweepRows'[i] = sweepRows[i]
            /\ i \in RowsOf(r) => sweepRows'[i].status \in {status, sweepRows[i].status}
    BY StatusIsSet
  <1>3. \A i \in DOMAIN sweepRows' :
            /\ sweepRows'[i].ref \in SweepReference
            /\ sweepRows'[i].status = "SUCCESS" => moved[sweepRows'[i].ref] = 1
    BY <1>1, <1>2 DEF SweepsInv, RowsOf
  <1> QED BY <1>1, <1>3, SweepsAssumption DEF SweepsInv

LEMMA SweepsStep == SweepsInv /\ [SweepsNext]_sweeping => SweepsInv'
  <1> SUFFICES ASSUME SweepsInv, [SweepsNext]_sweeping PROVE SweepsInv'
    OBVIOUS
  <1>0. DOMAIN sweepStep = Sweep /\ moved \in [SweepReference -> 0..1]
    BY DEF SweepsInv
  <1>1. ASSUME NEW s \in Sweep, CheckAccounts(s) \/ FindSweep(s) \/ EndSweep(s)
        PROVE  SweepsInv'
    BY <1>0, <1>1, SweepMoves DEF CheckAccounts, FindSweep, EndSweep, Proceed
  <1>2. ASSUME NEW s \in Sweep, RecordCall(s) PROVE SweepsInv'
    <2>1. SweepRef[s] \in SweepReference
      BY SweepsAssumption
    <2> QED BY <1>0, <1>2, <2>1, SetStatusKeeps DEF RecordCall, Proceed
  <1>3. ASSUME NEW r \in SweepReference, ConfirmSweep(r) PROVE SweepsInv'
    <2>1. moved[r] = 1 /\ SetStatus(r, "SUCCESS") /\ UNCHANGED <<sweepStep, moved>>
      BY <1>0, <1>3 DEF ConfirmSweep
    <2> QED BY <1>0, <2>1, SetStatusKeeps
  <1>4. ASSUME UNCHANGED <<sweepStep, sweepRows, moved>> PROVE SweepsInv'
    BY <1>0, <1>4, SweepMoves
  <1> QED
    BY <1>1, <1>2, <1>3, <1>4, SaveKeeps, SweepCallKeeps
       DEF SweepsNext, LoadProcessing, LeaveSweep, sweeping

\* However many requests use a reference at a time, money is moved once under
\* it, and what is recorded as SUCCESS was moved.
THEOREM SweepsAreSweptOnce == SweepsSpec => []SweptOnce
  <1>1. SweepsInv => SweptOnce
    BY DEF SweepsInv, SweptOnce, StatusOf, RowsOf
  <1> QED BY <1>1, SweepsInitially, SweepsStep, PTL DEF SweepsSpec

-----------------------------------------------------------------------------
(* The types of sweeps *)

LEMMA SetStatusIsTyped ==
    ASSUME SweepsInv, SweepsTypeOK, NEW r \in SweepReference,
           NEW status \in SweepStatus, SetStatus(r, status)
    PROVE  \A i \in DOMAIN sweepRows' :
            sweepRows'[i].ref \in SweepReference /\ sweepRows'[i].status \in SweepStatus
  <1>1. /\ DOMAIN sweepRows' = DOMAIN sweepRows
        /\ \A i \in DOMAIN sweepRows :
            /\ sweepRows'[i].ref = sweepRows[i].ref
            /\ i \notin RowsOf(r) => sweepRows'[i] = sweepRows[i]
            /\ i \in RowsOf(r) => sweepRows'[i].status \in {status, sweepRows[i].status}
    BY StatusIsSet
  <1> QED BY <1>1 DEF SweepsTypeOK

LEMMA SweepsTypedStep ==
    SweepsInv /\ SweepsTypeOK /\ [SweepsNext]_sweeping => SweepsTypeOK'
  <1> SUFFICES ASSUME SweepsInv, SweepsTypeOK, [SweepsNext]_sweeping
               PROVE  SweepsTypeOK'
    OBVIOUS
  <1>1. ASSUME NEW s \in Sweep, CheckAccounts(s) \/ FindSweep(s) \/ EndSweep(s)
        PROVE  SweepsTypeOK'
    BY <1>1 DEF CheckAccounts, FindSweep, EndSweep, Proceed, SweepsTypeOK
  <1>2. ASSUME NEW s \in Sweep, SaveSweep(s) PROVE SweepsTypeOK'
    <2> DEFINE new == [ref |-> SweepRef[s], from |-> FromOf[s], status |-> "INITIATED"]
               n == Len(sweepRows) + 1
    <2>1. sweepRows' = Append(sweepRows, new) /\ SweepsAreASeq
      BY <1>2 DEF SaveSweep, SweepsInv
    <2>2. new.ref \in SweepReference /\ new.status \in SweepStatus
      BY SweepsAssumption DEF SweepStatus
    <2> HIDE DEF new
    <2>3. /\ DOMAIN sweepRows' = DOMAIN sweepRows \cup {n}
          /\ sweepRows'[n] = new
          /\ \A i \in DOMAIN sweepRows : sweepRows'[i] = sweepRows[i]
      BY <2>1, RowIsAdded
    <2> HIDE DEF n
    <2>4. \A i \in DOMAIN sweepRows' :
            sweepRows'[i].ref \in SweepReference /\ sweepRows'[i].status \in SweepStatus
      BY <2>2, <2>3 DEF SweepsTypeOK
    <2>5. sweepStep' = [sweepStep EXCEPT ![s] = "stored"] /\ UNCHANGED <<moved, asked>>
      BY <1>2 DEF SaveSweep, Proceed
    <2> QED BY <2>4, <2>5 DEF SweepsTypeOK
  <1>3. ASSUME NEW s \in Sweep, CallPayout(s) PROVE SweepsTypeOK'
    <2>0. PICK k \in {0, 1} : moved' = [moved EXCEPT ![SweepRef[s]] = @ + k]
      BY <1>3 DEF CallPayout
    <2>1. moved' \in [SweepReference -> Nat]
      <3>1. SweepRef[s] \in SweepReference /\ moved \in [SweepReference -> Nat]
        BY SweepsAssumption DEF SweepsTypeOK
      <3>2. moved[SweepRef[s]] + k \in Nat
        BY <3>1
      <3> QED BY <2>0, <3>1, <3>2
    <2>2. PICK end \in {"returned", "threw"} :
            sweepStep' = [sweepStep EXCEPT ![s] = end]
      BY <1>3 DEF CallPayout, Proceed
    <2>3. UNCHANGED <<sweepRows, asked>>
      BY <1>3 DEF CallPayout
    <2> QED BY <2>1, <2>2, <2>3 DEF SweepsTypeOK
  <1>4. ASSUME NEW s \in Sweep, RecordCall(s) PROVE SweepsTypeOK'
    <2>1. PICK status \in SweepStatus : SetStatus(SweepRef[s], status)
      BY <1>4 DEF RecordCall, SweepStatus
    <2>2. SweepRef[s] \in SweepReference
      BY SweepsAssumption
    <2>3. \A i \in DOMAIN sweepRows' :
            sweepRows'[i].ref \in SweepReference /\ sweepRows'[i].status \in SweepStatus
      BY <2>1, <2>2, SetStatusIsTyped
    <2>4. sweepStep' = [sweepStep EXCEPT ![s] = "ended"] /\ UNCHANGED <<moved, asked>>
      BY <1>4 DEF RecordCall, Proceed
    <2> QED BY <2>3, <2>4 DEF SweepsTypeOK
  <1>5. CASE LoadProcessing
    <2>1. \A i \in DOMAIN sweepRows : sweepRows[i].ref \in SweepReference
      BY DEF SweepsTypeOK
    <2>2. asked' \subseteq SweepReference
      BY <1>5, <2>1 DEF LoadProcessing, Processing, SweepsTypeOK
    <2>3. UNCHANGED <<sweepStep, sweepRows, moved>>
      BY <1>5 DEF LoadProcessing
    <2> QED BY <2>2, <2>3 DEF SweepsTypeOK
  <1>6. ASSUME NEW r \in SweepReference, ConfirmSweep(r) PROVE SweepsTypeOK'
    <2>1. \A i \in DOMAIN sweepRows' :
            sweepRows'[i].ref \in SweepReference /\ sweepRows'[i].status \in SweepStatus
      BY <1>6, SetStatusIsTyped DEF ConfirmSweep, SweepStatus
    <2> QED BY <1>6, <2>1 DEF ConfirmSweep, SweepsTypeOK
  <1>7. ASSUME NEW r \in SweepReference, LeaveSweep(r) PROVE SweepsTypeOK'
    BY <1>7 DEF LeaveSweep, SweepsTypeOK
  <1>8. CASE UNCHANGED sweeping
    BY <1>8 DEF sweeping, SweepsTypeOK
  <1> QED BY <1>1, <1>2, <1>3, <1>4, <1>5, <1>6, <1>7, <1>8 DEF SweepsNext

\* Every variable keeps its type.
THEOREM SweepsAreTyped == SweepsSpec => []SweepsTypeOK
  <1>1. SweepsInit => SweepsTypeOK
    BY DEF SweepsInit, SweepsTypeOK
  <1> QED BY <1>1, SweepsInitially, SweepsStep, SweepsTypedStep, PTL
             DEF SweepsSpec

(***************************************************************************)
(* ProviderTokens                                                          *)
(***************************************************************************)

\* Before it ends a call has not been carried out; it is marked as refused once
\* it was, and a token it then asked for is newer than all there were.
RetryInv ==
    /\ ProviderTokensTypeOK
    /\ \A c \in Call :
        /\ callStep[c] \notin {"answered", "failed"} => done[c] = 0
        /\ done[c] <= 1
        /\ callStep[c] \in {"new", "login", "ready"} => refusedAt[c] = MaxToken + 1
        /\ refusedAt[c] <= issued \/ refusedAt[c] = MaxToken + 1
        /\ callStep[c] \in {"refused", "relogin"} => refusedAt[c] <= issued
        /\ callStep[c] = "again" => refusedAt[c] < token[c]
        /\ callStep[c] = "failed" =>
            \/ refusedAt[c] = MaxToken + 1
            \/ token[c] = 0
            \/ refusedAt[c] < token[c]

LEMMA RetryInitially == ProviderTokensInit => RetryInv
  BY ProviderTokensAssumption DEF ProviderTokensInit, RetryInv,
         ProviderTokensTypeOK, Token

-----------------------------------------------------------------------------
\* The steps of a call.
LEMMA ProviderCallKeeps ==
    ASSUME RetryInv, NEW c \in Call,
           \/ ReadCache(c)
           \/ Authenticate(c)
           \/ MakeCall(c)
           \/ Refuse(c)
           \/ RefuseAgain(c)
           \/ ClearCache(c)
           \/ EndCall(c)
    PROVE  RetryInv'
  <1> USE ProviderTokensAssumption DEF RetryInv, ProviderTokensTypeOK, Token, Turn, tokens
  <1>1. CASE ReadCache(c)
    BY <1>1 DEF ReadCache
  <1>2. CASE Authenticate(c)
    <2>1. /\ issued < MaxToken
          /\ issued' = issued + 1
          /\ token' = [token EXCEPT ![c] = issued + 1]
          /\ writes' = writes \cup {issued + 1}
          /\ UNCHANGED <<cache, revoked, refusedAt, done>>
      BY <1>2 DEF Authenticate
    <2>2. /\ issued + 1 \in 1..MaxToken
          /\ \A d \in Call : refusedAt[d] <= issued + 1 \/ refusedAt[d] = MaxToken + 1
      BY <2>1
    <2>3. CASE callStep[c] = "login" /\ callStep' = [callStep EXCEPT ![c] = "ready"]
      BY <2>1, <2>2, <2>3
    <2>4. CASE callStep[c] = "relogin" /\ callStep' = [callStep EXCEPT ![c] = "again"]
      BY <2>1, <2>2, <2>4
    <2>5. \/ callStep[c] = "login" /\ callStep' = [callStep EXCEPT ![c] = "ready"]
          \/ callStep[c] = "relogin" /\ callStep' = [callStep EXCEPT ![c] = "again"]
      BY <1>2 DEF Authenticate
    <2> QED BY <2>3, <2>4, <2>5
  <1>3. CASE MakeCall(c)
    <2>1. PICK k \in {0, 1} : done' = [done EXCEPT ![c] = @ + k]
      BY <1>3 DEF MakeCall
    <2>2. PICK end \in {"answered", "failed"} :
            /\ callStep[c] \in {"ready", "again"}
            /\ callStep' = [callStep EXCEPT ![c] = end]
      BY <1>3 DEF MakeCall
    <2>3. UNCHANGED <<cache, issued, revoked, writes, token, refusedAt>>
      BY <1>3 DEF MakeCall
    <2>4. done[c] = 0
      BY <2>2
    <2> QED BY <2>1, <2>2, <2>3, <2>4
  <1>4. CASE Refuse(c)
    BY <1>4 DEF Refuse
  <1>5. CASE RefuseAgain(c)
    BY <1>5 DEF RefuseAgain
  <1>6. CASE ClearCache(c)
    BY <1>6 DEF ClearCache
  <1>7. CASE EndCall(c)
    BY <1>7 DEF EndCall
  <1> QED BY <1>1, <1>2, <1>3, <1>4, <1>5, <1>6, <1>7

\* The steps of the cache and of the provider.
LEMMA TokenKeeps ==
    ASSUME RetryInv,
           \/ \E t \in Token : WriteCache(t) \/ RevokeToken(t)
           \/ ExpireCache
           \/ UNCHANGED providing
    PROVE  RetryInv'
  <1> USE ProviderTokensAssumption
      DEF RetryInv, ProviderTokensTypeOK, Token, tokens, providerCalls, providing
  <1>1. ASSUME NEW t \in Token, WriteCache(t) PROVE RetryInv'
    BY <1>1 DEF WriteCache
  <1>2. ASSUME NEW t \in Token, RevokeToken(t) PROVE RetryInv'
    BY <1>2 DEF RevokeToken
  <1>3. CASE ExpireCache
    BY <1>3 DEF ExpireCache
  <1>4. CASE UNCHANGED providing
    BY <1>4
  <1> QED BY <1>1, <1>2, <1>3, <1>4

LEMMA RetryStep == RetryInv /\ [ProviderTokensNext]_providing => RetryInv'
  <1> SUFFICES ASSUME RetryInv, [ProviderTokensNext]_providing PROVE RetryInv'
    OBVIOUS
  <1> QED BY ProviderCallKeeps, TokenKeeps DEF ProviderTokensNext

\* Whatever the cache holds, however writes to it are delayed, and however many
\* calls share it: a call is carried out at most once, and its second attempt
\* uses a token issued after the first was refused.
THEOREM RetriesUseFreshTokens == ProviderTokensSpec => []RetriesWithFreshToken
  <1>1. ASSUME RetryInv PROVE RetriesWithFreshToken
    <2>0. RetryInv
      BY <1>1
    <2> USE ProviderTokensAssumption DEF RetryInv, ProviderTokensTypeOK, Token
    <2>1. ASSUME NEW c \in Call, callStep[c] = "failed", token[c] \in revoked,
                 refusedAt[c] <= MaxToken
          PROVE  token[c] > refusedAt[c]
      <3>1. token[c] # 0 /\ token[c] \in Nat
        BY <2>0, <2>1
      <3>2. refusedAt[c] # MaxToken + 1 /\ refusedAt[c] \in Nat
        BY <2>0, <2>1
      <3> QED BY <2>0, <2>1, <3>1, <3>2
    <2> QED BY <2>0, <2>1 DEF RetriesWithFreshToken
  <1> QED BY <1>1, RetryInitially, RetryStep, PTL DEF ProviderTokensSpec

(***************************************************************************)
(* Onboarding                                                              *)
(***************************************************************************)

\* Whatever is LIVE or about to become LIVE has an approval behind it.
LiveIsApproved ==
    /\ kycStatus = "APPROVED" => approvals
    /\ environment = "LIVE" => approvals
    /\ \A w \in Switch : switchStep[w] \in Environment => approvals
    /\ \A g \in Generation : keyScope[g] = "LIVE" => approvals
    /\ LiveKeyWasApproved

\* What is complete and pending has a request that is on its way to notice.
SomebodyWillSee ==
    handedIn = Kind /\ kycStatus = "PENDING" =>
        \E s \in Submission : submitStep[s] \in {"stored", "complete", "died"}

OnboardingInv == OnboardingTypeOK /\ LiveIsApproved /\ SomebodyWillSee

LEMMA OnboardingInitially == OnboardingInit => OnboardingInv
  BY DEF OnboardingInit, OnboardingInv, OnboardingTypeOK, KycStatus, Key,
         LiveIsApproved, LiveKeyWasApproved, SomebodyWillSee, Environment,
         Kind

-----------------------------------------------------------------------------
\* A request that hands something in.
LEMMA SubmissionKeeps ==
    ASSUME OnboardingInv, NEW s \in Submission,
           \/ CheckSubmission(s)
           \/ StoreSubmission(s)
           \/ LookWhatIsThere(s)
           \/ MoveToReview(s)
           \/ EndSubmission(s)
    PROVE  OnboardingInv'
  <1> USE OnboardingAssumption
  <1> USE DEF SubmitGoes, CheckSubmission, StoreSubmission, HandIn, LookWhatIsThere,
              MoveToReview, EndSubmission
  <1>1. OnboardingTypeOK'
    BY DEF OnboardingInv, OnboardingTypeOK, KycStatus, Key
  <1>2. LiveIsApproved'
    <2>1. UNCHANGED <<environment, switchStep, keyScope, keys, approvals>>
      OBVIOUS
    <2>2. kycStatus' \in {kycStatus, "IN_REVIEW"}
      OBVIOUS
    <2> QED
      BY <2>1, <2>2 DEF OnboardingInv, LiveIsApproved, LiveKeyWasApproved
  <1>3. SomebodyWillSee'
    BY DEF OnboardingInv, OnboardingTypeOK, KycStatus, Key, SomebodyWillSee,
           IsComplete
  <1> QED BY <1>1, <1>2, <1>3 DEF OnboardingInv

\* A reviewer.
LEMMA DecisionKeeps ==
    ASSUME OnboardingInv, NEW verdict \in {"APPROVED", "REJECTED"}, Decide(verdict)
    PROVE  OnboardingInv'
  BY DEF OnboardingInv, OnboardingTypeOK, KycStatus, Key, LiveIsApproved,
         LiveKeyWasApproved, SomebodyWillSee, Decide

\* A request to switch the environment.
LEMMA SwitchKeeps ==
    ASSUME OnboardingInv, NEW w \in Switch, LoadForSwitch(w) \/ WriteEnvironment(w)
    PROVE  OnboardingInv'
  <1>1. Other(environment) \in Environment
    BY DEF Other, Environment
  <1>2. CASE LoadForSwitch(w)
    BY <1>1, <1>2 DEF OnboardingInv, OnboardingTypeOK, KycStatus, Key,
           LiveIsApproved, LiveKeyWasApproved, SomebodyWillSee, LoadForSwitch
  <1>3. CASE WriteEnvironment(w)
    BY <1>3 DEF OnboardingInv, OnboardingTypeOK, KycStatus, Key,
           LiveIsApproved, LiveKeyWasApproved, SomebodyWillSee,
           WriteEnvironment, Environment
  <1> QED BY <1>2, <1>3

\* A request for an API key.
LEMMA GenerationKeeps ==
    ASSUME OnboardingInv, NEW g \in Generation,
           \/ ScopeKey(g)
           \/ FindKey(g)
           \/ DeleteKeys(g)
           \/ SaveKey(g)
           \/ EndGeneration(g)
    PROVE  OnboardingInv'
  <1> USE DEF ScopeKey, FindKey, DeleteKeys, SaveKey, EndGeneration, KeyGoes, KeysOf
  <1>1. OnboardingTypeOK'
    BY DEF OnboardingInv, OnboardingTypeOK, KycStatus, Key
  <1>2. LiveIsApproved'
    BY DEF OnboardingInv, OnboardingTypeOK, KycStatus, Key, LiveIsApproved,
           LiveKeyWasApproved
  <1>3. SomebodyWillSee'
    BY DEF OnboardingInv, SomebodyWillSee
  <1> QED BY <1>1, <1>2, <1>3 DEF OnboardingInv

LEMMA OnboardingStep == OnboardingInv /\ [OnboardingNext]_onboarding => OnboardingInv'
  <1> SUFFICES ASSUME OnboardingInv, [OnboardingNext]_onboarding PROVE OnboardingInv'
    OBVIOUS
  <1>1. CASE UNCHANGED onboarding
    BY <1>1 DEF onboarding, OnboardingInv, OnboardingTypeOK, KycStatus, Key,
           LiveIsApproved, LiveKeyWasApproved, SomebodyWillSee
  <1> QED
    BY <1>1, SubmissionKeeps, DecisionKeeps, SwitchKeeps, GenerationKeeps
       DEF OnboardingNext

-----------------------------------------------------------------------------
\* Every variable keeps its type.
THEOREM OnboardingIsTyped == OnboardingSpec => []OnboardingTypeOK
  <1>1. OnboardingInv => OnboardingTypeOK
    BY DEF OnboardingInv
  <1> QED BY <1>1, OnboardingInitially, OnboardingStep, PTL DEF OnboardingSpec

\* However submissions overlap, the last of them to end has moved a complete
\* business to review, unless the server died under one.
THEOREM CompleteIsAlwaysReviewed == OnboardingSpec => []CompleteIsReviewed
  <1>1. OnboardingInv => CompleteIsReviewed
    BY DEF OnboardingInv, SomebodyWillSee, CompleteIsReviewed
  <1> QED BY <1>1, OnboardingInitially, OnboardingStep, PTL DEF OnboardingSpec

\* A key of the LIVE environment exists only after an approval, whatever races
\* there are between switches, generations and reviews.
THEOREM LiveKeysWereApproved == OnboardingSpec => []LiveKeyWasApproved
  <1>1. OnboardingInv => LiveKeyWasApproved
    BY DEF OnboardingInv, LiveIsApproved
  <1> QED BY <1>1, OnboardingInitially, OnboardingStep, PTL DEF OnboardingSpec

(***************************************************************************)
(* Accounts                                                                *)
(***************************************************************************)

\* People, and what requests for a password have come to.
PeopleInv ==
    /\ DOMAIN verified \subseteq User
    /\ verified \in [DOMAIN verified -> BOOLEAN]
    /\ password \in [DOMAIN verified -> {"registered"} \cup Present \cup Changer]
    /\ DOMAIN active = DOMAIN verified
    /\ members \subseteq User \X Business
    /\ changeStep \in [Changer -> {"new", "checked", "ended"}]
    /\ \A u \in DOMAIN verified : <<u, active[u]>> \in members

\* The rows of tokens, and the rows that requests are about.
TokensTyped ==
    /\ tokenRows \in Seq(TokenRow)
    /\ askStep \in [Ask -> {"named", "found", "ready", "checked", "marked", "ended"}]
    /\ presentStep \in [Present -> {"new", "loaded", "spent", "ended"}]
    /\ began \in [Ask -> Nat]
    /\ presentRow \in [Present -> Nat]
    /\ \A a \in Ask : began[a] <= Len(tokenRows)
    /\ \A p \in Present :
        /\ presentRow[p] <= Len(tokenRows)
        /\ presentStep[p] = "loaded" => presentRow[p] > 0

\* A closed row was used, and before a request closes the rows that were there
\* when it began it has marked them.
ClosedIsUsed ==
    /\ closed \subseteq 1..Len(tokenRows)
    /\ \A i \in closed : tokenRows[i].used
    /\ \A a \in Ask : askStep[a] = "marked" =>
        \A i \in 1..Len(tokenRows) :
            /\ i <= began[a]
            /\ tokenRows[i].owner = WantOf[a].owner
            /\ tokenRows[i].type = WantOf[a].type
            => tokenRows[i].used

TokensInv == TokensTyped /\ ClosedIsUsed

AccountsInv == PeopleInv /\ TokensInv

LEMMA AccountsInitially == AccountsInit => AccountsInv
  <1> SUFFICES ASSUME AccountsInit PROVE AccountsInv
    OBVIOUS
  <1>1. PeopleInv
    BY DEF AccountsInit, PeopleInv, Nobody
  <1>2. tokenRows \in Seq(TokenRow) /\ Len(tokenRows) = 0
    BY DEF AccountsInit
  <1>3. TokensInv
    BY <1>2 DEF AccountsInit, TokensInv, TokensTyped, ClosedIsUsed, FirstStep
  <1> QED BY <1>1, <1>3 DEF AccountsInv

-----------------------------------------------------------------------------
\* What a step may do to the rows: add some, expire or use them, but never
\* take back that a row was used, or change whose it is.
RowsGoOn ==
    /\ tokenRows' \in Seq(TokenRow)
    /\ Len(tokenRows') >= Len(tokenRows)
    /\ \A i \in 1..Len(tokenRows) :
        /\ tokenRows'[i].owner = tokenRows[i].owner
        /\ tokenRows'[i].type = tokenRows[i].type
        /\ tokenRows[i].used => tokenRows'[i].used

LEMMA SameRowsGoOn == TokensInv /\ UNCHANGED tokenRows => RowsGoOn
  <1> SUFFICES ASSUME TokensInv, UNCHANGED tokenRows PROVE RowsGoOn
    OBVIOUS
  <1>1. Len(tokenRows) \in Nat
    BY LenProperties DEF TokensInv, TokensTyped
  <1> QED BY <1>1 DEF TokensInv, TokensTyped, RowsGoOn

LEMMA MarkedRowsGoOn ==
    ASSUME TokensInv, NEW rs, MarkUsed(rs)
    PROVE  /\ RowsGoOn
           /\ Len(tokenRows') = Len(tokenRows)
           /\ \A i \in 1..Len(tokenRows) : i \in rs => tokenRows'[i].used
  <1> DEFINE n == Len(tokenRows)
  <1>1. /\ tokenRows \in Seq(TokenRow) /\ n \in Nat
        /\ tokenRows \in [1..n -> TokenRow]
        /\ DOMAIN tokenRows = 1..n
    BY LenProperties DEF TokensInv, TokensTyped
  <1> HIDE DEF n
  <1>2. tokenRows' = [i \in 1..n |->
            IF i \in rs THEN [tokenRows[i] EXCEPT !.used = TRUE] ELSE tokenRows[i]]
    BY <1>1 DEF MarkUsed
  <1>3. \A i \in 1..n : tokenRows[i] \in TokenRow
    BY <1>1
  <1>4. ASSUME NEW i \in 1..n
        PROVE  /\ tokenRows'[i] \in TokenRow
               /\ tokenRows'[i].owner = tokenRows[i].owner
               /\ tokenRows'[i].type = tokenRows[i].type
               /\ tokenRows[i].used => tokenRows'[i].used
               /\ i \in rs => tokenRows'[i].used
    <2>1. CASE i \in rs
      BY <1>2, <1>3, <2>1 DEF TokenRow
    <2>2. CASE i \notin rs
      BY <1>2, <1>3, <2>2
    <2> QED BY <2>1, <2>2
  <1>5. tokenRows' \in [1..n -> TokenRow]
    BY <1>2, <1>4
  <1>6. tokenRows' \in Seq(TokenRow) /\ Len(tokenRows') = n
    BY <1>1, <1>5, SeqDef, LenProperties
  <1> QED BY <1>1, <1>4, <1>6 DEF RowsGoOn, n

LEMMA SavedRowGoesOn ==
    ASSUME TokensInv, NEW a \in Ask, SaveToken(a)
    PROVE  RowsGoOn
  <1> DEFINE new == [owner |-> WantOf[a].owner, type |-> WantOf[a].type,
                     used |-> FALSE, expired |-> FALSE]
  <1>1. new \in TokenRow
    BY AccountsAssumption DEF TokenRow
  <1>2. tokenRows \in Seq(TokenRow) /\ tokenRows' = Append(tokenRows, new)
    BY DEF SaveToken, TokensInv, TokensTyped
  <1> HIDE DEF new
  <1>3. /\ tokenRows' \in Seq(TokenRow)
        /\ Len(tokenRows) \in Nat
        /\ Len(tokenRows') = Len(tokenRows) + 1
        /\ \A i \in 1..Len(tokenRows) : tokenRows'[i] = tokenRows[i]
    BY <1>1, <1>2, AppendProperties, LenProperties
  <1> QED BY <1>3 DEF RowsGoOn

LEMMA ExpiredRowGoesOn ==
    ASSUME TokensInv, NEW i \in DOMAIN tokenRows, ExpireToken(i)
    PROVE  RowsGoOn /\ Len(tokenRows') = Len(tokenRows)
  <1> DEFINE n == Len(tokenRows)
  <1>1. /\ n \in Nat
        /\ tokenRows \in [1..n -> TokenRow]
        /\ i \in 1..n
    BY LenProperties DEF TokensInv, TokensTyped
  <1> HIDE DEF n
  <1>2. tokenRows' = [tokenRows EXCEPT ![i].expired = TRUE]
    BY DEF ExpireToken
  <1>3. tokenRows[i] \in TokenRow
    BY <1>1
  <1>4. /\ tokenRows'[i] = [tokenRows[i] EXCEPT !.expired = TRUE]
        /\ \A j \in 1..n : j # i => tokenRows'[j] = tokenRows[j]
    BY <1>1, <1>2
  <1>5. /\ tokenRows'[i] \in TokenRow
        /\ tokenRows'[i].owner = tokenRows[i].owner
        /\ tokenRows'[i].type = tokenRows[i].type
        /\ tokenRows'[i].used = tokenRows[i].used
    BY <1>3, <1>4 DEF TokenRow
  <1>6. tokenRows' \in [1..n -> TokenRow]
    BY <1>1, <1>2, <1>4, <1>5
  <1>7. tokenRows' \in Seq(TokenRow) /\ Len(tokenRows') = n
    BY <1>1, <1>6, SeqDef, LenProperties
  <1>8. \A j \in 1..n :
            /\ tokenRows'[j].owner = tokenRows[j].owner
            /\ tokenRows'[j].type = tokenRows[j].type
            /\ tokenRows[j].used => tokenRows'[j].used
    BY <1>4, <1>5
  <1>9. n >= n
    BY <1>1
  <1> QED BY <1>7, <1>8, <1>9 DEF RowsGoOn, n

-----------------------------------------------------------------------------
\* A request for a token is a step further, but has not marked the earlier
\* rows just now.
LEMMA AskKeeps ==
    ASSUME TokensInv, RowsGoOn, NEW a \in Ask, UNCHANGED <<presenting, closed>>,
           NEW to \in {"found", "ready", "checked", "ended"},
           askStep' = [askStep EXCEPT ![a] = to],
           \/ UNCHANGED began
           \/ began' = [began EXCEPT ![a] = Len(tokenRows)]
    PROVE  TokensInv'
  <1>1. Len(tokenRows) \in Nat /\ Len(tokenRows') \in Nat
    BY LenProperties DEF TokensInv, TokensTyped, RowsGoOn
  <1>2. TokensTyped'
    <2>1. /\ began' \in [Ask -> Nat]
          /\ askStep' \in [Ask -> {"named", "found", "ready", "checked", "marked", "ended"}]
      BY <1>1 DEF TokensInv, TokensTyped
    <2>2. ASSUME NEW b \in Ask PROVE began'[b] <= Len(tokenRows')
      <3>1. began[b] \in Nat /\ began[b] <= Len(tokenRows)
        BY DEF TokensInv, TokensTyped
      <3>2. began'[b] \in {began[b], Len(tokenRows)}
        BY DEF TokensInv, TokensTyped
      <3> QED BY <1>1, <3>1, <3>2 DEF RowsGoOn
    <2>3. UNCHANGED <<presentStep, presentRow>>
      BY DEF presenting
    <2>4. \A p \in Present :
            /\ presentRow[p] <= Len(tokenRows')
            /\ presentStep[p] = "loaded" => presentRow[p] > 0
      BY <1>1 DEF TokensInv, TokensTyped, RowsGoOn
    <2>5. tokenRows' \in Seq(TokenRow)
      BY DEF RowsGoOn
    <2> QED
      BY <2>1, <2>2, <2>3, <2>4, <2>5 DEF TokensInv, TokensTyped
  <1>3. \A b \in Ask : askStep'[b] = "marked" =>
            askStep[b] = "marked" /\ began'[b] = began[b] /\ began[b] <= Len(tokenRows)
                /\ began[b] \in Nat
    BY DEF TokensInv, TokensTyped
  <1>4. ClosedIsUsed'
    BY <1>1, <1>3 DEF TokensInv, ClosedIsUsed, RowsGoOn
  <1> QED BY <1>2, <1>4 DEF TokensInv

\* A request that presents a token is a step further.
LEMMA PresentKeeps ==
    ASSUME TokensInv, RowsGoOn, NEW p \in Present, UNCHANGED asking,
           NEW to \in {"loaded", "spent", "ended"},
           presentStep' = [presentStep EXCEPT ![p] = to],
           \/ UNCHANGED presentRow /\ to # "loaded"
           \/ \E i \in 1..Len(tokenRows) : presentRow' = [presentRow EXCEPT ![p] = i],
           closed \subseteq closed', closed' \subseteq 1..Len(tokenRows),
           \A i \in closed' : i \notin closed => tokenRows'[i].used
    PROVE  TokensInv'
  <1>1. Len(tokenRows) \in Nat /\ Len(tokenRows') \in Nat
    BY LenProperties DEF TokensInv, TokensTyped, RowsGoOn
  <1>2. TokensTyped'
    <2>1. UNCHANGED <<askStep, began>>
      BY DEF asking
    <2>2. \A a \in Ask : began[a] <= Len(tokenRows')
      BY <1>1 DEF TokensInv, TokensTyped, RowsGoOn
    <2>3. /\ presentRow' \in [Present -> Nat]
          /\ presentStep' \in [Present -> {"new", "loaded", "spent", "ended"}]
      <3>1. CASE UNCHANGED presentRow
        BY <3>1 DEF TokensInv, TokensTyped
      <3>2. ASSUME NEW i \in 1..Len(tokenRows), presentRow' = [presentRow EXCEPT ![p] = i]
            PROVE  presentRow' \in [Present -> Nat]
        BY <1>1, <3>2 DEF TokensInv, TokensTyped
      <3> QED BY <3>1, <3>2 DEF TokensInv, TokensTyped
    <2>4. \A q \in Present :
            /\ presentRow'[q] <= Len(tokenRows')
            /\ presentStep'[q] = "loaded" => presentRow'[q] > 0
      BY <1>1 DEF TokensInv, TokensTyped, RowsGoOn
    <2>5. tokenRows' \in Seq(TokenRow)
      BY DEF RowsGoOn
    <2> QED
      BY <2>1, <2>2, <2>3, <2>4, <2>5 DEF TokensInv, TokensTyped
  <1>3. ClosedIsUsed'
    <2>1. UNCHANGED <<askStep, began>>
      BY DEF asking
    <2>2. \A i \in closed' : i \in 1..Len(tokenRows') /\ tokenRows'[i].used
      BY <1>1 DEF TokensInv, ClosedIsUsed, RowsGoOn
    <2>3. ASSUME NEW a \in Ask, askStep[a] = "marked",
                 NEW i \in 1..Len(tokenRows'), i <= began[a],
                 tokenRows'[i].owner = WantOf[a].owner,
                 tokenRows'[i].type = WantOf[a].type
          PROVE  tokenRows'[i].used
      <3>1. i \in 1..Len(tokenRows)
        BY <1>1, <2>3 DEF TokensInv, TokensTyped
      <3> QED BY <2>3, <3>1 DEF TokensInv, ClosedIsUsed, RowsGoOn
    <2> QED BY <2>1, <2>2, <2>3 DEF ClosedIsUsed
  <1> QED BY <1>2, <1>3 DEF TokensInv

\* No request for a token is a step further.
LEMMA RowsKeep ==
    ASSUME TokensInv, RowsGoOn, UNCHANGED <<asking, presenting, closed>>
    PROVE  TokensInv'
  <1>1. Len(tokenRows) \in Nat /\ Len(tokenRows') \in Nat
    BY LenProperties DEF TokensInv, TokensTyped, RowsGoOn
  <1>2. TokensTyped'
    BY <1>1 DEF TokensInv, TokensTyped, RowsGoOn, asking, presenting
  <1>3. ClosedIsUsed'
    BY <1>1 DEF TokensInv, TokensTyped, ClosedIsUsed, RowsGoOn, asking
  <1> QED BY <1>2, <1>3 DEF TokensInv

\* The request that closes: first it marks ...
LEMMA MarkEarlierKeeps ==
    ASSUME TokensInv, NEW a \in Ask, MarkEarlier(a)
    PROVE  TokensInv'
  <1>1. /\ RowsGoOn
        /\ Len(tokenRows') = Len(tokenRows)
        /\ \A i \in 1..Len(tokenRows) :
            i \in RowsFor(WantOf[a]) => tokenRows'[i].used
    BY MarkedRowsGoOn DEF MarkEarlier
  <1>2. /\ askStep' = [askStep EXCEPT ![a] = "marked"]
        /\ UNCHANGED <<began, presenting, closed>>
    BY DEF MarkEarlier, AskGoes
  <1>3. Len(tokenRows) \in Nat /\ DOMAIN tokenRows = 1..Len(tokenRows)
    BY LenProperties DEF TokensInv, TokensTyped
  <1>4. TokensTyped'
    BY <1>1, <1>2, <1>3 DEF TokensInv, TokensTyped, RowsGoOn, presenting
  <1>5. ASSUME NEW b \in Ask, askStep'[b] = "marked",
               NEW i \in 1..Len(tokenRows), i <= began[b],
               tokenRows[i].owner = WantOf[b].owner,
               tokenRows[i].type = WantOf[b].type
        PROVE  tokenRows'[i].used
    <2>1. CASE b = a
      BY <1>1, <1>3, <1>5, <2>1 DEF RowsFor
    <2>2. CASE b # a
      <3>1. askStep[b] = "marked"
        BY <1>2, <1>5, <2>2 DEF TokensInv, TokensTyped
      <3> QED BY <1>1, <1>5, <3>1 DEF TokensInv, ClosedIsUsed, RowsGoOn
    <2> QED BY <2>1, <2>2
  <1>6. ClosedIsUsed'
    BY <1>1, <1>2, <1>5 DEF TokensInv, ClosedIsUsed, RowsGoOn
  <1> QED BY <1>4, <1>6 DEF TokensInv

\* ... and then stores a new row, which is not one of those.
LEMMA SaveTokenKeeps ==
    ASSUME TokensInv, NEW a \in Ask, SaveToken(a)
    PROVE  TokensInv'
  <1>1. RowsGoOn
    BY SavedRowGoesOn
  <1>2. /\ askStep[a] = "marked"
        /\ askStep' = [askStep EXCEPT ![a] = "ended"]
        /\ closed' = closed \cup {i \in RowsFor(WantOf[a]) : i <= began[a]}
        /\ UNCHANGED <<began, presenting>>
    BY DEF SaveToken, AskGoes
  <1>3. /\ Len(tokenRows) \in Nat /\ Len(tokenRows') \in Nat
        /\ DOMAIN tokenRows = 1..Len(tokenRows)
    BY <1>1, LenProperties DEF TokensInv, TokensTyped, RowsGoOn
  <1>4. TokensTyped'
    BY <1>1, <1>2, <1>3 DEF TokensInv, TokensTyped, RowsGoOn, presenting
  <1>5. ASSUME NEW i \in closed'
        PROVE  i \in 1..Len(tokenRows) /\ tokenRows[i].used
    <2>1. CASE i \in closed
      BY <2>1 DEF TokensInv, ClosedIsUsed
    <2>2. CASE i \in RowsFor(WantOf[a]) /\ i <= began[a]
      BY <1>2, <1>3, <2>2 DEF TokensInv, ClosedIsUsed, RowsFor
    <2> QED BY <1>2, <1>5, <2>1, <2>2
  <1>6. ASSUME NEW b \in Ask, askStep'[b] = "marked"
        PROVE  /\ askStep[b] = "marked" /\ began'[b] = began[b]
               /\ began[b] \in Nat /\ began[b] <= Len(tokenRows)
    BY <1>2, <1>6 DEF TokensInv, TokensTyped
  <1>7. ClosedIsUsed'
    BY <1>1, <1>3, <1>5, <1>6 DEF TokensInv, ClosedIsUsed, RowsGoOn
  <1> QED BY <1>4, <1>7 DEF TokensInv

LEMMA TokensStep == TokensInv /\ [AccountsNext]_accounts => TokensInv'
  <1> SUFFICES ASSUME TokensInv, [AccountsNext]_accounts PROVE TokensInv'
    OBVIOUS
  <1>1. CASE UNCHANGED <<tokenRows, asking, presenting, closed>>
    BY <1>1, SameRowsGoOn, RowsKeep
  <1>2. ASSUME NEW a \in Ask,
               FindPrevious(a) \/ MarkPrevious(a) \/ CheckToken(a) \/ EndAsk(a)
        PROVE  TokensInv'
    <2>1. RowsGoOn
      BY <1>2, SameRowsGoOn, MarkedRowsGoOn
         DEF FindPrevious, MarkPrevious, CheckToken, EndAsk
    <2>2. /\ UNCHANGED <<presenting, closed>>
          /\ \E to \in {"found", "ready", "checked", "ended"} :
                askStep' = [askStep EXCEPT ![a] = to]
          /\ \/ UNCHANGED began
             \/ began' = [began EXCEPT ![a] = Len(tokenRows)]
      BY <1>2 DEF FindPrevious, MarkPrevious, CheckToken, EndAsk, AskGoes
    <2> QED BY <2>1, <2>2, AskKeeps
  <1>3. ASSUME NEW p \in Present, LoadToken(p) \/ SpendToken(p) \/ VerifyEmail(p)
                                    \/ ResetPassword(p) \/ EndPresent(p)
        PROVE  TokensInv'
    <2>0. /\ Len(tokenRows) \in Nat /\ DOMAIN tokenRows = 1..Len(tokenRows)
          /\ closed \subseteq 1..Len(tokenRows)
      BY LenProperties DEF TokensInv, TokensTyped, ClosedIsUsed
    <2>1. CASE LoadToken(p)
      <3>1. PICK i \in 1..Len(tokenRows) : presentRow' = [presentRow EXCEPT ![p] = i]
        BY <2>0, <2>1 DEF LoadToken
      <3> QED
        BY <2>0, <2>1, <3>1, SameRowsGoOn, PresentKeeps DEF LoadToken
    <2>2. CASE SpendToken(p)
      <3>1. RowsGoOn /\ (presentRow[p] \in 1..Len(tokenRows) => tokenRows'[presentRow[p]].used)
        BY <2>2, MarkedRowsGoOn DEF SpendToken
      <3>2. presentRow[p] \in 1..Len(tokenRows)
        BY <2>0, <2>2 DEF SpendToken, TokensInv, TokensTyped
      <3>3. /\ presentStep' = [presentStep EXCEPT ![p] = "spent"]
            /\ UNCHANGED presentRow /\ UNCHANGED asking
            /\ closed' = closed \cup {presentRow[p]}
        BY <2>2 DEF SpendToken
      <3> QED BY <2>0, <3>1, <3>2, <3>3, PresentKeeps
    <2>3. CASE VerifyEmail(p) \/ ResetPassword(p) \/ EndPresent(p)
      <3>1. /\ UNCHANGED <<tokenRows, asking, presentRow, closed>>
            /\ presentStep' = [presentStep EXCEPT ![p] = "ended"]
        BY <2>3 DEF VerifyEmail, ResetPassword, EndPresent, Applies
      <3> QED BY <2>0, <3>1, SameRowsGoOn, PresentKeeps
    <2> QED BY <1>3, <2>1, <2>2, <2>3
  <1>4. ASSUME NEW i \in DOMAIN tokenRows, ExpireToken(i) PROVE TokensInv'
    <2>1. UNCHANGED <<asking, presenting, closed>>
      BY <1>4 DEF ExpireToken
    <2> QED BY <1>4, <2>1, ExpiredRowGoesOn, RowsKeep
  <1>5. ASSUME NEW u \in User,
               \/ SetupNewAccount(u)
               \/ CreateBusinessForUser(u)
               \/ \E b \in Business : SwitchBusiness(u, b)
        PROVE  TokensInv'
    BY <1>1, <1>5 DEF SetupNewAccount, CreateBusinessForUser, SwitchBusiness
  <1>6. ASSUME NEW c \in Changer, CheckPassword(c) \/ WritePassword(c)
        PROVE  TokensInv'
    BY <1>1, <1>6 DEF CheckPassword, WritePassword
  <1> QED
    BY <1>1, <1>2, <1>3, <1>4, <1>5, <1>6, MarkEarlierKeeps, SaveTokenKeeps
       DEF AccountsNext, accounts

-----------------------------------------------------------------------------
(* People *)

LEMMA NewcomerKeeps ==
    ASSUME PeopleInv, NEW u \in User, SetupNewAccount(u)
    PROVE  PeopleInv'
  <1>1. PICK b \in Business :
            members' = members \cup {<<u, b>>} /\ active' = With(active, u, b)
    BY DEF SetupNewAccount, Join, Unused
  <1>2. /\ verified' = With(verified, u, FALSE)
        /\ password' = With(password, u, "registered")
        /\ u \notin DOMAIN verified
        /\ UNCHANGED changeStep
    BY DEF SetupNewAccount, Registered
  <1>3. /\ DOMAIN password = DOMAIN verified
        /\ DOMAIN active = DOMAIN verified
    BY DEF PeopleInv
  <1>4. /\ DOMAIN verified' = DOMAIN verified \cup {u}
        /\ verified' \in [DOMAIN verified' -> BOOLEAN]
    BY <1>2 DEF With, PeopleInv
  <1>5. password' \in [DOMAIN verified' -> {"registered"} \cup Present \cup Changer]
    BY <1>2, <1>3, <1>4 DEF With, PeopleInv
  <1>6. /\ DOMAIN active' = DOMAIN verified'
        /\ \A x \in DOMAIN verified' : <<x, active'[x]>> \in members'
    BY <1>1, <1>3, <1>4 DEF With, PeopleInv
  <1>7. /\ DOMAIN verified' \subseteq User
        /\ changeStep' \in [Changer -> {"new", "checked", "ended"}]
    BY <1>2, <1>4 DEF PeopleInv
  <1>8. members' \subseteq User \X Business
    BY <1>1 DEF PeopleInv
  <1> QED BY <1>4, <1>5, <1>6, <1>7, <1>8, Zenon DEF PeopleInv

LEMMA PeopleStep == PeopleInv /\ [AccountsNext]_accounts => PeopleInv'
  <1> SUFFICES ASSUME PeopleInv, [AccountsNext]_accounts PROVE PeopleInv'
    OBVIOUS
  <1>1. CASE UNCHANGED people
    BY <1>1 DEF people, PeopleInv
  <1>2. ASSUME NEW u \in User, CreateBusinessForUser(u) PROVE PeopleInv'
    BY <1>2 DEF CreateBusinessForUser, Unused, Join, PeopleInv
  <1>3. ASSUME NEW u \in User, NEW b \in Business, SwitchBusiness(u, b)
        PROVE  PeopleInv'
    BY <1>3 DEF SwitchBusiness, IsMember, PeopleInv
  <1>4. ASSUME NEW c \in Changer, CheckPassword(c) PROVE PeopleInv'
    BY <1>4 DEF CheckPassword, PeopleInv
  <1>5. ASSUME NEW c \in Changer, WritePassword(c) PROVE PeopleInv'
    BY <1>5 DEF WritePassword, PeopleInv
  <1>6. ASSUME NEW p \in Present, VerifyEmail(p) PROVE PeopleInv'
    BY <1>6 DEF VerifyEmail, Applies, PeopleInv
  <1>7. ASSUME NEW p \in Present, ResetPassword(p) PROVE PeopleInv'
    BY <1>7 DEF ResetPassword, Applies, PeopleInv
  <1>8. ASSUME NEW a \in Ask, FindPrevious(a) \/ MarkPrevious(a) \/ CheckToken(a)
                                \/ MarkEarlier(a) \/ SaveToken(a) \/ EndAsk(a)
        PROVE  PeopleInv'
    BY <1>1, <1>8 DEF FindPrevious, MarkPrevious, CheckToken, MarkEarlier,
           SaveToken, EndAsk, AskGoes
  <1>9. ASSUME NEW p \in Present, LoadToken(p) \/ SpendToken(p) \/ EndPresent(p)
        PROVE  PeopleInv'
    BY <1>1, <1>9 DEF LoadToken, SpendToken, EndPresent
  <1>10. ASSUME NEW i \in DOMAIN tokenRows, ExpireToken(i) PROVE PeopleInv'
    BY <1>1, <1>10 DEF ExpireToken
  <1> QED
    BY <1>1, <1>2, <1>3, <1>4, <1>5, <1>6, <1>7, <1>8, <1>9, <1>10,
       NewcomerKeeps
       DEF AccountsNext, accounts

LEMMA AccountsStep == AccountsInv /\ [AccountsNext]_accounts => AccountsInv'
  BY TokensStep, PeopleStep DEF AccountsInv

LEMMA AccountsInvIsTyped == AccountsInv => AccountsTypeOK
  <1> SUFFICES ASSUME AccountsInv PROVE AccountsTypeOK
    OBVIOUS
  <1>1. /\ Len(tokenRows) \in Nat /\ DOMAIN tokenRows = 1..Len(tokenRows)
        /\ \A i \in DOMAIN tokenRows : tokenRows[i] \in TokenRow
    BY ElementOfSeq, LenProperties DEF AccountsInv, TokensInv, TokensTyped
  <1>2. \A p \in Present : presentRow[p] \in 0..Len(tokenRows)
    BY <1>1 DEF AccountsInv, TokensInv, TokensTyped
  <1>3. closed \subseteq DOMAIN tokenRows
    BY <1>1 DEF AccountsInv, TokensInv, ClosedIsUsed
  <1> QED
    BY <1>1, <1>2, <1>3 DEF AccountsInv, PeopleInv, TokensInv, TokensTyped,
           AccountsTypeOK

\* Every variable keeps its type; in particular a registered user is a member
\* of the business he is active in.
THEOREM AccountsAreTyped == AccountsSpec => []AccountsTypeOK
  BY AccountsInitially, AccountsStep, AccountsInvIsTyped, PTL DEF AccountsSpec

\* For any number of requests, in whatever order they load, mark and store: a
\* token that was accepted, or that a later request for one found, is refused.
THEOREM ClosedTokensAreRefused == AccountsSpec => ClosedIsRefused
  <1>1. ASSUME AccountsInv, [AccountsNext]_accounts, NEW p \in Present,
               presentStep[p] = "new", presentStep'[p] = "loaded"
        PROVE  presentRow'[p] \notin closed
    <2>1. \A q \in Present : presentStep' = [presentStep EXCEPT ![q] = "loaded"] => q = p
      BY <1>1 DEF AccountsInv, TokensInv, TokensTyped
    <2>2. \A q \in Present, to \in {"spent", "ended"} :
            presentStep' # [presentStep EXCEPT ![q] = to]
      BY <1>1 DEF AccountsInv, TokensInv, TokensTyped
    <2>3. ~UNCHANGED presentStep
      BY <1>1
    <2>4. LoadToken(p)
      BY <1>1, <2>1, <2>2, <2>3 DEF AccountsNext, accounts, presenting,
             SetupNewAccount, CreateBusinessForUser, SwitchBusiness,
             CheckPassword, WritePassword, FindPrevious, MarkPrevious,
             CheckToken, MarkEarlier, SaveToken, EndAsk, AskGoes, LoadToken,
             SpendToken, VerifyEmail, ResetPassword, Applies, EndPresent,
             ExpireToken
    <2>5. PICK i \in DOMAIN tokenRows :
            ~tokenRows[i].used /\ presentRow' = [presentRow EXCEPT ![p] = i]
      BY <2>4 DEF LoadToken
    <2> QED BY <1>1, <2>5 DEF AccountsInv, TokensInv, TokensTyped,
                   ClosedIsUsed
  <1>2. AccountsInv /\ [AccountsNext]_accounts
          => [\A p \in Present :
                presentStep[p] = "new" /\ presentStep'[p] = "loaded" =>
                    presentRow'[p] \notin closed]_accounts
    BY <1>1
  <1> QED
    BY <1>2, AccountsInitially, AccountsStep, PTL
       DEF AccountsSpec, ClosedIsRefused

(***************************************************************************)
(* The parts side by side                                                  *)
(***************************************************************************)

PartsInv ==
    /\ EndedInv
    /\ InvoicesInv /\ InvoicesTyped
    /\ FeesInv
    /\ SweepsInv /\ SweepsTypeOK
    /\ RetryInv
    /\ OnboardingInv
    /\ AccountsInv

\* A step is one of a single part, and none of the others.
PartsMove ==
    /\ [CheckoutNext]_checkout
    /\ [InvoicesNext]_invoicing
    /\ [InvoiceFeesNext]_invoiceFees
    /\ [SweepsNext]_sweeping
    /\ [ProviderTokensNext]_providing
    /\ [OnboardingNext]_onboarding
    /\ [AccountsNext]_accounts

LEMMA PartsStep == PartsInv /\ [PartsNext]_parts => PartsInv'
  <1> SUFFICES ASSUME PartsInv, [PartsNext]_parts PROVE PartsInv'
    OBVIOUS
  <1>1. PartsMove
    BY DEF PartsNext, parts, PartsMove
  <1>2. EndedInv'
    BY <1>1, EndedStep DEF PartsInv, PartsMove
  <1>3. InvoicesInv' /\ InvoicesTyped'
    BY <1>1, InvoicesStep, InvoicesTypedStep DEF PartsInv, PartsMove
  <1>4. FeesInv'
    BY <1>1, FeesStep DEF PartsInv, PartsMove
  <1>5. SweepsInv' /\ SweepsTypeOK'
    BY <1>1, SweepsStep, SweepsTypedStep DEF PartsInv, PartsMove
  <1>6. RetryInv'
    BY <1>1, RetryStep DEF PartsInv, PartsMove
  <1>7. OnboardingInv'
    BY <1>1, OnboardingStep DEF PartsInv, PartsMove
  <1>8. AccountsInv'
    BY <1>1, AccountsStep DEF PartsInv, PartsMove
  <1> QED BY <1>2, <1>3, <1>4, <1>5, <1>6, <1>7, <1>8 DEF PartsInv

\* Every variable of every part keeps its type.
THEOREM PartsAreTyped == PartsSpec => []PartsTypeOK
  <1>1. PartsInit => PartsInv
    <2>1. SweepsInit => SweepsTypeOK
      BY DEF SweepsInit, SweepsTypeOK
    <2> QED
      BY <2>1, EndedInitially, InvoicesInitially, InvoicesTypedInitially,
         FeesInitially, SweepsInitially, RetryInitially, OnboardingInitially,
         AccountsInitially
         DEF PartsInit, PartsInv
  <1>2. PartsInv => PartsTypeOK
    BY EndedIsTyped, AccountsInvIsTyped DEF PartsInv, PartsTypeOK,
           InvoicesTyped, FeesInv, RetryInv, OnboardingInv
  <1> QED BY <1>1, <1>2, PartsStep, PTL DEF PartsSpec

=============================================================================
