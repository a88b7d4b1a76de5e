--------------------------- MODULE CheckoutProofs ---------------------------
(***************************************************************************)
(* Theorems about Checkout, for any orders, cards, sales and terminals:    *)
(* it implements IntakeContract, every credit has its row, an approved     *)
(* charge was credited, and a job that ended well has told the merchant.   *)
(***************************************************************************)
EXTENDS Checkout, FiniteSetTheorems, TLAPS

USE TransactionsAssumption, CardsAssumption, PosAssumption

(***************************************************************************)
(* The inductive invariant                                                 *)
(***************************************************************************)

IsSettled(x) == x.executionStatus = "SUCCESS"

\* Rows have their own reference; those under ours belong to the order of the
\* request, those under a merchant's were declined.
RowsAreRows ==
    /\ rows \subseteq Row
    /\ IsFiniteSet(rows)
    /\ \A x, y \in rows : x.reference = y.reference => x = y
    /\ \A x \in rows :
        /\ x.reference \in Request => x.merchantReference = RefOf[x.reference]
        /\ x.reference \in Order => x.executionStatus = "FAILED"
        /\ \A r \in Request :
            x.idempotencyKey = <<"collection-settlement", r>> => x.reference = r

\* The settled rows and the credits are the same.
CreditsAreRows ==
    /\ credits \in [Order -> {0, 1}]
    /\ \A x \in rows : IsSettled(x) => credits[x.merchantReference] = 1
    /\ \A o \in Order :
        credits[o] = 1 => \E x \in rows : IsSettled(x) /\ x.merchantReference = o
    /\ \A x, y \in rows :
        /\ IsSettled(x) /\ IsSettled(y)
        /\ x.merchantReference = y.merchantReference
        => x = y

RowsInv == RowsAreRows /\ CreditsAreRows

\* A job that has started was queued, and has credited once it has settled.
CardsInv ==
    /\ cardStep \in [Card -> {"new", "looked", "stored", "ended"}]
    /\ held \in [Card -> {"none", "held", "taken", "declined"}]
    /\ job \in [Card -> {"none", "waiting", "active", "completed", "failed"}]
    /\ jobStep \in [Card -> {"idle", "loaded", "settled", "marked", "reconciled"}]
    /\ \A r \in Card :
        /\ cardStep[r] # "ended" => held[r] = "none"
        /\ jobStep[r] # "idle" => job[r] # "none"
        /\ jobStep[r] \in {"settled", "marked", "reconciled"} => credits[RefOf[r]] = 1

\* The stored charge is the charge, and past the settlement it is credited.
SalesInv ==
    /\ posStep \in [Sale -> {"new", "looked", "checked", "charged", "saved",
                             "settled", "ended", "answered"}]
    /\ charge \in [Sale -> {"none", "taken", "declined"}]
    /\ pos \in [Sale -> {"NONE", "SUCCESS", "FAILED"}]
    /\ \A s \in Sale :
        /\ posStep[s] \in {"new", "looked", "checked"} =>
            charge[s] = "none" /\ pos[s] = "NONE"
        /\ posStep[s] = "charged" => pos[s] = "NONE"
        /\ pos[s] = "SUCCESS" => charge[s] = "taken"
        /\ posStep[s] \in {"saved", "settled", "answered"} =>
            /\ pos[s] # "NONE"
            /\ charge[s] = "taken" => pos[s] = "SUCCESS"
        /\ posStep[s] \in {"settled", "answered"} /\ pos[s] = "SUCCESS" =>
            credits[RefOf[s]] = 1

CheckoutInv == RowsInv /\ CardsInv /\ SalesInv

LEMMA CheckoutInitially == CheckoutInit => CheckoutInv
  BY FS_EmptySet DEF CheckoutInit, TransactionsInit, CardsInit, PosInit,
         CheckoutInv, RowsInv, RowsAreRows, CreditsAreRows, CardsInv, SalesInv

-----------------------------------------------------------------------------
(* Rows that are added and changed *)

\* The reference of a settled row is one of ours.
LEMMA SettledIsOurs ==
    ASSUME RowsInv, NEW x \in rows, IsSettled(x)
    PROVE  /\ x.reference \in Request
           /\ x.merchantReference = RefOf[x.reference]
           /\ x.merchantReference \in Order
  BY DEF RowsInv, RowsAreRows, IsSettled, Row

\* A row that is not settled is added.
LEMMA CreateKeeps ==
    ASSUME RowsInv, NEW new \in Row, CreateTransaction(new), UNCHANGED credits,
           new.executionStatus # "SUCCESS",
           new.reference \in Request => new.merchantReference = RefOf[new.reference],
           new.reference \in Order => new.executionStatus = "FAILED",
           \A r \in Request : new.idempotencyKey # <<"collection-settlement", r>>
    PROVE  RowsInv'
  <1>1. CASE UNCHANGED rows
    BY <1>1 DEF RowsInv, RowsAreRows, CreditsAreRows
  <1>2. CASE /\ BySystemReference(new.reference) = {}
             /\ rows' = rows \cup {new}
    <2>1. IsFiniteSet(rows')
      BY <1>2, FS_AddElement DEF RowsInv, RowsAreRows
    <2>2. \A x \in rows : x.reference # new.reference
      BY <1>2 DEF BySystemReference
    <2>3. RowsAreRows'
      BY <1>2, <2>1, <2>2 DEF RowsInv, RowsAreRows
    <2>4. CreditsAreRows'
      BY <1>2 DEF RowsInv, CreditsAreRows, IsSettled
    <2> QED BY <2>3, <2>4 DEF RowsInv
  <1> QED BY <1>1, <1>2 DEF CreateTransaction

\* The rank of a new row.
LEMMA LastIsNat == RowsInv => Last \in Nat
  BY FS_CardinalityType DEF RowsInv, RowsAreRows, Last

\* The provider's reference is written to a row.
LEMMA SourceKeeps ==
    ASSUME RowsInv, NEW s \in Sale, UpdateBySource(s, Theirs), UNCHANGED credits
    PROVE  RowsInv'
  <1>1. PICK x \in rows :
            rows' = (rows \ {x}) \cup {[x EXCEPT !.providerReference = Theirs]}
    BY DEF UpdateBySource
  <1> DEFINE y == [x EXCEPT !.providerReference = Theirs]
  <1>2. /\ y \in Row
        /\ y.reference = x.reference /\ y.merchantReference = x.merchantReference
        /\ y.executionStatus = x.executionStatus /\ y.idempotencyKey = x.idempotencyKey
    BY DEF Row, RowsInv, RowsAreRows
  <1> HIDE DEF y
  <1>3. IsFiniteSet(rows')
    BY <1>1, FS_AddElement, FS_RemoveElement DEF RowsInv, RowsAreRows, y
  <1>4. rows' = (rows \ {x}) \cup {y}
    BY <1>1 DEF y
  <1>5. RowsAreRows'
    BY <1>2, <1>3, <1>4 DEF RowsInv, RowsAreRows
  <1>6. CreditsAreRows'
    BY <1>2, <1>4 DEF RowsInv, CreditsAreRows, IsSettled
  <1> QED BY <1>5, <1>6 DEF RowsInv

\* A settled row for an order that has none, in place of the request's own or
\* as a new one.
LEMMA SettledRowKeeps ==
    ASSUME RowsInv, NEW r \in Request, NEW y \in Row, NEW old,
           \A x \in rows : IsSettled(x) => x.merchantReference # RefOf[r],
           old = BySystemReference(r),
           rows' = (rows \ old) \cup {y},
           y.reference = r, y.merchantReference = RefOf[r], IsSettled(y),
           \A q \in Request : y.idempotencyKey = <<"collection-settlement", q>> => q = r,
           credits' = [credits EXCEPT ![RefOf[r]] = @ + 1]
    PROVE  /\ RowsInv'
           /\ credits[RefOf[r]] = 0
           /\ credits' = [credits EXCEPT ![RefOf[r]] = 1]
  <1>1. RefOf[r] \in Order /\ r \notin Order
    OBVIOUS
  <1>2. credits[RefOf[r]] = 0
    BY <1>1 DEF RowsInv, CreditsAreRows
  <1>3. credits' = [credits EXCEPT ![RefOf[r]] = 1]
    BY <1>2
  <1>4. \A x \in rows : x \in old <=> x.reference = r
    BY DEF BySystemReference
  <1>5. IsFiniteSet(rows')
    <2>1. IsFiniteSet(rows \ old)
      BY FS_Subset DEF RowsInv, RowsAreRows
    <2> QED BY <2>1, FS_AddElement
  <1>6. RowsAreRows'
    BY <1>1, <1>4, <1>5 DEF RowsInv, RowsAreRows, IsSettled
  <1>7. ASSUME NEW x \in rows, IsSettled(x)
        PROVE  x \notin old /\ x \in rows' /\ x.merchantReference # RefOf[r]
    BY <1>4, <1>7, SettledIsOurs
  <1>8. CreditsAreRows'
    <2>1. credits' \in [Order -> {0, 1}]
      BY <1>3 DEF RowsInv, CreditsAreRows
    <2>2. \A x \in rows' : IsSettled(x) => credits'[x.merchantReference] = 1
      BY <1>1, <1>3, <1>7, SettledIsOurs DEF RowsInv, CreditsAreRows
    <2>3. ASSUME NEW o \in Order, credits'[o] = 1
          PROVE  \E x \in rows' : IsSettled(x) /\ x.merchantReference = o
      BY <1>3, <1>7, <2>3 DEF RowsInv, CreditsAreRows
    <2>4. \A x, z \in rows' :
            /\ IsSettled(x) /\ IsSettled(z)
            /\ x.merchantReference = z.merchantReference
            => x = z
      BY <1>7 DEF RowsInv, CreditsAreRows
    <2> QED BY <2>1, <2>2, <2>3, <2>4 DEF CreditsAreRows, IsSettled
  <1> QED BY <1>2, <1>3, <1>6, <1>8 DEF RowsInv

\* createSettlement credits an order once, whoever asks for it and however
\* often, and afterwards it is credited.
LEMMA SettlementKeeps ==
    ASSUME RowsInv, NEW r \in Request, NEW ref \in Request \cup {Theirs},
           CreateSettlement(r, RefOf[r], ref)
    PROVE  /\ RowsInv'
           /\ \/ UNCHANGED credits
              \/ /\ credits[RefOf[r]] = 0
                 /\ credits' = [credits EXCEPT ![RefOf[r]] = 1]
           /\ credits'[RefOf[r]] = 1
  <1> DEFINE o == RefOf[r]
             old == BySystemReference(r)
             new == [reference |-> r, merchantReference |-> o,
                     providerReference |-> ref,
                     idempotencyKey |-> <<"collection-settlement", r>>,
                     sourceId |-> r, executionStatus |-> "SUCCESS", created |-> Last]
             Kin(x) == [x EXCEPT !.executionStatus = "SUCCESS",
                                 !.merchantReference = o,
                                 !.providerReference = ref,
                                 !.sourceId = r]
  <1>0. o \in Order
    OBVIOUS
  <1>1. CASE Successful(o) # {}
    <2>1. UNCHANGED <<rows, credits>>
      BY <1>1 DEF CreateSettlement, transactions
    <2>2. PICK x \in rows : IsSettled(x) /\ o \in {x.reference, x.merchantReference,
                                                   x.providerReference}
      BY <1>1 DEF Successful, Named, IsSettled
    <2>3. x.merchantReference = o
      <3>1. x \in Row
        BY DEF RowsInv, RowsAreRows
      <3>2. x.reference # o /\ x.providerReference # o
        BY <1>0, <2>2, <3>1, SettledIsOurs DEF Row
      <3> QED BY <2>2, <3>2
    <2>4. credits[o] = 1
      BY <2>2, <2>3 DEF RowsInv, CreditsAreRows
    <2>5. RowsInv'
      BY <2>1 DEF RowsInv, RowsAreRows, CreditsAreRows
    <2> QED BY <2>1, <2>4, <2>5
  <1>2. CASE Successful(o) = {}
    <2>1. SettleRow(r, o, ref) /\ credits' = [credits EXCEPT ![o] = @ + 1]
      BY <1>2 DEF CreateSettlement, CreditWallet
    <2>2. \A x \in rows : IsSettled(x) => x.merchantReference # o
      BY <1>2 DEF Successful, Named, IsSettled
    <2>3. /\ new \in Row /\ new.reference = r /\ new.merchantReference = o
          /\ IsSettled(new)
          /\ \A q \in Request : new.idempotencyKey = <<"collection-settlement", q>> => q = r
      BY <1>0, LastIsNat DEF Row, Status, IsSettled
    <2>4. CASE old = {}
      <3>1. CreateTransaction(new)
        BY <2>1, <2>4 DEF SettleRow
      <3>2. Kept(new.idempotencyKey) = {}
        BY <2>4 DEF Kept, BySystemReference, RowsInv, RowsAreRows
      <3> HIDE DEF new
      <3>3. rows' = rows \cup {new}
        BY <3>1, <3>2 DEF CreateTransaction
      <3>4. rows' = (rows \ old) \cup {new}
        BY <2>4, <3>3
      <3>5. RowsInv' /\ credits[o] = 0 /\ credits' = [credits EXCEPT ![o] = 1]
        BY <2>1, <2>2, <2>3, <3>4, SettledRowKeeps
      <3> QED BY <1>0, <3>5 DEF RowsInv, CreditsAreRows
    <2>5. CASE old # {}
      <3>1. PICK x \in rows : x.reference = r
        BY <2>5 DEF BySystemReference
      <3>2. old = {x}
        BY <3>1 DEF BySystemReference, RowsInv, RowsAreRows
      <3>3. rows' = (rows \ old) \cup {Kin(x)}
        BY <2>1, <2>5, <3>2 DEF SettleRow
      <3>4. x \in Row
        BY DEF RowsInv, RowsAreRows
      <3>5. /\ Kin(x) \in Row /\ Kin(x).reference = r /\ Kin(x).merchantReference = o
            /\ IsSettled(Kin(x)) /\ Kin(x).idempotencyKey = x.idempotencyKey
        BY <1>0, <3>1, <3>4 DEF Row, Status, IsSettled
      <3>6. \A q \in Request :
                Kin(x).idempotencyKey = <<"collection-settlement", q>> => q = r
        BY <3>1, <3>5 DEF RowsInv, RowsAreRows
      <3> HIDE DEF Kin
      <3>7. RowsInv' /\ credits[o] = 0 /\ credits' = [credits EXCEPT ![o] = 1]
        BY <2>1, <2>2, <3>3, <3>5, <3>6, SettledRowKeeps
      <3> QED BY <1>0, <3>7 DEF RowsInv, CreditsAreRows
    <2> QED BY <2>4, <2>5
  <1> QED BY <1>1, <1>2

-----------------------------------------------------------------------------
(* What a step of one actor leaves to the others *)

CreditsGrow == \A o \in Order : credits[o] = 1 => credits'[o] = 1

LEMMA CardsAreKept ==
    ASSUME CardsInv, CreditsGrow, UNCHANGED <<cardStep, held, job, jobStep>>
    PROVE  CardsInv'
  BY DEF CardsInv, CreditsGrow

LEMMA SalesAreKept ==
    ASSUME SalesInv, CreditsGrow, UNCHANGED sales
    PROVE  SalesInv'
  BY DEF SalesInv, CreditsGrow, sales

LEMMA RowsAreKept == RowsInv /\ UNCHANGED transactions => RowsInv' /\ CreditsGrow
  BY DEF RowsInv, RowsAreRows, CreditsAreRows, transactions, CreditsGrow

\* A settlement of an attested payment is a credit of the contract, or none.
LEMMA SettlementIsCredit ==
    ASSUME RowsInv, NEW r \in Request, NEW ref \in Request \cup {Theirs},
           CreateSettlement(r, RefOf[r], ref), RefOf[r] \in Attested,
           UNCHANGED <<Attested, outcome>>
    PROVE  /\ RowsInv' /\ CreditsGrow /\ credits'[RefOf[r]] = 1
           /\ [Contract!IntakeNext]_(Contract!intake)
  <1>1. /\ RowsInv'
        /\ \/ UNCHANGED credits
           \/ /\ credits[RefOf[r]] = 0
              /\ credits' = [credits EXCEPT ![RefOf[r]] = 1]
        /\ credits'[RefOf[r]] = 1
    BY SettlementKeeps
  <1>2. RefOf[r] \in Order /\ credits \in [Order -> {0, 1}]
    BY DEF RowsInv, CreditsAreRows
  <1>3. UNCHANGED <<Attested, reconciled, told>>
    BY DEF outcome
  <1>4. CASE UNCHANGED credits
    BY <1>1, <1>3, <1>4 DEF Contract!intake, CreditsGrow
  <1>5. CASE /\ credits[RefOf[r]] = 0
             /\ credits' = [credits EXCEPT ![RefOf[r]] = 1]
    <2>1. Contract!CreditOnce(RefOf[r])
      BY <1>3, <1>5 DEF Contract!CreditOnce
    <2>2. Contract!IntakeNext
      BY <1>2, <2>1 DEF Contract!IntakeNext
    <2> QED BY <1>1, <1>2, <1>5, <2>2 DEF CreditsGrow
  <1> QED BY <1>1, <1>4, <1>5

\* An order is reconciled when it has been credited.
LEMMA ReconcileIsSettle ==
    ASSUME RowsInv, NEW o \in Order, Reconcile(o),
           UNCHANGED <<Attested, credits, told>>
    PROVE  [Contract!IntakeNext]_(Contract!intake)
  <1>1. UNCHANGED <<Attested, credits, told>>
    OBVIOUS
  <1>2. CASE UNCHANGED reconciled
    BY <1>1, <1>2 DEF Contract!intake
  <1>3. ASSUME NEW x \in ByMerchantReference(o), x.executionStatus = "SUCCESS",
               reconciled' = reconciled \cup {o}
        PROVE  Contract!IntakeNext
    <2>1. credits[o] = 1
      BY <1>3 DEF ByMerchantReference, RowsInv, CreditsAreRows, IsSettled
    <2>2. Contract!SettleCredited(o)
      BY <1>1, <1>3, <2>1 DEF Contract!SettleCredited
    <2> QED BY <2>2 DEF Contract!IntakeNext
  <1> QED BY <1>2, <1>3 DEF Reconcile

\* A report of success is one of an order that has been credited.
LEMMA SayIsReport ==
    ASSUME NEW o \in Order, NEW verdict \in {"SUCCESS", "FAILED"}, Say(o, verdict),
           verdict = "SUCCESS" => credits[o] = 1,
           UNCHANGED <<Attested, credits, reconciled>>
    PROVE  Contract!IntakeNext
  <1>1. UNCHANGED <<Attested, credits, reconciled>>
    OBVIOUS
  <1>2. Contract!Report(o, verdict)
    BY <1>1 DEF Contract!Report, Say
  <1> QED BY <1>2 DEF Contract!IntakeNext, Contract!Verdict

Silent == UNCHANGED <<Attested, credits, reconciled, told>>

LEMMA SilentIsStutter == Silent => [Contract!IntakeNext]_(Contract!intake)
  BY DEF Silent, Contract!intake

-----------------------------------------------------------------------------
(* The steps of a card *)

LEMMA CardKeeps ==
    ASSUME CheckoutInv, NEW r \in Card, CardNext(r), UNCHANGED <<terminal, sales>>
    PROVE  CheckoutInv' /\ [Contract!IntakeNext]_(Contract!intake)
  <1>0. /\ RowsInv /\ CardsInv /\ SalesInv
        /\ r \in Request /\ RefOf[r] \in Order /\ Theirs \in Request \cup {Theirs}
    BY DEF CheckoutInv
  <1> USE DEF cards, jobs, outcome, sales
  <1>01. ASSUME UNCHANGED charge, UNCHANGED job
         PROVE  UNCHANGED Attested
    BY <1>01 DEF Attested
  <1>1. ASSUME LookUpCard(r) \/ EndCard(r) \/ StartJob(r) \/ MarkCard(r) \/ BreakJob(r)
        PROVE  CheckoutInv' /\ [Contract!IntakeNext]_(Contract!intake)
    <2>1. UNCHANGED <<transactions, held, outcome>>
      BY <1>1 DEF LookUpCard, EndCard, StartJob, MarkCard, BreakJob, JobGoes
    <2>2. RowsInv' /\ CreditsGrow
      BY <1>0, <2>1, RowsAreKept
    <2>3. SalesInv'
      BY <1>0, <2>2, SalesAreKept
    <2>4. CardsInv'
      <3>1. credits' = credits
        BY <2>1 DEF transactions
      <3> QED
        BY <1>0, <1>1, <3>1 DEF CardsInv, LookUpCard, EndCard, StartJob,
               MarkCard, BreakJob, JobGoes, Retry
    <2>5. \A k \in Card : job'[k] # "none" <=> job[k] # "none"
      BY <1>0, <1>1 DEF CardsInv, LookUpCard, EndCard, StartJob, MarkCard,
             BreakJob, JobGoes, Retry
    <2>6. UNCHANGED Attested
      BY <2>5 DEF Attested
    <2>7. Silent
      BY <2>1, <2>6 DEF Silent, transactions
    <2> QED BY <2>2, <2>3, <2>4, <2>7, SilentIsStutter DEF CheckoutInv
  <1>2. CASE StoreCard(r)
    <2>1. /\ CreateTransaction(Initiated(r)) /\ UNCHANGED credits
          /\ UNCHANGED <<held, jobs, outcome>>
          /\ cardStep[r] = "looked" /\ cardStep' = [cardStep EXCEPT ![r] = "stored"]
      BY <1>2 DEF StoreCard
    <2>2. /\ Initiated(r) \in Row
          /\ Initiated(r).executionStatus = "INITIATED"
          /\ Initiated(r).reference = r /\ Initiated(r).merchantReference = RefOf[r]
          /\ \A q \in Request :
                Initiated(r).idempotencyKey # <<"collection-settlement", q>>
      BY <1>0, LastIsNat DEF Initiated, Row, Status
    <2>3. RowsInv'
      BY <1>0, <2>1, <2>2, CreateKeeps
    <2>4. SalesInv'
      BY <1>0, <2>1, SalesAreKept DEF CreditsGrow
    <2>5. CardsInv'
      BY <1>0, <2>1 DEF CardsInv
    <2>6. Silent
      BY <1>01, <2>1 DEF Silent
    <2> QED BY <2>3, <2>4, <2>5, <2>6, SilentIsStutter DEF CheckoutInv
  <1>3. CASE AskForCard(r) \/ Authorise(r)
    <2>1. UNCHANGED <<transactions, job, jobStep, outcome>>
      BY <1>3 DEF AskForCard, Authorise
    <2>2. RowsInv' /\ CreditsGrow
      BY <1>0, <2>1, RowsAreKept
    <2>3. SalesInv'
      BY <1>0, <2>2, SalesAreKept
    <2>4. CardsInv'
      <3>1. credits' = credits
        BY <2>1 DEF transactions
      <3>2. CASE AskForCard(r)
        BY <1>0, <3>1, <3>2 DEF CardsInv, AskForCard, InitiateCardTransaction
      <3>3. CASE Authorise(r)
        BY <1>0, <3>1, <3>3 DEF CardsInv, Authorise, ValidateCardOtp
      <3> QED BY <1>3, <3>2, <3>3
    <2>5. Silent
      BY <1>01, <2>1 DEF Silent, transactions
    <2> QED BY <2>2, <2>3, <2>4, <2>5, SilentIsStutter DEF CheckoutInv
  <1>03. CASE NotifyCard(r)
    <2>1. /\ UNCHANGED <<transactions, cardStep, held, jobStep, charge, outcome>>
          /\ job[r] = "none" /\ job' = [job EXCEPT ![r] = "waiting"]
      BY <1>03 DEF NotifyCard
    <2>2. RowsInv' /\ CreditsGrow
      BY <1>0, <2>1, RowsAreKept
    <2>3. SalesInv'
      BY <1>0, <2>2, SalesAreKept
    <2>4. CardsInv'
      BY <1>0, <2>1, <2>2 DEF CardsInv, transactions
    <2>5. \A k \in Card : job'[k] # "none" <=> job[k] # "none" \/ k = r
      BY <1>0, <2>1 DEF CardsInv
    <2>6. Attested' = Attested \cup {RefOf[r]}
      BY <2>1, <2>5 DEF Attested
    <2>7. Contract!Attest(RefOf[r])
      BY <2>1, <2>6 DEF Contract!Attest, transactions
    <2> QED BY <1>0, <2>2, <2>3, <2>4, <2>7 DEF CheckoutInv, Contract!IntakeNext
  <1>4. CASE SettleCard(r)
    <2>1. /\ CreateSettlement(r, RefOf[r], Theirs)
          /\ jobStep[r] = "loaded" /\ jobStep' = [jobStep EXCEPT ![r] = "settled"]
          /\ UNCHANGED <<cardStep, held, job, charge, outcome>>
      BY <1>4 DEF SettleCard, JobGoes
    <2>2. RefOf[r] \in Attested
      BY <1>0, <2>1 DEF CardsInv, Attested
    <2>3. /\ RowsInv' /\ CreditsGrow /\ credits'[RefOf[r]] = 1
          /\ [Contract!IntakeNext]_(Contract!intake)
      BY <1>0, <1>01, <2>1, <2>2, SettlementIsCredit
    <2>4. SalesInv'
      BY <1>0, <2>3, SalesAreKept
    <2>5. CardsInv'
      BY <1>0, <2>1, <2>3 DEF CardsInv, CreditsGrow
    <2> QED BY <2>3, <2>4, <2>5 DEF CheckoutInv
  <1>5. CASE ReconcileCard(r)
    <2>1. /\ Reconcile(RefOf[r])
          /\ jobStep[r] = "marked" /\ jobStep' = [jobStep EXCEPT ![r] = "reconciled"]
          /\ UNCHANGED <<transactions, cardStep, held, job, charge, told>>
      BY <1>5 DEF ReconcileCard, JobGoes
    <2>2. RowsInv' /\ CreditsGrow /\ UNCHANGED credits
      BY <1>0, <2>1, RowsAreKept DEF transactions
    <2>3. [Contract!IntakeNext]_(Contract!intake)
      BY <1>0, <1>01, <2>1, <2>2, ReconcileIsSettle
    <2>4. SalesInv'
      BY <1>0, <2>2, SalesAreKept
    <2>5. CardsInv'
      BY <1>0, <2>1, <2>2 DEF CardsInv
    <2> QED BY <2>2, <2>3, <2>4, <2>5 DEF CheckoutInv
  <1>6. CASE TellOfCard(r)
    <2>1. /\ Say(RefOf[r], "SUCCESS")
          /\ jobStep[r] = "reconciled" /\ jobStep' = [jobStep EXCEPT ![r] = "idle"]
          /\ job' = [job EXCEPT ![r] = "completed"]
          /\ UNCHANGED <<transactions, cardStep, held, charge, reconciled>>
      BY <1>6 DEF TellOfCard
    <2>2. RowsInv' /\ CreditsGrow /\ UNCHANGED credits
      BY <1>0, <2>1, RowsAreKept DEF transactions
    <2>3. credits[RefOf[r]] = 1
      BY <1>0, <2>1 DEF CardsInv
    <2>4. Contract!IntakeNext
      <3>1. \A k \in Card : job'[k] # "none" <=> job[k] # "none"
        BY <1>0, <2>1 DEF CardsInv
      <3>2. UNCHANGED Attested
        BY <2>1, <3>1 DEF Attested
      <3> QED BY <1>0, <2>1, <2>2, <2>3, <3>2, SayIsReport
    <2>5. SalesInv'
      BY <1>0, <2>2, SalesAreKept
    <2>6. CardsInv'
      BY <1>0, <2>1, <2>2 DEF CardsInv
    <2> QED BY <2>2, <2>4, <2>5, <2>6 DEF CheckoutInv
  <1> QED BY <1>1, <1>2, <1>3, <1>03, <1>4, <1>5, <1>6 DEF CardNext, WorkJob

-----------------------------------------------------------------------------
(* The steps of a sale and of its terminal *)

LEMMA SaleKeeps ==
    ASSUME CheckoutInv, NEW s \in Sale,
           \/ SaleNext(s) /\ UNCHANGED <<cards, jobs, outcome>>
           \/ AnswerSale(s)
           \/ ReconcileSale(s)
    PROVE  CheckoutInv' /\ [Contract!IntakeNext]_(Contract!intake)
  <1>0. /\ RowsInv /\ CardsInv /\ SalesInv
        /\ s \in Request /\ RefOf[s] \in Order
    BY DEF CheckoutInv
  <1>00. UNCHANGED <<cardStep, held, job, jobStep>>
    BY DEF cards, jobs, AnswerSale, ReconcileSale
  <1>01. ASSUME UNCHANGED charge
         PROVE  UNCHANGED Attested
    BY <1>00, <1>01 DEF Attested
  <1> USE DEF Goes
  <1>1. ASSUME LookUpOrder(s) \/ CheckTerminal(s) \/ SaveSale(s), UNCHANGED outcome
        PROVE  CheckoutInv' /\ [Contract!IntakeNext]_(Contract!intake)
    <2>1. UNCHANGED <<transactions, charge>>
      BY <1>1 DEF LookUpOrder, CheckTerminal, SaveSale
    <2>2. RowsInv' /\ CreditsGrow /\ UNCHANGED credits
      BY <1>0, <2>1, RowsAreKept DEF transactions
    <2>3. CardsInv'
      BY <1>0, <1>00, <2>2, CardsAreKept
    <2>4. SalesInv'
      BY <1>0, <1>1, <2>2 DEF SalesInv, LookUpOrder, CheckTerminal, SaveSale
    <2>5. Silent
      BY <1>1, <1>01, <2>1, <2>2 DEF Silent, outcome
    <2> QED BY <2>2, <2>3, <2>4, <2>5, SilentIsStutter DEF CheckoutInv
  <1>2. ASSUME ChargeCard(s) \/ EndSale(s), UNCHANGED outcome
        PROVE  CheckoutInv' /\ [Contract!IntakeNext]_(Contract!intake)
    <2>1. /\ UNCHANGED <<transactions, pos>>
          /\ \/ UNCHANGED charge
             \/ /\ posStep[s] = "checked"
                /\ \/ charge' = [charge EXCEPT ![s] = "taken"]
                   \/ charge' = [charge EXCEPT ![s] = "declined"]
      BY <1>2 DEF ChargeCard, EndSale
    <2>2. RowsInv' /\ CreditsGrow /\ UNCHANGED <<credits, reconciled, told>>
      BY <1>0, <1>2, <2>1, RowsAreKept DEF transactions, outcome
    <2>3. CardsInv'
      BY <1>0, <1>00, <2>2, CardsAreKept
    <2>4. SalesInv'
      <3>1. CASE ChargeCard(s)
        BY <1>0, <2>2, <3>1 DEF SalesInv, ChargeCard
      <3>2. CASE EndSale(s)
        BY <1>0, <2>2, <3>2 DEF SalesInv, EndSale
      <3> QED BY <1>2, <3>1, <3>2
    <2>5. CheckoutInv'
      BY <2>2, <2>3, <2>4 DEF CheckoutInv
    <2>6. CASE charge' = [charge EXCEPT ![s] = "taken"]
      <3>1. \A q \in Sale : charge'[q] = "taken" <=> charge[q] = "taken" \/ q = s
        BY <1>0, <2>6 DEF SalesInv
      <3>2. Attested' = Attested \cup {RefOf[s]}
        BY <1>00, <3>1 DEF Attested
      <3>3. Contract!Attest(RefOf[s])
        BY <2>2, <3>2 DEF Contract!Attest
      <3> QED BY <1>0, <2>5, <3>3 DEF Contract!IntakeNext
    <2>7. CASE \/ UNCHANGED charge
               \/ /\ posStep[s] = "checked"
                  /\ charge' = [charge EXCEPT ![s] = "declined"]
      <3>1. \A q \in Sale : charge'[q] = "taken" <=> charge[q] = "taken"
        BY <1>0, <2>7 DEF SalesInv
      <3>2. Silent
        BY <1>00, <2>2, <3>1 DEF Attested, Silent
      <3> QED BY <2>5, <3>2, SilentIsStutter
    <2> QED BY <2>1, <2>6, <2>7
  <1>3. ASSUME SettleSale(s), UNCHANGED outcome
        PROVE  CheckoutInv' /\ [Contract!IntakeNext]_(Contract!intake)
    <2>1. /\ posStep[s] = "saved" /\ posStep' = [posStep EXCEPT ![s] = "settled"]
          /\ UNCHANGED <<charge, pos>>
      BY <1>3 DEF SettleSale
    <2>2. CASE pos[s] = "SUCCESS" /\ CreateSettlement(s, RefOf[s], s)
      <3>1. RefOf[s] \in Attested
        BY <1>0, <2>2 DEF SalesInv, Attested
      <3>2. /\ RowsInv' /\ CreditsGrow /\ credits'[RefOf[s]] = 1
            /\ [Contract!IntakeNext]_(Contract!intake)
        BY <1>0, <1>01, <1>3, <2>1, <2>2, <3>1, SettlementIsCredit
      <3>3. CardsInv'
        BY <1>0, <1>00, <3>2, CardsAreKept
      <3>4. SalesInv'
        BY <1>0, <2>1, <3>2 DEF SalesInv, CreditsGrow
      <3> QED BY <3>2, <3>3, <3>4 DEF CheckoutInv
    <2>3. CASE /\ pos[s] = "FAILED"
               /\ CreateTransaction(Declined(s)) /\ UNCHANGED credits
      <3>1. /\ Declined(s) \in Row
            /\ Declined(s).executionStatus = "FAILED"
            /\ Declined(s).reference = RefOf[s] /\ RefOf[s] \notin Request
            /\ \A q \in Request :
                Declined(s).idempotencyKey # <<"collection-settlement", q>>
        BY <1>0, LastIsNat DEF Declined, Row, Status
      <3>2. RowsInv'
        BY <1>0, <2>3, <3>1, CreateKeeps
      <3>3. CardsInv'
        BY <1>0, <1>00, <2>3, CardsAreKept DEF CreditsGrow
      <3>4. SalesInv'
        BY <1>0, <2>1, <2>3 DEF SalesInv
      <3>5. Silent
        BY <1>01, <1>3, <2>1, <2>3 DEF Silent, outcome
      <3> QED BY <3>2, <3>3, <3>4, <3>5, SilentIsStutter DEF CheckoutInv
    <2> QED BY <1>3, <2>2, <2>3 DEF SettleSale
  <1>4. ASSUME NotifySale(s), UNCHANGED outcome
        PROVE  CheckoutInv' /\ [Contract!IntakeNext]_(Contract!intake)
    <2>1. UpdateBySource(s, Theirs) /\ UNCHANGED credits /\ UNCHANGED sales
      BY <1>4 DEF NotifySale
    <2>2. RowsInv'
      BY <1>0, <2>1, SourceKeeps
    <2>3. CreditsGrow
      BY <2>1 DEF CreditsGrow
    <2>4. CardsInv' /\ SalesInv'
      BY <1>0, <1>00, <2>1, <2>3, CardsAreKept, SalesAreKept
    <2>5. Silent
      BY <1>01, <1>4, <2>1 DEF Silent, outcome, sales
    <2> QED BY <2>2, <2>4, <2>5, SilentIsStutter DEF CheckoutInv
  <1>5. CASE AnswerSale(s)
    <2>1. /\ posStep[s] = "settled" /\ posStep' = [posStep EXCEPT ![s] = "answered"]
          /\ Say(RefOf[s], pos[s])
          /\ UNCHANGED <<transactions, reconciled, charge, pos>>
      BY <1>5 DEF AnswerSale
    <2>2. RowsInv' /\ CreditsGrow /\ UNCHANGED credits
      BY <1>0, <2>1, RowsAreKept DEF transactions
    <2>3. /\ pos[s] \in {"SUCCESS", "FAILED"}
          /\ pos[s] = "SUCCESS" => credits[RefOf[s]] = 1
      BY <1>0, <2>1 DEF SalesInv
    <2>4. Contract!IntakeNext
      BY <1>0, <1>01, <2>1, <2>2, <2>3, SayIsReport
    <2>5. CardsInv'
      BY <1>0, <1>00, <2>2, CardsAreKept
    <2>6. SalesInv'
      BY <1>0, <2>1, <2>2 DEF SalesInv
    <2> QED BY <2>2, <2>4, <2>5, <2>6 DEF CheckoutInv
  <1>6. CASE ReconcileSale(s)
    <2>1. Reconcile(RefOf[s]) /\ UNCHANGED <<transactions, told, sales>>
      BY <1>6 DEF ReconcileSale
    <2>2. RowsInv' /\ CreditsGrow /\ UNCHANGED <<credits, charge>>
      BY <1>0, <2>1, RowsAreKept DEF transactions, sales
    <2>3. [Contract!IntakeNext]_(Contract!intake)
      BY <1>0, <1>01, <2>1, <2>2, ReconcileIsSettle
    <2>4. CardsInv' /\ SalesInv'
      BY <1>0, <1>00, <2>1, <2>2, CardsAreKept, SalesAreKept
    <2> QED BY <2>2, <2>3, <2>4 DEF CheckoutInv
  <1> QED BY <1>1, <1>2, <1>3, <1>4, <1>5, <1>6 DEF SaleNext

\* Steps of a terminal, and none at all.
LEMMA TerminalKeeps ==
    ASSUME CheckoutInv, UNCHANGED <<transactions, cards, jobs, outcome, sales>>
    PROVE  CheckoutInv' /\ [Contract!IntakeNext]_(Contract!intake)
  <1>1. RowsInv' /\ CreditsGrow
    BY RowsAreKept DEF CheckoutInv
  <1>2. CardsInv' /\ SalesInv'
    BY <1>1, CardsAreKept, SalesAreKept DEF CheckoutInv, cards, jobs
  <1>3. Silent
    BY DEF Silent, Attested, cards, jobs, sales, outcome, transactions
  <1> QED BY <1>1, <1>2, <1>3, SilentIsStutter DEF CheckoutInv

LEMMA CheckoutStep ==
    CheckoutInv /\ [CheckoutNext]_checkout
        => CheckoutInv' /\ [Contract!IntakeNext]_(Contract!intake)
  <1> SUFFICES ASSUME CheckoutInv, [CheckoutNext]_checkout
               PROVE  CheckoutInv' /\ [Contract!IntakeNext]_(Contract!intake)
    OBVIOUS
  <1>1. CASE TerminalNext /\ UNCHANGED <<cards, jobs, outcome>>
    <2>1. UNCHANGED <<transactions, sales>>
      BY <1>1 DEF TerminalNext, AddTerminal, SetTerminalStatus
    <2> QED BY <1>1, <2>1, TerminalKeeps
  <1>2. CASE UNCHANGED checkout
    BY <1>2, TerminalKeeps DEF checkout
  <1> QED BY <1>1, <1>2, CardKeeps, SaleKeeps DEF CheckoutNext

-----------------------------------------------------------------------------
(* Jobs that end well *)

\* What rows a merchant's reference leads to: reconcile takes any of them.
References(o) == {x.reference : x \in ByMerchantReference(o)}

Several(o) == \E a, b \in References(o) : a # b

Reached(o) == o \in reconciled \/ Several(o)

\* A card is marked by a job that has come far or has broken off since, and a
\* job that has reconciled its order found it paid, or found another row.
JobInv(r) ==
    /\ jobStep[r] # "idle" => job[r] = "active"
    /\ card[r] = "SUCCESS" =>
        \/ jobStep[r] \in {"marked", "reconciled"}
        \/ job[r] = "completed"
        \/ r \in broken
    /\ jobStep[r] = "reconciled" => Reached(RefOf[r])
    /\ job[r] = "completed" /\ r \notin broken =>
        "SUCCESS" \in told[RefOf[r]] /\ Reached(RefOf[r])

JobsInv == CardsTypeOK /\ \A r \in Card : JobInv(r)

EndedInv == CheckoutInv /\ JobsInv /\ PosTypeOK

LEMMA EndedInitially == CheckoutInit => EndedInv
  <1> SUFFICES ASSUME CheckoutInit PROVE EndedInv
    OBVIOUS
  <1>1. CheckoutInv
    BY CheckoutInitially
  <1>2. CardsTypeOK
    BY DEF CheckoutInit, CardsInit, CardsTypeOK
  <1>3. JobsInv
    BY <1>2 DEF CheckoutInit, CardsInit, JobsInv, JobInv
  <1>4. PosTypeOK
    BY DEF CheckoutInit, PosInit, PosTypeOK, TerminalStatus
  <1> QED BY <1>1, <1>3, <1>4 DEF EndedInv

\* A row stays under the reference it is found by.
RefsGoOn == \A o \in Order : References(o) \subseteq References(o)'

LEMMA AddedRefsGoOn == rows \subseteq rows' => RefsGoOn
  BY DEF RefsGoOn, References, ByMerchantReference

LEMMA CreatedRefsGoOn == \A new : CreateTransaction(new) => RefsGoOn
  BY AddedRefsGoOn DEF CreateTransaction

\* One row is exchanged for another that is found by the same references.
LEMMA ChangedRefsGoOn ==
    ASSUME NEW x \in rows, NEW y, rows' = (rows \ {x}) \cup {y},
           y.reference = x.reference, y.merchantReference = x.merchantReference
    PROVE  RefsGoOn
  <1> SUFFICES ASSUME NEW o \in Order, NEW z \in rows, z.merchantReference = o
               PROVE  \E w \in rows' : w.merchantReference = o /\ w.reference = z.reference
    BY DEF RefsGoOn, References, ByMerchantReference
  <1>1. CASE z = x
    BY <1>1
  <1>2. CASE z # x
    BY <1>2
  <1> QED BY <1>1, <1>2

LEMMA SourceRefsGoOn ==
    ASSUME RowsInv, NEW s \in Sale, UpdateBySource(s, Theirs)
    PROVE  RefsGoOn
  <1>1. PICK x \in rows :
            rows' = (rows \ {x}) \cup {[x EXCEPT !.providerReference = Theirs]}
    BY DEF UpdateBySource
  <1>2. x \in Row
    BY DEF RowsInv, RowsAreRows
  <1>3. /\ [x EXCEPT !.providerReference = Theirs].reference = x.reference
        /\ [x EXCEPT !.providerReference = Theirs].merchantReference = x.merchantReference
    BY <1>2 DEF Row
  <1> QED BY <1>1, <1>3, ChangedRefsGoOn

LEMMA SettledRefsGoOn ==
    ASSUME RowsInv, NEW r \in Request, NEW ref, CreateSettlement(r, RefOf[r], ref)
    PROVE  RefsGoOn
  <1> DEFINE old == BySystemReference(r)
             Kin(x) == [x EXCEPT !.executionStatus = "SUCCESS",
                                 !.merchantReference = RefOf[r],
                                 !.providerReference = ref,
                                 !.sourceId = r]
  <1>1. CASE UNCHANGED transactions
    BY <1>1, AddedRefsGoOn DEF transactions
  <1>2. CASE SettleRow(r, RefOf[r], ref) /\ old = {}
    BY <1>2, CreatedRefsGoOn DEF SettleRow
  <1>3. CASE SettleRow(r, RefOf[r], ref) /\ old # {}
    <2>1. PICK x \in rows : x.reference = r
      BY <1>3 DEF BySystemReference
    <2>2. old = {x}
      BY <2>1 DEF BySystemReference, RowsInv, RowsAreRows
    <2>3. rows' = (rows \ old) \cup {Kin(z) : z \in old}
      BY <1>3 DEF SettleRow
    <2>4. rows' = (rows \ {x}) \cup {Kin(x)}
      <3> HIDE DEF Kin, old
      <3> QED BY <2>2, <2>3
    <2>5. x \in Row /\ x.merchantReference = RefOf[r]
      BY <2>1 DEF RowsInv, RowsAreRows
    <2>6. Kin(x).reference = x.reference /\ Kin(x).merchantReference = x.merchantReference
      BY <2>5 DEF Row
    <2> HIDE DEF Kin, old
    <2> QED BY <2>4, <2>6, ChangedRefsGoOn
  <1> QED BY <1>1, <1>2, <1>3 DEF CreateSettlement

\* What a job leaves to the others, and they to it.
LEMMA ReachedStays ==
    ASSUME RefsGoOn, reconciled \subseteq reconciled', NEW o \in Order, Reached(o)
    PROVE  Reached(o)'
  BY DEF RefsGoOn, Reached, Several

Tells ==
    /\ told' \in [Order -> SUBSET {"SUCCESS", "FAILED"}]
    /\ \A o \in Order : told[o] \subseteq told'[o]

Reconciles == reconciled \subseteq reconciled' /\ reconciled' \subseteq Order

LEMMA JobIsKept ==
    ASSUME JobsInv, RefsGoOn, Reconciles, Tells, NEW k \in Card,
           card'[k] = card[k], job'[k] = job[k], jobStep'[k] = jobStep[k],
           k \in broken' <=> k \in broken
    PROVE  JobInv(k)'
  <1>1. /\ RefOf[k] \in Order
        /\ told[RefOf[k]] \subseteq told'[RefOf[k]]
        /\ Reached(RefOf[k]) => Reached(RefOf[k])'
    BY ReachedStays DEF Tells, Reconciles
  <1> QED BY <1>1 DEF JobsInv, JobInv

LEMMA JobsAreKept ==
    ASSUME JobsInv, RefsGoOn, Reconciles, Tells, UNCHANGED <<cards, jobs>>
    PROVE  JobsInv'
  <1>1. CardsTypeOK'
    BY DEF JobsInv, CardsTypeOK, cards, jobs, Tells, Reconciles
  <1>2. \A k \in Card : JobInv(k)'
    BY JobIsKept DEF cards, jobs
  <1> QED BY <1>1, <1>2 DEF JobsInv

LEMMA OutcomeStays == JobsInv /\ UNCHANGED outcome => Tells /\ Reconciles
  BY DEF JobsInv, CardsTypeOK, outcome, Tells, Reconciles

\* A credited order has a row, which is settled: reconcile finds it, or it
\* finds another.
LEMMA ReconcileReaches ==
    ASSUME RowsInv, NEW o \in Order, credits[o] = 1, Reconcile(o), UNCHANGED rows
    PROVE  Reached(o)'
  <1>1. PICK x \in rows : IsSettled(x) /\ x.merchantReference = o
    BY DEF RowsInv, CreditsAreRows
  <1>2. PICK y \in ByMerchantReference(o) :
            reconciled' = IF y.executionStatus = "SUCCESS"
                          THEN reconciled \cup {o} ELSE reconciled
    BY <1>1 DEF Reconcile, ByMerchantReference
  <1>3. CASE IsSettled(y)
    BY <1>2, <1>3 DEF Reached, IsSettled
  <1>4. CASE ~ IsSettled(y)
    <2>1. x # y /\ x \in rows /\ y \in rows /\ y.merchantReference = o
      BY <1>1, <1>2, <1>4 DEF ByMerchantReference
    <2>2. x.reference # y.reference
      BY <2>1 DEF RowsInv, RowsAreRows
    <2> QED BY <1>1, <2>1, <2>2 DEF Reached, Several, References,
                   ByMerchantReference
  <1> QED BY <1>3, <1>4

LEMMA SayTells ==
    ASSUME JobsInv, NEW o \in Order, NEW verdict \in {"SUCCESS", "FAILED"}, Say(o, verdict)
    PROVE  Tells /\ verdict \in told'[o]
  BY DEF JobsInv, CardsTypeOK, Say, Tells

LEMMA ReconcileAdds ==
    ASSUME JobsInv, NEW o \in Order, Reconcile(o)
    PROVE  Reconciles
  BY DEF JobsInv, CardsTypeOK, Reconcile, Reconciles

\* The steps of a card.
LEMMA CardJobsKeep ==
    ASSUME CheckoutInv, JobsInv, NEW r \in Card, CardNext(r)
    PROVE  JobsInv'
  <1>0. /\ RowsInv /\ CardsInv /\ JobInv(r) /\ CardsTypeOK
        /\ r \in Request /\ RefOf[r] \in Order
    BY DEF CheckoutInv, JobsInv
  <1> USE DEF cards, jobs, outcome
  <1>1. ASSUME UNCHANGED <<rows, reconciled, told>>
        PROVE  RefsGoOn /\ Reconciles /\ Tells
    BY <1>1, AddedRefsGoOn, OutcomeStays
  <1>2. ASSUME LookUpCard(r) \/ EndCard(r) \/ AskForCard(r) \/ Authorise(r)
        PROVE  JobsInv'
    <2>1. UNCHANGED <<transactions, card, jobs, outcome>>
      BY <1>2 DEF LookUpCard, EndCard, AskForCard, Authorise
    <2>2. \A k \in Card : JobInv(k)'
      BY <1>1, <2>1, JobIsKept DEF transactions
    <2>3. CardsTypeOK'
      <3>1. CASE LookUpCard(r) \/ EndCard(r)
        BY <1>0, <3>1 DEF LookUpCard, EndCard, CardsTypeOK
      <3>2. CASE AskForCard(r)
        BY <1>0, <3>2 DEF AskForCard, InitiateCardTransaction, CardsTypeOK
      <3>3. CASE Authorise(r)
        BY <1>0, <3>3 DEF Authorise, ValidateCardOtp, CardsTypeOK
      <3> QED BY <1>2, <3>1, <3>2, <3>3
    <2> QED BY <2>2, <2>3 DEF JobsInv
  <1>3. CASE StoreCard(r)
    <2>1. /\ CreateTransaction(Initiated(r))
          /\ cardStep[r] = "looked" /\ card' = [card EXCEPT ![r] = "INITIATED"]
          /\ UNCHANGED <<held, jobs, outcome>>
      BY <1>3 DEF StoreCard
    <2>2. RefsGoOn /\ Reconciles /\ Tells
      BY <2>1, CreatedRefsGoOn, OutcomeStays
    <2>3. CardsTypeOK'
      BY <1>0, <1>3 DEF StoreCard, CardsTypeOK
    <2>4. ASSUME NEW k \in Card, k # r
          PROVE  JobInv(k)'
      BY <1>0, <2>1, <2>2, <2>4, JobIsKept DEF CardsTypeOK
    <2>5. Reached(RefOf[r]) => Reached(RefOf[r])'
      BY <1>0, <2>2, ReachedStays DEF Reconciles
    <2>6. JobInv(r)'
      BY <1>0, <2>1, <2>5 DEF JobInv, CardsTypeOK
    <2> QED BY <2>3, <2>4, <2>6 DEF JobsInv
  <1>4. ASSUME NotifyCard(r) \/ StartJob(r) \/ MarkCard(r) \/ BreakJob(r)
        PROVE  JobsInv'
    <2>1. UNCHANGED <<transactions, cardStep, held, outcome>>
      BY <1>4 DEF NotifyCard, StartJob, MarkCard, BreakJob
    <2>2. RefsGoOn /\ Reconciles /\ Tells
      BY <1>1, <2>1 DEF transactions
    <2>3. Reached(RefOf[r]) => Reached(RefOf[r])'
      BY <1>0, <2>2, ReachedStays DEF Reconciles
    <2>4. UNCHANGED <<reconciled, told>>
      BY <2>1
    <2>5. CASE NotifyCard(r)
      <3>1. CardsTypeOK'
        BY <1>0, <2>1, <2>5 DEF NotifyCard, CardsTypeOK
      <3>2. ASSUME NEW k \in Card, k # r
            PROVE  JobInv(k)'
        BY <1>0, <2>2, <2>5, <3>2, JobIsKept DEF NotifyCard, CardsTypeOK
      <3>3. JobInv(r)'
        BY <1>0, <2>3, <2>4, <2>5 DEF NotifyCard, JobInv, CardsTypeOK,
               CardsInv
      <3> QED BY <3>1, <3>2, <3>3 DEF JobsInv
    <2>6. CASE StartJob(r)
      <3>1. /\ job[r] = "waiting" /\ tries[r] < Attempts
            /\ tries' = [tries EXCEPT ![r] = @ + 1]
            /\ UNCHANGED <<card, broken>>
        BY <2>6 DEF StartJob
      <3>2. tries' \in [Card -> 0..Attempts]
        BY <1>0, <3>1 DEF CardsTypeOK
      <3>3. \/ /\ job' = [job EXCEPT ![r] = Retry(r)] /\ UNCHANGED jobStep
            \/ /\ job' = [job EXCEPT ![r] = "completed"] /\ UNCHANGED jobStep
               /\ card[r] = "SUCCESS"
            \/ /\ job' = [job EXCEPT ![r] = "active"]
               /\ jobStep' = [jobStep EXCEPT ![r] = "loaded"]
        BY <2>6 DEF StartJob, IsDuplicate
      <3>4. Retry(r) \in {"waiting", "failed"}
        BY DEF Retry
      <3> HIDE DEF Retry
      <3>5. CardsTypeOK'
        <4>1. job' \in [Card -> {"none", "waiting", "active", "completed", "failed"}]
          BY <1>0, <3>3, <3>4 DEF CardsTypeOK
        <4>2. jobStep' \in [Card -> {"idle", "loaded", "settled", "marked", "reconciled"}]
          BY <1>0, <3>3 DEF CardsTypeOK
        <4> QED BY <1>0, <2>1, <3>1, <3>2, <4>1, <4>2 DEF CardsTypeOK
      <3>6. ASSUME NEW k \in Card, k # r
            PROVE  JobInv(k)'
        <4>1. job'[k] = job[k] /\ jobStep'[k] = jobStep[k]
          BY <1>0, <3>3, <3>6 DEF CardsTypeOK
        <4> QED BY <2>2, <3>1, <4>1, JobIsKept
      <3>7. jobStep[r] = "idle"
        BY <1>0, <3>1, <3>3 DEF JobInv, CardsTypeOK
      <3>8. card[r] = "SUCCESS" => r \in broken
        BY <1>0, <3>1, <3>7 DEF JobInv
      <3>9. \/ job'[r] \in {"waiting", "failed"} /\ jobStep'[r] = "idle"
            \/ job'[r] = "completed" /\ jobStep'[r] = "idle" /\ r \in broken
            \/ job'[r] = "active" /\ jobStep'[r] = "loaded"
        BY <1>0, <3>3, <3>4, <3>7, <3>8 DEF CardsTypeOK
      <3>10. JobInv(r)'
        BY <3>1, <3>8, <3>9 DEF JobInv
      <3> QED BY <3>5, <3>6, <3>10 DEF JobsInv
    <2>7. CASE MarkCard(r)
      <3>1. CardsTypeOK'
        BY <1>0, <2>1, <2>7 DEF MarkCard, JobGoes, CardsTypeOK
      <3>2. ASSUME NEW k \in Card, k # r
            PROVE  JobInv(k)'
        BY <1>0, <2>2, <2>7, <3>2, JobIsKept
           DEF MarkCard, JobGoes, CardsTypeOK
      <3>3. JobInv(r)'
        BY <1>0, <2>3, <2>4, <2>7 DEF MarkCard, JobGoes, JobInv, CardsTypeOK
      <3> QED BY <3>1, <3>2, <3>3 DEF JobsInv
    <2>8. CASE BreakJob(r)
      <3>1. CardsTypeOK'
        BY <1>0, <2>1, <2>8 DEF BreakJob, CardsTypeOK
      <3>2. ASSUME NEW k \in Card, k # r
            PROVE  JobInv(k)'
        BY <1>0, <2>2, <2>8, <3>2, JobIsKept DEF BreakJob, CardsTypeOK
      <3>3. JobInv(r)'
        BY <1>0, <2>3, <2>4, <2>8 DEF BreakJob, JobInv, CardsTypeOK
      <3> QED BY <3>1, <3>2, <3>3 DEF JobsInv
    <2> QED BY <1>4, <2>5, <2>6, <2>7, <2>8
  <1>5. CASE SettleCard(r)
    <2>1. /\ CreateSettlement(r, RefOf[r], Theirs)
          /\ jobStep[r] = "loaded" /\ jobStep' = [jobStep EXCEPT ![r] = "settled"]
          /\ UNCHANGED <<cards, job, tries, broken, outcome>>
      BY <1>5 DEF SettleCard, JobGoes
    <2>2. RefsGoOn /\ Reconciles /\ Tells
      BY <1>0, <2>1, SettledRefsGoOn, OutcomeStays
    <2>3. CardsTypeOK'
      BY <1>0, <2>1 DEF CardsTypeOK
    <2>4. ASSUME NEW k \in Card, k # r
          PROVE  JobInv(k)'
      BY <1>0, <2>1, <2>2, <2>4, JobIsKept DEF CardsTypeOK
    <2>5. JobInv(r)'
      BY <1>0, <2>1 DEF JobInv, CardsTypeOK
    <2> QED BY <2>3, <2>4, <2>5 DEF JobsInv
  <1>6. CASE ReconcileCard(r)
    <2>1. /\ Reconcile(RefOf[r])
          /\ jobStep[r] = "marked" /\ jobStep' = [jobStep EXCEPT ![r] = "reconciled"]
          /\ UNCHANGED <<transactions, cards, job, tries, broken, told>>
      BY <1>6 DEF ReconcileCard, JobGoes
    <2>2. RefsGoOn /\ Reconciles /\ Tells
      <3>1. Reconciles
        BY <1>0, <2>1, ReconcileAdds
      <3>2. Tells
        BY <1>0, <2>1 DEF Tells, CardsTypeOK
      <3> QED BY <2>1, <3>1, <3>2, AddedRefsGoOn DEF transactions
    <2>3. CardsTypeOK'
      BY <1>0, <2>1, <2>2 DEF CardsTypeOK, Reconciles, Tells
    <2>4. ASSUME NEW k \in Card, k # r
          PROVE  JobInv(k)'
      BY <1>0, <2>1, <2>2, <2>4, JobIsKept DEF CardsTypeOK
    <2>5. credits[RefOf[r]] = 1
      BY <1>0, <2>1 DEF CardsInv
    <2>6. Reached(RefOf[r])'
      BY <1>0, <2>1, <2>5, ReconcileReaches DEF transactions
    <2>7. JobInv(r)'
      BY <1>0, <2>1, <2>6 DEF JobInv, CardsTypeOK
    <2> QED BY <2>3, <2>4, <2>7 DEF JobsInv
  <1>7. CASE TellOfCard(r)
    <2>1. /\ Say(RefOf[r], "SUCCESS")
          /\ jobStep[r] = "reconciled" /\ jobStep' = [jobStep EXCEPT ![r] = "idle"]
          /\ job' = [job EXCEPT ![r] = "completed"]
          /\ UNCHANGED <<transactions, cards, tries, broken, reconciled>>
      BY <1>7 DEF TellOfCard
    <2>2. Tells /\ "SUCCESS" \in told'[RefOf[r]]
      BY <1>0, <2>1, SayTells
    <2>3. RefsGoOn /\ Reconciles
      BY <1>0, <2>1, AddedRefsGoOn DEF Reconciles, CardsTypeOK, transactions
    <2>4. CardsTypeOK'
      BY <1>0, <2>1, <2>2 DEF CardsTypeOK, Tells
    <2>5. ASSUME NEW k \in Card, k # r
          PROVE  JobInv(k)'
      BY <1>0, <2>1, <2>2, <2>3, <2>5, JobIsKept DEF CardsTypeOK
    <2>6. Reached(RefOf[r])'
      BY <1>0, <2>1, <2>3, ReachedStays DEF JobInv, Reconciles
    <2>7. JobInv(r)'
      BY <1>0, <2>1, <2>2, <2>6 DEF JobInv, CardsTypeOK
    <2> QED BY <2>4, <2>5, <2>7 DEF JobsInv
  <1> QED BY <1>2, <1>3, <1>4, <1>5, <1>6, <1>7 DEF CardNext, WorkJob

\* The steps of a sale.
LEMMA SaleJobsKeep ==
    ASSUME CheckoutInv, JobsInv, NEW s \in Sale,
           \/ SaleNext(s) /\ UNCHANGED <<cards, jobs, outcome>>
           \/ AnswerSale(s)
           \/ ReconcileSale(s)
    PROVE  JobsInv'
  <1>0. RowsInv /\ SalesInv /\ s \in Request /\ RefOf[s] \in Order
    BY DEF CheckoutInv
  <1>1. UNCHANGED <<cards, jobs>>
    BY DEF AnswerSale, ReconcileSale
  <1>2. RefsGoOn
    <2>1. CASE AnswerSale(s) \/ ReconcileSale(s)
      BY <2>1, AddedRefsGoOn DEF AnswerSale, ReconcileSale, transactions
    <2>2. CASE LookUpOrder(s) \/ CheckTerminal(s) \/ ChargeCard(s) \/ SaveSale(s) \/ EndSale(s)
      BY <2>2, AddedRefsGoOn DEF LookUpOrder, CheckTerminal, ChargeCard,
             SaveSale, EndSale, transactions
    <2>3. CASE SettleSale(s)
      BY <1>0, <2>3, SettledRefsGoOn, CreatedRefsGoOn DEF SettleSale
    <2>4. CASE NotifySale(s)
      BY <1>0, <2>4, SourceRefsGoOn DEF NotifySale
    <2> QED BY <2>1, <2>2, <2>3, <2>4 DEF SaleNext
  <1>3. Reconciles /\ Tells
    <2>1. CASE UNCHANGED outcome
      BY <2>1, OutcomeStays
    <2>2. CASE AnswerSale(s)
      <3>1. pos[s] \in {"SUCCESS", "FAILED"}
        BY <1>0, <2>2 DEF AnswerSale, Goes, SalesInv
      <3> QED BY <1>0, <2>2, <3>1, SayTells
                 DEF AnswerSale, JobsInv, CardsTypeOK, Reconciles
    <2>3. CASE ReconcileSale(s)
      <3>1. Tells
        BY <2>3 DEF ReconcileSale, Tells, JobsInv, CardsTypeOK
      <3> QED BY <1>0, <2>3, <3>1, ReconcileAdds DEF ReconcileSale
    <2> QED BY <2>1, <2>2, <2>3
  <1> QED BY <1>1, <1>2, <1>3, JobsAreKept

\* The types of a sale and a terminal.
LEMMA SaleTypesKeep ==
    ASSUME PosTypeOK, NEW s \in Sale, SaleNext(s) \/ AnswerSale(s) \/ ReconcileSale(s)
    PROVE  PosTypeOK'
  <1>1. CASE \/ LookUpOrder(s) \/ CheckTerminal(s) \/ NotifySale(s)
             \/ AnswerSale(s) \/ ReconcileSale(s)
    BY <1>1 DEF LookUpOrder, CheckTerminal, NotifySale, AnswerSale,
           ReconcileSale, Goes, sales, PosTypeOK
  <1>2. CASE ChargeCard(s)
    BY <1>2 DEF ChargeCard, Goes, PosTypeOK
  <1>3. CASE SaveSale(s)
    BY <1>3 DEF SaveSale, Goes, PosTypeOK
  <1>4. CASE SettleSale(s)
    BY <1>4 DEF SettleSale, Goes, PosTypeOK
  <1>5. CASE EndSale(s)
    BY <1>5 DEF EndSale, PosTypeOK
  <1> QED BY <1>1, <1>2, <1>3, <1>4, <1>5 DEF SaleNext

LEMMA TerminalTypesKeep ==
    ASSUME PosTypeOK, TerminalNext
    PROVE  PosTypeOK'
  BY DEF TerminalNext, AddTerminal, SetTerminalStatus, PosTypeOK,
         TerminalStatus, sales

LEMMA EndedStep == EndedInv /\ [CheckoutNext]_checkout => EndedInv'
  <1> SUFFICES ASSUME EndedInv, [CheckoutNext]_checkout
               PROVE  EndedInv'
    OBVIOUS
  <1>0. CheckoutInv /\ JobsInv /\ PosTypeOK
    BY DEF EndedInv
  <1>1. CheckoutInv'
    BY <1>0, CheckoutStep
  <1>2. ASSUME UNCHANGED <<transactions, cards, jobs, outcome>>
        PROVE  JobsInv'
    BY <1>0, <1>2, AddedRefsGoOn, OutcomeStays, JobsAreKept DEF transactions
  <1>3. ASSUME NEW r \in Card, CardNext(r), UNCHANGED <<terminal, sales>>
        PROVE  JobsInv' /\ PosTypeOK'
    BY <1>0, <1>3, CardJobsKeep DEF PosTypeOK, sales
  <1>4. ASSUME NEW s \in Sale,
               \/ SaleNext(s) /\ UNCHANGED <<cards, jobs, outcome>>
               \/ AnswerSale(s)
               \/ ReconcileSale(s)
        PROVE  JobsInv' /\ PosTypeOK'
    BY <1>0, <1>4, SaleJobsKeep, SaleTypesKeep
  <1>5. ASSUME TerminalNext, UNCHANGED <<cards, jobs, outcome>>
        PROVE  JobsInv' /\ PosTypeOK'
    <2>1. UNCHANGED transactions
      BY <1>5 DEF TerminalNext, AddTerminal, SetTerminalStatus
    <2> QED BY <1>0, <1>2, <1>5, <2>1, TerminalTypesKeep
  <1>6. ASSUME UNCHANGED checkout
        PROVE  JobsInv' /\ PosTypeOK'
    BY <1>0, <1>2, <1>6 DEF checkout, PosTypeOK, sales
  <1> QED BY <1>1, <1>3, <1>4, <1>5, <1>6 DEF EndedInv, CheckoutNext

-----------------------------------------------------------------------------
(* Theorems *)

\* However card jobs and sales of terminals for one order interleave, repeat
\* and break off, the order is credited at most once, when a payment of it was
\* notified or approved, and is reported as paid only when it was credited.
THEOREM CheckoutKeepsIntake == CheckoutSpec => KeepsIntake
  <1>1. CheckoutInit => Contract!IntakeInit
    BY DEF CheckoutInit, TransactionsInit, CardsInit, PosInit,
           Contract!IntakeInit, Attested
  <1> QED
    BY <1>1, CheckoutInitially, CheckoutStep, PTL
       DEF CheckoutSpec, KeepsIntake, Contract!IntakeSpec

\* The credits of an order are counted by its settled rows.
THEOREM CreditsHaveTheirRows == CheckoutSpec => []CreditHasItsRow
  <1>1. ASSUME RowsInv, NEW o \in Order
        PROVE  credits[o] = Cardinality({x \in rows : /\ x.executionStatus = "SUCCESS"
                                                      /\ x.merchantReference = o})
    <2> DEFINE paid == {x \in rows : x.executionStatus = "SUCCESS" /\ x.merchantReference = o}
    <2>1. CASE credits[o] = 0
      <3>1. paid = {}
        BY <1>1, <2>1 DEF RowsInv, CreditsAreRows, IsSettled
      <3> QED BY <2>1, <3>1, FS_EmptySet
    <2>2. CASE credits[o] = 1
      <3>1. PICK x \in paid : TRUE
        BY <1>1, <2>2 DEF RowsInv, CreditsAreRows, IsSettled
      <3>2. paid = {x}
        BY <1>1, <3>1 DEF RowsInv, CreditsAreRows, IsSettled
      <3> QED BY <2>2, <3>2, FS_Singleton
    <2> QED BY <1>1, <2>1, <2>2 DEF RowsInv, CreditsAreRows
  <1>2. CheckoutInv => CreditHasItsRow
    BY <1>1 DEF CheckoutInv, CreditHasItsRow
  <1> QED BY <1>2, CheckoutInitially, CheckoutStep, PTL DEF CheckoutSpec

\* A terminal that was answered for an approved charge finds the order credited.
THEOREM ApprovedWasCredited == CheckoutSpec => []ApprovedIsCredited
  <1>1. CheckoutInv => ApprovedIsCredited
    BY DEF CheckoutInv, SalesInv, ApprovedIsCredited
  <1> QED BY <1>1, CheckoutInitially, CheckoutStep, PTL DEF CheckoutSpec

LEMMA EndedIsTyped == EndedInv => CheckoutTypeOK
  BY DEF EndedInv, CheckoutInv, RowsInv, RowsAreRows, CreditsAreRows, JobsInv,
         CheckoutTypeOK, TransactionsTypeOK

\* Every variable keeps its type.
THEOREM CheckoutIsTyped == CheckoutSpec => []CheckoutTypeOK
  <1> QED BY EndedIsTyped, EndedInitially, EndedStep, PTL DEF CheckoutSpec

\* A job that ended well, and never broke off after marking the card, has told
\* the merchant of success, and has marked the order as paid unless the order
\* has other transactions.
THEOREM EndedWellWasTold == CheckoutSpec => []EndedWellIsTold
  <1>1. ASSUME RowsInv, NEW o \in Order, Several(o)
        PROVE  Cardinality(ByMerchantReference(o)) > 1
    <2>1. PICK x, y \in ByMerchantReference(o) : x # y
      BY <1>1 DEF Several, References
    <2>2. ByMerchantReference(o) \subseteq rows
      BY DEF ByMerchantReference
    <2>3. IsFiniteSet(ByMerchantReference(o))
      BY <1>1, <2>2, FS_Subset DEF RowsInv, RowsAreRows
    <2>4. /\ Cardinality({x, y}) <= Cardinality(ByMerchantReference(o))
          /\ Cardinality({x, y}) \in Nat /\ Cardinality(ByMerchantReference(o)) \in Nat
      <3>1. {x, y} \subseteq ByMerchantReference(o)
        OBVIOUS
      <3> QED BY <2>3, <3>1, FS_Subset, FS_CardinalityType
    <2>5. Cardinality({x, y}) = 2
      <3>1. IsFiniteSet({x}) /\ Cardinality({x}) = 1
        BY FS_Singleton
      <3>2. {x, y} = {x} \cup {y} /\ y \notin {x}
        BY <2>1
      <3>3. Cardinality({x} \cup {y}) = Cardinality({x}) + 1
        BY <3>1, <3>2, FS_AddElement
      <3>4. Cardinality({x, y}) = Cardinality({x} \cup {y})
        BY <3>2
      <3> QED BY <3>1, <3>3, <3>4
    <2> QED BY <2>4, <2>5
  <1>2. EndedInv => EndedWellIsTold
    BY <1>1 DEF EndedInv, CheckoutInv, JobsInv, JobInv, Reached,
           EndedWellIsTold
  <1> QED BY <1>2, EndedInitially, EndedStep, PTL DEF CheckoutSpec

=============================================================================
