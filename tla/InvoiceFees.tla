----------------------------- MODULE InvoiceFees -----------------------------
(***************************************************************************)
(* The fee of one invoice payment.  The payer is shown a total, pays, and  *)
(* the payment is settled, maybe much later; the fee is computed from the  *)
(* configuration at each of these, while administrators change it.  When   *)
(* the payer bears the fee of a charge, the one he paid travels with the   *)
(* payment (feeCharged) and is taken off instead of a new one.  With a     *)
(* transfer no fee travels: the account is stored without it.              *)
(***************************************************************************)
EXTENDS Integers

CONSTANTS
    Amount,     \* amounts an invoice may have, in kobo
    Method,     \* payment methods; each has its own fee configuration
    Transfer,   \* the method that shows the payer an account to pay into
    FeeConfig,  \* fee configurations
    NoFee       \* no configuration; no feeCharged

ASSUME InvoiceFeesAssumption ==
    /\ Amount \subseteq Nat
    /\ Transfer \in Method
    /\ FeeConfig \subseteq [useFlatFee : BOOLEAN, flatFee : Nat, rate : Nat,
                            scale : Nat \ {0}, cap : Nat]
    /\ NoFee \notin FeeConfig /\ NoFee \notin Nat

VARIABLES
    amount,         \* the invoice
    chargeFee,      \* the payment rule of its service: the payer bears the fee
    platform,       \* platform_fee_configuration, the fee charged, by method
    provider,       \* the same rows, the fee the provider takes
    business,       \* business_fee_configuration: the fee agreed with this one
    method, shown,  \* the total the payer was shown, and for which method
    paid,           \* what he paid, 0 before
    feeCharged,     \* the fee that travels with the payment, NoFee if none
    settled         \* the fee row and the credit, or 0

configs  == <<chargeFee, platform, provider, business>>
payment  == <<method, shown, paid, feeCharged>>
invoiceFees == <<amount, configs, payment, settled>>

Settled == [netAmount : Nat, chargedFee : Nat, platformRevenue : Int]

InvoiceFeesTypeOK ==
    /\ amount \in Amount
    /\ chargeFee \in BOOLEAN
    /\ platform \in [Method -> FeeConfig \cup {NoFee}]
    /\ provider \in [Method -> FeeConfig]
    /\ business \in [Method -> FeeConfig \cup {NoFee}]
    /\ method \in Method
    /\ shown \in Nat \cup {NoFee}
    /\ paid \in Nat \cup {NoFee}
    /\ feeCharged \in Nat \cup {NoFee}
    /\ settled \in Settled \cup {NoFee}

InvoiceFeesInit ==
    /\ amount \in Amount
    /\ chargeFee \in BOOLEAN
    /\ platform \in [Method -> FeeConfig \cup {NoFee}]
    /\ provider \in [Method -> FeeConfig]
    /\ business = [m \in Method |-> NoFee]
    /\ method \in Method
    /\ shown = NoFee
    /\ paid = NoFee
    /\ feeCharged = NoFee
    /\ settled = NoFee

-----------------------------------------------------------------------------
(* FeeConfigurationService *)

\* calculateFee: flat, or a rate (a fraction, rounded up) with a cap if any.
CalculateFee(config, a) ==
    IF config.useFlatFee THEN config.flatFee
    ELSE LET fee == (a * config.rate + config.scale - 1) \div config.scale IN
         IF config.cap > 0 /\ fee > config.cap THEN config.cap ELSE fee

\* getFeeBySource, chargedFee: the one agreed with the business comes first.
ChargedFee(m, a) ==
    CalculateFee(IF business[m] = NoFee THEN platform[m] ELSE business[m], a)

\* Fault: a fee that was charged already is computed anew.
RecomputedFee(m, a, precomputed) == ChargedFee(m, a)

\* ... unless the fee was charged already.
FeeBySource(m, a, precomputed) ==
    IF precomputed # NoFee THEN precomputed ELSE ChargedFee(m, a)

ChangeFees ==
    /\ \/ /\ \E m \in Method, c \in FeeConfig : platform' = [platform EXCEPT ![m] = c]
          /\ UNCHANGED business
       \/ /\ \E m \in Method, c \in FeeConfig : business' = [business EXCEPT ![m] = c]
          /\ UNCHANGED platform
    /\ UNCHANGED <<amount, chargeFee, provider, payment, settled>>

-----------------------------------------------------------------------------
(* InvoiceFeeService *)

IsPriced(m) == chargeFee => platform[m] # NoFee

\* computeFee: what the payer has to pay.
Fee(m)   == IF chargeFee THEN ChargedFee(m, amount) ELSE 0
Total(m) == amount + Fee(m)

PreviewFee(m) ==
    /\ paid = NoFee
    /\ IsPriced(m)
    /\ method' = m
    /\ shown' = Total(m)
    /\ UNCHANGED <<amount, configs, paid, feeCharged, settled>>

-----------------------------------------------------------------------------
(* The payment initiators: the payer submits the total he was shown, and it *)
(* must be the total now; for a transfer he is shown the account's amount.  *)

\* What the payment is made for, and the fee that travels with it.
Pay(fee) ==
    /\ paid' = Total(method)
    /\ feeCharged' = fee
    /\ UNCHANGED <<amount, configs, method, shown, settled>>

\* The initiator hands the fee over, but generateDynamicVirtualAccount stores
\* NULL with the account, and the credit job reads it from there.
InitiateTransfer ==
    /\ method = Transfer
    /\ Pay(NoFee)

InitiateCharge ==
    /\ method # Transfer
    /\ shown = Total(method)
    /\ Pay(IF chargeFee THEN Fee(method) ELSE NoFee)

\* getInitiator
Initiate ==
    /\ paid = NoFee
    /\ IsPriced(method)
    /\ InitiateTransfer \/ InitiateCharge

-----------------------------------------------------------------------------
(* createSettlement: getCreditAmounts and recordCreditTransactionFee.  A    *)
(* payment that does not cover the fees is refused, as often as it is tried. *)

\* recordTransactionFee, and what the wallet is credited with
FeeRow(charged, providerFee) ==
    [netAmount |-> paid - charged, chargedFee |-> charged,
     platformRevenue |-> charged - providerFee]

\* Fault: nobody checks that the payment covers the fees.
SettleUncovered ==
    LET charged     == FeeBySource(method, paid, feeCharged)
        providerFee == CalculateFee(provider[method], paid)
    IN
    /\ paid # NoFee
    /\ settled = NoFee
    /\ platform[method] # NoFee
    /\ settled' = FeeRow(charged, providerFee)
    /\ UNCHANGED <<amount, configs, payment>>

Settle ==
    LET charged     == FeeBySource(method, paid, feeCharged)
        providerFee == CalculateFee(provider[method], paid)
    IN
    /\ paid # NoFee
    /\ settled = NoFee
    /\ platform[method] # NoFee
    /\ charged <= paid
    /\ providerFee <= paid
    /\ settled' = FeeRow(charged, providerFee)
    /\ UNCHANGED <<amount, configs, payment>>

-----------------------------------------------------------------------------
InvoiceFeesNext ==
    \/ ChangeFees
    \/ \E m \in Method : PreviewFee(m)
    \/ Initiate
    \/ Settle

InvoiceFeesSpec == InvoiceFeesInit /\ [][InvoiceFeesNext]_invoiceFees

-----------------------------------------------------------------------------
\* Whatever happened to the configuration between preview, payment and
\* settlement, the fee of a charge (card or terminal) is borne once: by the
\* payer, and then the business is credited with exactly its invoice, or by the
\* business, and then the payer pays exactly the invoice.  The books show the
\* fee that was borne.
FeeBorneOnce ==
    settled # NoFee =>
        /\ paid = settled.netAmount + settled.chargedFee
        /\ ~chargeFee => paid = amount
        /\ chargeFee /\ method # Transfer => settled.netAmount = amount

\* The fee of a transfer that is in the total already, because the payer bears
\* it, is the one that is taken off, as for a charge.
TransferFeeStands ==
    settled # NoFee /\ chargeFee /\ method = Transfer =>
        settled.chargedFee = paid - amount

=============================================================================
