----------------------------- MODULE MCServices -----------------------------
(***************************************************************************)
(* The parts of the system that do not interact with each other, checked   *)
(* side by side: a behaviour is one of a single part, the others stay as   *)
(* they began.                                                             *)
(***************************************************************************)
EXTENDS Checkout, Invoices, InvoiceFees, Sweeps, ProviderTokens, Onboarding,
        Accounts, TLC

CONSTANTS m1, k1, k2, p1, p2, s1, s2, s3, a1, a2, a3, a4, u1, u2, r1, r2, c1, c2,
          t1, x1

VARIABLE part   \* the part that runs

(* Checkout: one order, two cards and a terminal, or a card and two. *)
MCRefOf == [r \in {k1, k2, p1, p2} |-> m1]
MCAt    == [s \in {p1, p2} |-> t1]

(* Invoicing: two requests under one reference, one of them a retry. *)
MCItems ==
    {[fixedPrice |-> TRUE, fixedAmount |-> 200, settlementAccountId |-> u1, taxed |-> TRUE],
     [fixedPrice |-> FALSE, fixedAmount |-> None, settlementAccountId |-> None, taxed |-> FALSE]}
MCForm  == {[formKey |-> "email", formType |-> "email", required |-> TRUE,
             options |-> {}]}
Answer  == [chosen |-> {}, reads |-> {"email"}]
MCAskOf ==
    [c \in {c1, c2} |->
        [merchantReference |-> m1, items |-> 1, amount |-> 200,
         details |-> [k \in {"email"} |-> Answer],
         totalAmount |-> None]]
MCTaxConfig ==
    {[rate |-> 10, payer |-> "CUSTOMER", collectionMode |-> "PLATFORM_WITHHELD",
      status |-> "ACTIVE"],
     [rate |-> 20, payer |-> "BUSINESS", collectionMode |-> "MERCHANT_REMITTED",
      status |-> "ACTIVE"]}

(* Fees, in kobo: flat, and a rate that reaches its cap. *)
MCFeeConfig ==
    {[useFlatFee |-> TRUE, flatFee |-> 30, rate |-> 0, scale |-> 1, cap |-> 0],
     [useFlatFee |-> FALSE, flatFee |-> 0, rate |-> 15, scale |-> 1000, cap |-> 10]}

\* A rate without a cap, so that the fee of the total is not that of the invoice.
MCUncappedFee == {[useFlatFee |-> FALSE, flatFee |-> 0, rate |-> 15, scale |-> 1000, cap |-> 0]}

(* Sweeps: two requests under one reference, and another. *)
MCSweepRef == s1 :> r1 @@ s2 :> r1 @@ s3 :> r2
MCFromOf   == [s \in {s1, s2, s3} |-> "main"]

MCKindOf == s1 :> "information" @@ s2 :> "documents" @@ s3 :> "representatives"

(* Accounts: two requests for each kind of token, one of them to resend it. *)
MCWantOf ==
    [a \in {a1, a2, a3, a4} |->
        [owner |-> u1,
         type |-> IF a \in {a3, a4} THEN "EMAIL_VERIFICATION" ELSE "PASSWORD_RESET"]]
MCTypeOf ==
    [p \in {p1, p2, k1} |->
        IF p = k1 THEN "EMAIL_VERIFICATION" ELSE "PASSWORD_RESET"]
MCChangerOf == c1 :> u1

-----------------------------------------------------------------------------
PartsInit ==
    /\ part \in {"cards", "terminals", "invoices", "fees", "sweeps", "provider",
                "onboarding", "people", "tokens"}
    /\ CheckoutInit
    /\ InvoicesInit
    /\ part # "invoices" => tax.rate = 20
    /\ InvoiceFeesInit
    /\ part # "fees" =>
        /\ amount = 1000
        /\ chargeFee
        /\ method = x1
        /\ \A m \in Method : platform[m] = NoFee /\ provider[m].useFlatFee
    /\ SweepsInit
    /\ ProviderTokensInit
    /\ OnboardingInit
    /\ AccountsInit

\* One after the other, so that TLC knows the part before it tries its steps.
\* Bounds: a card is notified after the provider knows its reference, and only
\* the first one of the cards is ever authorised (no step reads what became of
\* a charge).
PartsNext ==
    /\ UNCHANGED part
    /\ \/ /\ part \in {"cards", "terminals"}
          /\ CheckoutNext
          /\ \A k \in {k1, k2} : job'[k] # "none" => held'[k] # "none"
          /\ \A k \in {k1, k2} : <<part, k>> # <<"cards", k1>> => held'[k] \in {"none", "held"}
          /\ IF part = "cards" THEN posStep'[p2] = "new"
             ELSE /\ cardStep'[k2] = "new" /\ tries'[k1] <= 1
                  /\ terminal'[t1] # "INACTIVE"
          /\ UNCHANGED <<invoicing, invoiceFees, sweeping, providing, onboarding, accounts>>
       \/ /\ part = "invoices"
          /\ InvoicesNext
          /\ UNCHANGED <<checkout, invoiceFees, sweeping, providing, onboarding, accounts>>
       \/ /\ part = "fees"
          /\ InvoiceFeesNext
          /\ UNCHANGED <<checkout, invoicing, sweeping, providing, onboarding, accounts>>
       \/ /\ part = "sweeps"
          /\ SweepsNext
          /\ UNCHANGED <<checkout, invoicing, invoiceFees, providing, onboarding, accounts>>
       \/ /\ part = "provider"
          /\ ProviderTokensNext
          /\ UNCHANGED <<checkout, invoicing, invoiceFees, sweeping, onboarding, accounts>>
       \/ /\ part = "onboarding"
          /\ OnboardingNext
          /\ UNCHANGED <<checkout, invoicing, invoiceFees, sweeping, providing, accounts>>
       \/ /\ part \in {"people", "tokens"}
          /\ AccountsNext
          /\ IF part = "people"
             THEN \A a \in {a1, a2} : askStep'[a] = askStep[a]
             ELSE /\ Cardinality(members') = 1
                  /\ \A a \in {a3, a4} : askStep'[a] = askStep[a]
                  /\ UNCHANGED changeStep
          /\ UNCHANGED <<checkout, invoicing, invoiceFees, sweeping, providing, onboarding>>

parts == <<part, checkout, invoicing, invoiceFees, sweeping, providing, onboarding, accounts>>

PartsSpec ==
    PartsInit /\ [][PartsNext]_parts /\ CheckoutFairness /\ SweepsFairness

PartsTypeOK ==
    /\ CheckoutTypeOK
    /\ InvoicesTypeOK
    /\ InvoiceFeesTypeOK
    /\ SweepsTypeOK
    /\ ProviderTokensTypeOK
    /\ OnboardingTypeOK
    /\ AccountsTypeOK

=============================================================================
