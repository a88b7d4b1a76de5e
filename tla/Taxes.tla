------------------------------- MODULE Taxes -------------------------------
(***************************************************************************)
(* One tax: its configuration and the accounts collected tax is settled    *)
(* to, which administrators change while invoices are assessed.            *)
(***************************************************************************)
EXTENDS Naturals, Sequences

CONSTANTS
    TaxAccount, \* bank accounts and wallets tax may go to
    TaxConfig,  \* the configurations administrators choose from
    NoAccount   \* a destination that names neither account nor wallet

TaxPayer == {"CUSTOMER", "BUSINESS"}
TaxCollectionMode ==
    {"PLATFORM_WITHHELD", "MERCHANT_REMITTED", "GOVERNMENT_DIRECT"}

TaxConfiguration ==
    [rate : Nat, payer : TaxPayer, collectionMode : TaxCollectionMode,
     status : {"ACTIVE", "INACTIVE"}]

ASSUME TaxesAssumption ==
    /\ TaxConfig \subseteq TaxConfiguration
    /\ NoAccount \notin TaxAccount

VARIABLES
    tax,            \* the configuration, in force
    destinations    \* its destinations, oldest first

taxes == <<tax, destinations>>

Destination == [account : TaxAccount \cup {NoAccount},
                status : {"ACTIVE", "INACTIVE"}]

\* tax_transactions: what an invoice keeps of tax and destination
TaxTransaction ==
    [amount : Nat, rate : Nat, payer : TaxPayer,
     collectionMode : TaxCollectionMode,
     destination : TaxAccount \cup {NoAccount}]

TaxesTypeOK ==
    /\ tax \in TaxConfig
    /\ destinations \in Seq(Destination)

TaxesInit ==
    /\ tax \in TaxConfig
    /\ destinations = << >>

-----------------------------------------------------------------------------
(* TaxManagementService *)

\* createTaxConfiguration made the first; updateTaxConfiguration replaces
\* any of its fields.
UpdateTaxConfiguration(new) ==
    /\ new # tax
    /\ tax' = new
    /\ UNCHANGED destinations

\* A destination that is a bank account or a wallet must name it.
AddTaxSettlementDestination(new) ==
    /\ destinations' = Append(destinations, new)
    /\ UNCHANGED tax

UpdateTaxSettlementDestination(i, new) ==
    /\ new # destinations[i]
    /\ destinations' = [destinations EXCEPT ![i] = new]
    /\ UNCHANGED tax

-----------------------------------------------------------------------------
\* getActiveTaxConfigurations: an invoice needs the tax of its item in force.
IsTaxActive == tax.status = "ACTIVE"

\* The rate is a percentage.
CalculateTaxAmount(base, rate) == (base * rate) \div 100

ActiveDestinations ==
    {i \in DOMAIN destinations : destinations[i].status = "ACTIVE"}

\* The latest active destination: where tax assessed now will go.
CurrentDestination ==
    IF ActiveDestinations = {} THEN NoAccount
    ELSE destinations[CHOOSE i \in ActiveDestinations :
                        \A j \in ActiveDestinations : j <= i].account

\* A tax transaction as createAssessedTaxTransactions writes it: rate, payer
\* and mode of the configuration it reads, but an amount it was given.
Assessed(config, amount) ==
    [amount |-> amount, rate |-> config.rate, payer |-> config.payer,
     collectionMode |-> config.collectionMode,
     destination |-> IF config.collectionMode = "MERCHANT_REMITTED"
                     THEN NoAccount ELSE CurrentDestination]

=============================================================================
