-------------------------------- MODULE Pos --------------------------------
(***************************************************************************)
(* Payment at a POS terminal: one request looks the order up, checks the   *)
(* merchant and the terminal, charges the card, stores the charge, settles *)
(* it if the provider took it and tells the merchant.  Each is a statement *)
(* of its own, and the request may end after any of them.                  *)
(***************************************************************************)
EXTENDS Transactions

CONSTANTS
    Sale,       \* the requests that pay at a terminal
    Terminal,   \* terminals of the business
    At          \* At[s]: the terminal sale s names

ASSUME PosAssumption == Sale \subseteq Request /\ At \in [Sale -> Terminal]

VARIABLES
    terminal,   \* terminals: the row's status, NONE if there is none
    posStep,    \* how far the request is
    charge,     \* what the provider has done with the card
    pos         \* pos_transactions: status of the row, NONE if there is none

sales == <<posStep, charge, pos>>

TerminalStatus == {"NONE", "ACTIVE", "INACTIVE"}

PosTypeOK ==
    /\ terminal \in [Terminal -> TerminalStatus]
    /\ posStep \in [Sale -> {"new", "looked", "checked", "charged", "saved",
                             "settled", "ended", "answered"}]
    /\ charge \in [Sale -> {"none", "taken", "declined"}]
    /\ pos \in [Sale -> {"NONE", "SUCCESS", "FAILED"}]

PosInit ==
    /\ terminal = [t \in Terminal |-> "NONE"]
    /\ posStep = [s \in Sale |-> "new"]
    /\ charge = [s \in Sale |-> "none"]
    /\ pos = [s \in Sale |-> "NONE"]

-----------------------------------------------------------------------------
(* PosTerminalService *)

AddTerminal(t) ==
    /\ terminal[t] = "NONE"
    /\ terminal' = [terminal EXCEPT ![t] = "ACTIVE"]
    /\ UNCHANGED <<transactions, sales>>

SetTerminalStatus(t, new) ==
    /\ terminal[t] \notin {"NONE", new}
    /\ terminal' = [terminal EXCEPT ![t] = new]
    /\ UNCHANGED <<transactions, sales>>

-----------------------------------------------------------------------------
(* chargePos *)

Goes(s, from, to) ==
    /\ posStep[s] = from
    /\ posStep' = [posStep EXCEPT ![s] = to]

\* A reference that has been used is refused.
LookUpOrder(s) ==
    /\ Goes(s, "new", "looked")
    /\ ByMerchantReference(RefOf[s]) = {}
    /\ UNCHANGED <<transactions, terminal, charge, pos>>

CheckTerminal(s) ==
    /\ Goes(s, "looked", "checked")
    /\ terminal[At[s]] = "ACTIVE"
    /\ UNCHANGED <<transactions, terminal, charge, pos>>

\* Nothing is stored before the provider has answered.
ChargeCard(s) ==
    /\ Goes(s, "checked", "charged")
    /\ \E answer \in {"taken", "declined"} : charge' = [charge EXCEPT ![s] = answer]
    /\ UNCHANGED <<transactions, terminal, pos>>

\* resolveExecutionStatus: code '00' is success, any other is failure.
SaveSale(s) ==
    /\ Goes(s, "charged", "saved")
    /\ pos' = [pos EXCEPT ![s] = IF charge[s] = "taken" THEN "SUCCESS" ELSE "FAILED"]
    /\ UNCHANGED <<transactions, terminal, charge>>

\* The row of a declined charge has the merchant's reference for its own.
Declined(s) ==
    [reference |-> RefOf[s], merchantReference |-> NoReference,
     providerReference |-> NoReference, idempotencyKey |-> <<"pos", RefOf[s]>>,
     sourceId |-> s, executionStatus |-> "FAILED", created |-> Last]

\* Fault: every charge is settled.
SettleEverySale(s) ==
    /\ Goes(s, "saved", "settled")
    /\ CreateSettlement(s, RefOf[s], s)
    /\ UNCHANGED <<terminal, charge, pos>>

SettleSale(s) ==
    /\ Goes(s, "saved", "settled")
    /\ \/ /\ pos[s] = "SUCCESS"
          /\ CreateSettlement(s, RefOf[s], s)
       \/ /\ pos[s] = "FAILED"
          /\ CreateTransaction(Declined(s))
          /\ UNCHANGED credits
    /\ UNCHANGED <<terminal, charge, pos>>

\* The request is refused, a statement throws (the charge may have been made),
\* or the server dies.
EndSale(s) ==
    /\ posStep[s] \notin {"ended", "answered"}
    /\ posStep' = [posStep EXCEPT ![s] = "ended"]
    /\ \/ UNCHANGED charge
       \/ /\ posStep[s] = "checked"
          /\ charge' = [charge EXCEPT ![s] = "taken"]
    /\ UNCHANGED <<transactions, terminal, pos>>

\* PosService.incomingWebhook, found by rrn and stan: the provider's reference
\* is written to the charge's transaction, if it has one by now.
NotifySale(s) ==
    /\ pos[s] # "NONE"
    /\ UpdateBySource(s, Theirs)
    /\ UNCHANGED <<credits, terminal, sales>>

-----------------------------------------------------------------------------
SaleNext(s) ==
    \/ LookUpOrder(s)
    \/ CheckTerminal(s)
    \/ ChargeCard(s)
    \/ SaveSale(s)
    \/ SettleSale(s)
    \/ EndSale(s)
    \/ NotifySale(s)

TerminalNext ==
    \E t \in Terminal :
        AddTerminal(t) \/ \E new \in {"ACTIVE", "INACTIVE"} : SetTerminalStatus(t, new)

=============================================================================
