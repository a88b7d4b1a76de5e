------------------------------ MODULE Services ------------------------------
(***************************************************************************)
(* A service a business offers, with the one item it asks to be paid and   *)
(* the form a payer fills in.  Dashboard users create it, switch it on and *)
(* off and edit it; a request to edit reads the row, changes it and writes *)
(* the whole of it back.                                                   *)
(***************************************************************************)
EXTENDS Naturals

CONSTANTS
    Account,    \* settlement bank accounts of the business
    Price,      \* amounts an item may cost
    Items,      \* the items dashboard users choose from
    Form,       \* the fields of the form: mandatory ones and the service's own
    Editor,     \* dashboard requests that load and save the service
    None        \* SQL NULL, and a value a payer left out

Item == [fixedPrice : BOOLEAN, fixedAmount : Price \cup {None},
         settlementAccountId : Account \cup {None}, taxed : BOOLEAN]

ASSUME ServicesAssumption ==
    /\ Price \subseteq Nat
    /\ None \notin Price \cup Account
    /\ Items \subseteq Item

VARIABLES
    service,    \* the row: whether it exists and is active
    item,       \* its item
    loaded      \* loaded[e]: isActive as request e read it

services == <<service, item, loaded>>

ServicesTypeOK ==
    /\ service \in {"none", "active", "inactive"}
    /\ item \in Item
    /\ loaded \in [Editor -> {"idle", "active", "inactive"}]

ServicesInit ==
    /\ service = "none"
    /\ item = [fixedPrice |-> FALSE, fixedAmount |-> None,
               settlementAccountId |-> None, taxed |-> FALSE]
    /\ loaded = [e \in Editor |-> "idle"]

-----------------------------------------------------------------------------
(* ServiceCheckoutService *)

\* Service, payment rule, items and form in one database transaction.
CreateService(new) ==
    /\ service = "none"
    /\ service' = "active"
    /\ item' = new
    /\ UNCHANGED loaded

LoadService(e) ==
    /\ service # "none"
    /\ loaded[e] = "idle"
    /\ loaded' = [loaded EXCEPT ![e] = service]
    /\ UNCHANGED <<service, item>>

SaveService(e, status) ==
    /\ loaded[e] # "idle"
    /\ service' = status
    /\ loaded' = [loaded EXCEPT ![e] = "idle"]
    /\ UNCHANGED item

\* toggleServiceStatus: the opposite of what it read.
ToggleServiceStatus(e) ==
    SaveService(e, IF loaded[e] = "active" THEN "inactive" ELSE "active")

\* updateService: name and options change, isActive is what it read.
UpdateService(e) == SaveService(e, loaded[e])

\* updateServiceItem.  (addServiceItem gives the service more items; an
\* invoice is for one of them.)
UpdateServiceItem(new) ==
    /\ service # "none"
    /\ new.fixedPrice => new.fixedAmount # None
    /\ item' = new
    /\ UNCHANGED <<service, loaded>>

-----------------------------------------------------------------------------
(* The form: a value chooses options and can be read as some types. *)

OptionTypes == {"select", "radio", "checkbox"}
ReadTypes   == {"email", "number", "date"}

Fits(field, value) ==
    \/ field.formType \in OptionTypes /\ value.chosen \subseteq field.options
    \/ field.formType \in ReadTypes /\ field.formType \in value.reads
    \/ field.formType \notin OptionTypes \cup ReadTypes

\* validateFormDetails
FormIsFilledIn(details) ==
    \A field \in Form :
        IF details[field.formKey] = None
        THEN ~field.required
        ELSE Fits(field, details[field.formKey])

=============================================================================
