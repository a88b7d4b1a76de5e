--------------------------- MODULE IntakeContract ---------------------------
(***************************************************************************)
(* What a merchant may rely on about an order that is paid by card,        *)
(* whatever jobs, retries and repeated requests lie between the payer and  *)
(* the wallet: the wallet is credited only for an order of which a payment *)
(* was notified or approved, once however often that happens, and an order *)
(* is reported as paid only when it has been credited.  A report of        *)
(* failure promises nothing.                                               *)
(***************************************************************************)
EXTENDS Naturals

CONSTANT Order

VARIABLES
    attested,   \* orders of which a payment was notified or approved
    credited,   \* credited[o]: how often the wallet was credited
    settled,    \* orders marked as paid
    reports     \* reports[o]: what the merchant was told

intake == <<attested, credited, settled, reports>>

Verdict == {"SUCCESS", "FAILED"}

IntakeTypeOK ==
    /\ attested \subseteq Order
    /\ credited \in [Order -> {0, 1}]
    /\ settled \subseteq Order
    /\ reports \in [Order -> SUBSET Verdict]

IntakeInit ==
    /\ attested = {}
    /\ credited = [o \in Order |-> 0]
    /\ settled = {}
    /\ reports = [o \in Order |-> {}]

Attest(o) ==
    /\ attested' = attested \cup {o}
    /\ UNCHANGED <<credited, settled, reports>>

CreditOnce(o) ==
    /\ o \in attested
    /\ credited[o] = 0
    /\ credited' = [credited EXCEPT ![o] = 1]
    /\ UNCHANGED <<attested, settled, reports>>

SettleCredited(o) ==
    /\ credited[o] = 1
    /\ settled' = settled \cup {o}
    /\ UNCHANGED <<attested, credited, reports>>

Report(o, verdict) ==
    /\ verdict = "SUCCESS" => credited[o] = 1
    /\ reports' = [reports EXCEPT ![o] = @ \cup {verdict}]
    /\ UNCHANGED <<attested, credited, settled>>

IntakeNext ==
    \E o \in Order :
        \/ Attest(o)
        \/ CreditOnce(o)
        \/ SettleCredited(o)
        \/ \E verdict \in Verdict : Report(o, verdict)

IntakeSpec == IntakeInit /\ [][IntakeNext]_intake

=============================================================================
