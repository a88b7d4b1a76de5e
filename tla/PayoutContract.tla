--------------------------- MODULE PayoutContract ---------------------------
(***************************************************************************)
(* What a merchant may rely on about a payout, whatever queues, workers    *)
(* and status polls lie between the API and the bank: money leaves the     *)
(* bank only for a payout whose amount the wallet has given up, it leaves  *)
(* a bounded number of times, and a payout reported as completed has left. *)
(* A report of failure promises nothing, and any report may be revised.    *)
(***************************************************************************)
EXTENDS Naturals

CONSTANTS
    Payout,
    Times       \* how often the money of a payout may leave

VARIABLES
    reserved,   \* payouts the wallet has been debited for
    sent,       \* sent[p]: how often the bank has moved the money of p
    report      \* report[p]: what the merchant is told

contract == <<reserved, sent, report>>

Report == {"NONE", "PROCESSING", "COMPLETED", "FAILED"}

ContractTypeOK ==
    /\ reserved \subseteq Payout
    /\ sent \in [Payout -> 0..Times]
    /\ report \in [Payout -> Report]

ContractInit ==
    /\ reserved = {}
    /\ sent = [p \in Payout |-> 0]
    /\ report = [p \in Payout |-> "NONE"]

Reserve(p) ==
    /\ p \notin reserved
    /\ reserved' = reserved \cup {p}
    /\ report' = [report EXCEPT ![p] = "PROCESSING"]
    /\ UNCHANGED sent

Send(p) ==
    /\ p \in reserved
    /\ sent[p] < Times
    /\ sent' = [sent EXCEPT ![p] = @ + 1]
    /\ UNCHANGED <<reserved, report>>

Tell(p, verdict) ==
    /\ p \in reserved
    /\ verdict = "COMPLETED" => sent[p] > 0
    /\ report' = [report EXCEPT ![p] = verdict]
    /\ UNCHANGED <<reserved, sent>>

ContractNext ==
    \E p \in Payout :
        \/ Reserve(p)
        \/ Send(p)
        \/ \E verdict \in {"PROCESSING", "COMPLETED", "FAILED"} :
              Tell(p, verdict)

ContractSpec == ContractInit /\ [][ContractNext]_contract

=============================================================================
