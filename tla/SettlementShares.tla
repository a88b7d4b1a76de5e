-------------------------- MODULE SettlementShares --------------------------
(***************************************************************************)
(* How a collection is split among its destinations and what each bears of *)
(* the merchant's fee: allocateSettlementShares, largest remainders first. *)
(* An allocation is [gross, bears]; a tax allocation bears no fee.         *)
(***************************************************************************)
EXTENDS Integers, Sequences, FiniteSets, Functions

CONSTANTS
    MaxGross,       \* bound on an allocation's gross amount
    MaxFee,         \* bound on the merchant's fee
    MaxParts        \* bound on the allocations of one collection

ASSUME SharesAssumption == MaxGross \in Nat /\ MaxFee \in Nat /\ MaxParts \in Nat

VARIABLE split      \* the allocations and the fee of the collection at hand

Allocation == [gross : 1..MaxGross, bears : BOOLEAN]

GrossAmounts(parts) == [i \in DOMAIN parts |-> parts[i].gross]

Gross(parts) == SumFunction(GrossAmounts(parts))

Bearing(parts) == {i \in DOMAIN parts : parts[i].bears}

\* What the allocations that bear the fee come to.
Base(parts) == SumFunctionOnSet(GrossAmounts(parts), Bearing(parts))

\* A fee with nothing to bear it is refused.
Accepted(parts, fee) == Gross(parts) > 0 /\ (fee > 0 => Base(parts) > 0)

\* Fault: every allocation's fee is rounded up.
Ceiling(parts, fee, i) ==
    IF parts[i].bears
    THEN (fee * parts[i].gross + Base(parts) - 1) \div Base(parts)
    ELSE 0

Floor(parts, fee, i) ==
    IF parts[i].bears THEN (fee * parts[i].gross) \div Base(parts) ELSE 0

Remainder(parts, fee, i) == (fee * parts[i].gross) % Base(parts)

Leftover(parts, fee) ==
    fee - SumFunction([i \in DOMAIN parts |-> Floor(parts, fee, i)])

\* Fault: the allocations are served in the order they come in.
BeforeAnyhow(parts, fee, i) == {j \in Bearing(parts) : j < i}

\* The allocations served before i: larger remainders, then earlier ones.
Before(parts, fee, i) ==
    {j \in Bearing(parts) :
        \/ Remainder(parts, fee, j) > Remainder(parts, fee, i)
        \/ /\ Remainder(parts, fee, j) = Remainder(parts, fee, i)
           /\ j < i}

FeeShare(parts, fee, i) ==
    Floor(parts, fee, i)
        + IF parts[i].bears
             /\ Cardinality(Before(parts, fee, i)) < Leftover(parts, fee)
          THEN 1 ELSE 0

\* feeCharged: the customer paid the fee on top of the gross amounts.
Shares(parts, fee, feeCharged) ==
    [i \in DOMAIN parts |->
        parts[i].gross - IF feeCharged THEN 0 ELSE FeeShare(parts, fee, i)]

\* recordSettlementShare passes over a share that is not positive.
Recorded(parts, fee, feeCharged) ==
    {i \in DOMAIN parts : Shares(parts, fee, feeCharged)[i] > 0}

-----------------------------------------------------------------------------
Splits ==
    {x \in (UNION {[1..n -> Allocation] : n \in 1..MaxParts}) \X (0..MaxFee) :
        Accepted(x[1], x[2])}

-----------------------------------------------------------------------------
(* Properties *)

\* The shares come to what the collection brought less the fee, to the kobo
\* (the comment on allocateSettlementShares), so what is recorded in buckets
\* is what the ledger owes the merchant - provided the fee does not exceed what
\* bears it, for a share below zero is not recorded.
SharesAddUp ==
    LET parts == split[1]  fee == split[2]  shares == Shares(parts, fee, FALSE)
    IN  /\ SumFunction(shares) = Gross(parts) - fee
        /\ fee <= Base(parts) =>
            SumFunctionOnSet(shares, Recorded(parts, fee, FALSE)) =
                Gross(parts) - fee

\* No division of the fee in whole kobo is closer to the exact quotas: of two
\* allocations, moving one kobo of fee from i to j does not bring both nearer,
\* and a tax allocation bears nothing (Hamilton's method, which the comment
\* names).
Excess(parts, fee, i) ==
    FeeShare(parts, fee, i) * Base(parts) - fee * parts[i].gross

SharesAreFair ==
    LET parts == split[1]  fee == split[2] IN
        /\ \A i, j \in Bearing(parts) :
            Excess(parts, fee, i) - Excess(parts, fee, j) <= Base(parts)
        /\ \A i \in DOMAIN parts \ Bearing(parts) : FeeShare(parts, fee, i) = 0

=============================================================================
