------------------------------- MODULE Sweeps -------------------------------
(***************************************************************************)
(* Sweeps move the platform's own money between its accounts at the        *)
(* provider.  A request stores a row, calls the provider and records       *)
(* whether the call returned; a cron then asks the provider about those    *)
(* that did.                                                               *)
(***************************************************************************)
EXTENDS Naturals, Sequences, FiniteSets

CONSTANTS
    Sweep,      \* requests to sweep
    SweepReference,  \* references of sweeps
    SweepRef,   \* SweepRef[s]: the reference of request s
    FromOf,     \* FromOf[s]: the account its row says the money leaves
    Lux,        \* requests made by VFDLUXSWEEP
    LuxAccount, \* the account VFDLUXSWEEP empties
    Batch       \* rows a run of the cron takes (200)

ASSUME SweepsAssumption ==
    /\ SweepRef \in [Sweep -> SweepReference]
    /\ Lux \subseteq Sweep
    /\ Batch \in Nat

VARIABLES
    sweepStep,  \* how far the request is
    sweepRows,  \* sweep_payment_transactions, oldest first: [ref, from, status]
    moved,      \* moved[r]: how often the provider moved money under r
    asked       \* references the cron is asking about

sweeping == <<sweepStep, sweepRows, moved, asked>>

SweepStatus == {"INITIATED", "PROCESSING", "SUCCESS", "FAILED"}

SweepsTypeOK ==
    /\ sweepStep \in [Sweep -> {"new", "checked", "unused", "stored",
                                "returned", "threw", "ended"}]
    /\ \A i \in DOMAIN sweepRows :
        sweepRows[i].ref \in SweepReference /\ sweepRows[i].status \in SweepStatus
    /\ moved \in [SweepReference -> Nat]
    /\ asked \subseteq SweepReference

SweepsInit ==
    /\ sweepStep = [s \in Sweep |-> "new"]
    /\ sweepRows = << >>
    /\ moved = [r \in SweepReference |-> 0]
    /\ asked = {}

RowsOf(r) == {i \in DOMAIN sweepRows : sweepRows[i].ref = r}

StatusOf(r, status) == \E i \in RowsOf(r) : sweepRows[i].status = status

SetStatus(r, status) ==
    sweepRows' = [i \in DOMAIN sweepRows |->
        IF i \in RowsOf(r) THEN [sweepRows[i] EXCEPT !.status = status]
        ELSE sweepRows[i]]

Proceed(s, from, to) ==
    /\ sweepStep[s] = from
    /\ sweepStep' = [sweepStep EXCEPT ![s] = to]

-----------------------------------------------------------------------------
\* The three kinds of sweeps look their accounts up and go on.  VFDLUXSWEEP
\* skips while an earlier one is in flight: it looks for rows that leave
\* LuxAccount, but the rows it makes name the main account (FromOf).
CheckAccounts(s) ==
    /\ Proceed(s, "new", "checked")
    /\ s \in Lux =>
        \A i \in DOMAIN sweepRows :
            sweepRows[i].status \in {"INITIATED", "PROCESSING"} =>
                sweepRows[i].from # LuxAccount
    /\ UNCHANGED <<sweepRows, moved, asked>>

(* executeSweep *)

FindSweep(s) ==
    /\ Proceed(s, "checked", "unused")
    /\ RowsOf(SweepRef[s]) = {}
    /\ UNCHANGED <<sweepRows, moved, asked>>

\* Fault: the column has no unique index.
SaveAnyway(s) ==
    /\ Proceed(s, "unused", "stored")
    /\ sweepRows' = Append(sweepRows,
            [ref |-> SweepRef[s], from |-> FromOf[s], status |-> "INITIATED"])
    /\ UNCHANGED <<moved, asked>>

\* The reference is unique: the later of two rows is an error.
SaveSweep(s) ==
    /\ RowsOf(SweepRef[s]) = {}
    /\ Proceed(s, "unused", "stored")
    /\ sweepRows' = Append(sweepRows,
            [ref |-> SweepRef[s], from |-> FromOf[s], status |-> "INITIATED"])
    /\ UNCHANGED <<moved, asked>>

\* The provider moves the money or does not, and the call returns or throws.
CallPayout(s) ==
    /\ \E end \in {"returned", "threw"} : Proceed(s, "stored", end)
    /\ \E n \in {0, 1} : moved' = [moved EXCEPT ![SweepRef[s]] = @ + n]
    /\ UNCHANGED <<sweepRows, asked>>

RecordCall(s) ==
    /\ \/ /\ Proceed(s, "returned", "ended")
          /\ SetStatus(SweepRef[s], "PROCESSING")
       \/ /\ Proceed(s, "threw", "ended")
          /\ SetStatus(SweepRef[s], "FAILED")
    /\ UNCHANGED <<moved, asked>>

EndSweep(s) ==
    /\ sweepStep[s] # "ended"
    /\ sweepStep' = [sweepStep EXCEPT ![s] = "ended"]
    /\ UNCHANGED <<sweepRows, moved, asked>>

-----------------------------------------------------------------------------
(* confirmSweepTransactionStatus *)

Processing == {i \in DOMAIN sweepRows : sweepRows[i].status = "PROCESSING"}

\* Fault: the cron looks for sweeps that were never sent.
LoadUnsent ==
    LET initiated == {i \in DOMAIN sweepRows : sweepRows[i].status = "INITIATED"} IN
    /\ asked' = asked \cup {sweepRows[i].ref : i \in initiated}
    /\ asked' # asked
    /\ UNCHANGED <<sweepStep, sweepRows, moved>>

\* The oldest Batch of them.  A run may begin before the last one has ended.
LoadProcessing ==
    LET oldest == {i \in Processing :
                    Cardinality({j \in Processing : j < i}) < Batch}
    IN
    /\ asked' = asked \cup {sweepRows[i].ref : i \in oldest}
    /\ asked' # asked
    /\ UNCHANGED <<sweepStep, sweepRows, moved>>

\* The provider says of money it moved that it did.
ConfirmSweep(r) ==
    /\ r \in asked
    /\ moved[r] > 0
    /\ SetStatus(r, "SUCCESS")
    /\ asked' = asked \ {r}
    /\ UNCHANGED <<sweepStep, moved>>

\* Any other answer, or none: the row stays as it is.
LeaveSweep(r) ==
    /\ r \in asked
    /\ asked' = asked \ {r}
    /\ UNCHANGED <<sweepStep, sweepRows, moved>>

-----------------------------------------------------------------------------
SweepsNext ==
    \/ \E s \in Sweep :
        \/ CheckAccounts(s)
        \/ FindSweep(s)
        \/ SaveSweep(s)
        \/ CallPayout(s)
        \/ RecordCall(s)
        \/ EndSweep(s)
    \/ LoadProcessing
    \/ \E r \in SweepReference : ConfirmSweep(r) \/ LeaveSweep(r)

SweepsSpec == SweepsInit /\ [][SweepsNext]_sweeping

\* The cron runs for ever, and a provider asked often enough answers.
SweepsFairness ==
    /\ WF_sweeping(LoadProcessing)
    /\ \A r \in SweepReference : SF_sweeping(ConfirmSweep(r))

-----------------------------------------------------------------------------
\* Money is moved once under a reference, however many requests use it at a
\* time, and only what was moved is recorded as SUCCESS.
SweptOnce ==
    \A r \in SweepReference : moved[r] <= 1 /\ (StatusOf(r, "SUCCESS") => moved[r] = 1)

\* A sweep that was moved and whose call returned is recorded as SUCCESS in
\* the end (as long as fewer than Batch rows stay PROCESSING for ever).
SweepIsConfirmed ==
    \A r \in SweepReference :
        StatusOf(r, "PROCESSING") /\ moved[r] > 0 ~> StatusOf(r, "SUCCESS")

=============================================================================
