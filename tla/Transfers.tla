----------------------------- MODULE Transfers -----------------------------
(***************************************************************************)
(* Payouts after the wallet debit: TransferService.processPayout debits    *)
(* the wallet and queues a job, the payout worker sends the transfer to    *)
(* the provider, and a cron asks the provider for the status of every      *)
(* payout that is still PROCESSING.  The three write the same status       *)
(* column, unconditionally and with awaits between what they read and what *)
(* they write.                                                             *)
(*                                                                         *)
(* The debit itself is one committed transaction (module Wallets); here it *)
(* is one step, and a reference is debited once.                           *)
(***************************************************************************)
EXTENDS Naturals, FiniteSets

CONSTANTS
    Payout,     \* payout requests, one reference each
    Live,       \* those made in the LIVE environment
    Poll,       \* executions of the status cron that may be under way together
    Runs,       \* how often the queue may start one job: 1 + maxStalledCount
    Batch       \* rows one poll takes, the oldest first (200)

ASSUME PayoutAssumption ==
    /\ IsFiniteSet(Payout)
    /\ Live \subseteq Payout
    /\ Runs \in Nat \ {0}
    /\ Batch \in Nat \ {0}

Run == 1..Runs

VARIABLES
    request,    \* request[p]: how far processPayout has come
    age,        \* age[p]: payouts debited up to p's debit (createdAt order)
    status,     \* status[p]: wallet_transactions.status
    job,        \* job[p]: state of the BullMQ job with id p
    run,        \* run[p][i]: how far the worker's i-th run of the job has come
    transfer,   \* transfer[p]: what the provider has done with p
    posts,      \* posts[p]: POST /transfer requests let through for p
    taken,      \* taken[p]: how many of them the provider has dealt with
    paid,       \* paid[p]: how often the provider has moved the money
    poll        \* poll[k][p]: what poll k knows of p

provider == <<transfer, posts, taken, paid>>

vars == <<request, age, status, job, run, provider, poll>>

RunState == {"none", "started", "marked", "refused", "posted", "answered",
             "threw", "ended"}

TypeOK ==
    /\ request \in [Payout -> {"new", "debited", "queued", "lost"}]
    /\ age \in [Payout -> Nat]
    /\ status \in [Payout -> {"NONE", "PROCESSING", "COMPLETED", "FAILED"}]
    /\ job \in [Payout -> {"none", "waiting", "active", "completed", "failed"}]
    /\ run \in [Payout -> [Run -> RunState]]
    /\ transfer \in [Payout -> {"unknown", "pending", "paid", "declined"}]
    /\ posts \in [Payout -> Nat]
    /\ taken \in [Payout -> Nat]
    /\ paid \in [Payout -> Nat]
    /\ poll \in [Poll -> [Payout -> {"none", "asking", "paid", "unpaid"}]]

Init ==
    /\ request = [p \in Payout |-> "new"]
    /\ age = [p \in Payout |-> 0]
    /\ status = [p \in Payout |-> "NONE"]
    /\ job = [p \in Payout |-> "none"]
    /\ run = [p \in Payout |-> [i \in Run |-> "none"]]
    /\ transfer = [p \in Payout |-> "unknown"]
    /\ posts = [p \in Payout |-> 0]
    /\ taken = [p \in Payout |-> 0]
    /\ paid = [p \in Payout |-> 0]
    /\ poll = [k \in Poll |-> [p \in Payout |-> "none"]]

Debited == {p \in Payout : request[p] # "new"}

Write(p, verdict) == status' = [status EXCEPT ![p] = verdict]

Goto(p, i, label) == run' = [run EXCEPT ![p][i] = label]

-----------------------------------------------------------------------------
(* processPayout *)

\* debitUserWallet commits: the row is there, PROCESSING, and nothing is queued.
Debit(p) ==
    /\ request[p] = "new"
    /\ request' = [request EXCEPT ![p] = "debited"]
    /\ age' = [age EXCEPT ![p] = Cardinality(Debited) + 1]
    /\ Write(p, "PROCESSING")
    /\ UNCHANGED <<job, run, provider, poll>>

Enqueue(p) ==
    /\ request[p] = "debited"
    /\ request' = [request EXCEPT ![p] = "queued"]
    /\ job' = [job EXCEPT ![p] = "waiting"]
    /\ UNCHANGED <<age, status, run, provider, poll>>

\* The server dies, or Redis refuses the job, after the debit has committed. A
\* second request with the reference is rejected by the debit's idempotency key.
LoseJob(p) ==
    /\ request[p] = "debited"
    /\ request' = [request EXCEPT ![p] = "lost"]
    /\ UNCHANGED <<age, status, job, run, provider, poll>>

-----------------------------------------------------------------------------
(* The payout worker *)

StartRun(p, i) ==
    /\ job[p] = "waiting"
    /\ run[p][i] = "none"
    /\ \A j \in Run : j < i => run[p][j] # "none"
    /\ job' = [job EXCEPT ![p] = "active"]
    /\ Goto(p, i, "started")
    /\ UNCHANGED <<request, age, status, provider, poll>>

MarkProcessing(p, i) ==
    /\ run[p][i] = "started"
    /\ Write(p, "PROCESSING")
    /\ Goto(p, i, "marked")
    /\ UNCHANGED <<request, age, job, provider, poll>>

\* vfdTransfer has looked both accounts up and sends POST /transfer with the
\* cached token, and the provider turns the token down (401 or 403): nothing is
\* carried out, and withTokenRetry gets a new token.
RefuseToken(p, i) ==
    /\ run[p][i] = "marked"
    /\ Goto(p, i, "refused")
    /\ UNCHANGED <<request, age, status, job, provider, poll>>

\* The POST /transfer that is let through: the first of the run, or the second
\* and last after a refused token.
PostTransfer(p, i) ==
    /\ run[p][i] \in {"marked", "refused"}
    /\ Goto(p, i, "posted")
    /\ posts' = [posts EXCEPT ![p] = @ + 1]
    /\ UNCHANGED <<request, age, status, job, transfer, taken, paid, poll>>

\* Fault: the client sends the request once more when it gets no answer.
TransferRetried(p, i) ==
    \/ /\ run[p][i] \in {"marked", "refused", "posted"}
       /\ Goto(p, i, "threw")
       /\ UNCHANGED <<request, age, status, job, provider, poll>>
    \/ /\ run[p][i] = "posted" /\ posts[p] < 2
       /\ posts' = [posts EXCEPT ![p] = @ + 1]
       /\ UNCHANGED <<request, age, status, job, run, transfer, taken, paid, poll>>

\* A lookup fails before the transfer is sent, the new token is not to be had or
\* refused as well, or the transfer's answer is an error, a timeout included:
\* whether it was carried out is not known.
TransferThrows(p, i) ==
    /\ run[p][i] \in {"marked", "refused", "posted"}
    /\ Goto(p, i, "threw")
    /\ UNCHANGED <<request, age, status, job, provider, poll>>

TransferAnswers(p, i) ==
    /\ run[p][i] = "posted"
    /\ transfer[p] # "unknown"
    /\ Goto(p, i, "answered")
    /\ UNCHANGED <<request, age, status, job, provider, poll>>

\* The end of run i; only the run that holds the job's lock moves the job.
EndJob(p, i, outcome) ==
    /\ Goto(p, i, "ended")
    /\ job' = IF \A j \in Run : j > i => run[p][j] = "none"
              THEN [job EXCEPT ![p] = IF @ = "active" THEN outcome ELSE @]
              ELSE job

\* An answer, whatever it says, ends the run and leaves the status to the poll.
EndRun(p, i) ==
    /\ run[p][i] = "answered"
    /\ EndJob(p, i, "completed")
    /\ UNCHANGED <<request, age, status, provider, poll>>

FailRun(p, i) ==
    /\ run[p][i] = "threw"
    /\ EndJob(p, i, "failed")
    /\ Write(p, "FAILED")
    /\ UNCHANGED <<request, age, provider, poll>>

\* A status write of the worker fails: attempts is 1, so the job ends there.
AbortRun(p, i) ==
    /\ run[p][i] \in {"started", "threw"}
    /\ EndJob(p, i, "failed")
    /\ UNCHANGED <<request, age, status, provider, poll>>

\* The worker process dies in the middle of run i.
KillRun(p, i) ==
    /\ run[p][i] \notin {"none", "ended"}
    /\ Goto(p, i, "ended")
    /\ UNCHANGED <<request, age, status, job, provider, poll>>

\* The queue finds an active job whose lock was not renewed, because its worker
\* died or is too busy, and starts it again, at most maxStalledCount times.
Stall(p) ==
    /\ job[p] = "active"
    /\ job' = [job EXCEPT ![p] =
                IF \E i \in Run : run[p][i] = "none"
                THEN "waiting" ELSE "failed"]
    /\ UNCHANGED <<request, age, status, run, provider, poll>>

-----------------------------------------------------------------------------
(* The provider *)

\* VFD takes a request it has received, or turns it down.  A second request
\* with the same reference may be ignored or carried out: the code asks for
\* no promise about that.
ProviderTakes(p) ==
    /\ taken[p] < posts[p]
    /\ taken' = [taken EXCEPT ![p] = @ + 1]
    /\ \E outcome \in {"pending", "declined"} \cup ({transfer[p]} \ {"unknown"}) :
          transfer' = [transfer EXCEPT ![p] = outcome]
    /\ UNCHANGED <<request, age, status, job, run, posts, paid, poll>>

\* The money moves, or the destination bank refuses it.
ProviderDecides(p) ==
    /\ transfer[p] = "pending"
    /\ \/ /\ transfer' = [transfer EXCEPT ![p] = "paid"]
          /\ paid' = [paid EXCEPT ![p] = @ + 1]
       \/ /\ transfer' = [transfer EXCEPT ![p] = "declined"]
          /\ UNCHANGED paid
    /\ UNCHANGED <<request, age, status, job, run, posts, taken, poll>>

-----------------------------------------------------------------------------
(* validateOutgoingTransferStatus *)

Open == {p \in Live : status[p] = "PROCESSING"}

\* The oldest Batch rows of Open.
Oldest == {p \in Open : Cardinality({q \in Open : age[q] < age[p]}) < Batch}

Idle(k) == \A p \in Payout : poll[k][p] = "none"

BeginPoll(k) ==
    /\ Idle(k)
    /\ Open # {}
    /\ poll' = [poll EXCEPT ![k] =
                  [p \in Payout |-> IF p \in Oldest THEN "asking" ELSE "none"]]
    /\ UNCHANGED <<request, age, status, job, run, provider>>

\* Fault: any answer of the provider counts as success.
StatusAnswerAny(k, p) ==
    /\ poll[k][p] = "asking"
    /\ \E answer \in {"paid", "unpaid"} :
        /\ answer = "paid" => transfer[p] # "unknown"
        /\ poll' = [poll EXCEPT ![k][p] = answer]
    /\ UNCHANGED <<request, age, status, job, run, provider>>

\* transactionStatusQuery: success only for a settled transfer; a reference VFD
\* does not know, one still pending and a failed call all come back the same.
StatusAnswer(k, p) ==
    /\ poll[k][p] = "asking"
    /\ \E answer \in {"paid", "unpaid"} :
        /\ answer = "paid" => transfer[p] = "paid"
        /\ poll' = [poll EXCEPT ![k][p] = answer]
    /\ UNCHANGED <<request, age, status, job, run, provider>>

\* Fault: a payout that is not settled yet is left for the next poll.
RecordPaidOnly(k, p) ==
    /\ poll[k][p] \in {"paid", "unpaid"}
    /\ IF poll[k][p] = "paid" THEN Write(p, "COMPLETED") ELSE UNCHANGED status
    /\ poll' = [poll EXCEPT ![k][p] = "none"]
    /\ UNCHANGED <<request, age, job, run, provider>>

RecordStatus(k, p) ==
    /\ poll[k][p] \in {"paid", "unpaid"}
    /\ Write(p, IF poll[k][p] = "paid" THEN "COMPLETED" ELSE "FAILED")
    /\ poll' = [poll EXCEPT ![k][p] = "none"]
    /\ UNCHANGED <<request, age, job, run, provider>>

\* The server dies, or the rows cannot be updated: Promise.allSettled drops it.
AbortPoll(k) ==
    /\ ~Idle(k)
    /\ poll' = [poll EXCEPT ![k] = [p \in Payout |-> "none"]]
    /\ UNCHANGED <<request, age, status, job, run, provider>>

-----------------------------------------------------------------------------
Work(p) ==
    \E i \in Run :
        \/ StartRun(p, i)
        \/ MarkProcessing(p, i)
        \/ RefuseToken(p, i)
        \/ PostTransfer(p, i)
        \/ TransferThrows(p, i)
        \/ TransferAnswers(p, i)
        \/ EndRun(p, i)
        \/ FailRun(p, i)

Ask(k) ==
    \/ BeginPoll(k)
    \/ \E p \in Payout : StatusAnswer(k, p) \/ RecordStatus(k, p)

Break ==
    \/ \E p \in Payout :
        \/ LoseJob(p)
        \/ Stall(p)
        \/ \E i \in Run : AbortRun(p, i) \/ KillRun(p, i)
    \/ \E k \in Poll : AbortPoll(k)

Next ==
    \/ \E p \in Payout :
        \/ Debit(p)
        \/ Enqueue(p)
        \/ Work(p)
        \/ ProviderTakes(p)
        \/ ProviderDecides(p)
    \/ \E k \in Poll : Ask(k)
    \/ Break

Spec == Init /\ [][Next]_vars

\* The cron fires for ever, and the server does not die in every poll that
\* asks about a payout.
Fairness ==
    /\ WF_vars(\E k \in Poll : BeginPoll(k))
    /\ \A p \in Payout :
        /\ SF_vars(\E k \in Poll : StatusAnswer(k, p))
        /\ SF_vars(\E k \in Poll : RecordStatus(k, p))

FairSpec == Spec /\ Fairness

-----------------------------------------------------------------------------
(* Properties *)

\* The contract a payout keeps: debited before sent, sent at most once for each
\* start of its job, COMPLETED only if sent (processPayout's order of debit and
\* queue, the run that sends once, the poll that alone writes COMPLETED).
Contract == INSTANCE PayoutContract
    WITH reserved <- Debited, sent <- paid, report <- status, Times <- Runs

KeepsContract == Contract!ContractSpec

\* The runs of p's job that may have sent the transfer.
Senders(p) ==
    {i \in Run : run[p][i] \notin {"none", "started", "marked", "refused"}}

\* When the queue starts a job again and the provider does not tell a repeated
\* reference, money moves at most once for each start that got as far as
\* sending, only for what was debited, and COMPLETED still says that it moved
\* (the processor, which sends once a run; the poll).
PaidPerStart ==
    \A p \in Payout :
        /\ paid[p] <= Cardinality(Senders(p))
        /\ paid[p] > 0 => p \in Debited
        /\ status[p] = "COMPLETED" => paid[p] > 0

\* The worker does not process one withdrawal request twice: one POST /transfer
\* is let through for it (what the audit document says of jobId and attempts: 1
\* in addTransferProcessingQueue).
ProcessedOnce == \A p \in Payout : posts[p] <= 1

\* Every LIVE payout that is debited is decided for good in the end, although
\* its job may be lost, the worker writes PROCESSING over what a poll decided,
\* and a poll takes a batch of rows only (validateOutgoingTransferStatus).
DecidedForGood ==
    \A p \in Live :
        request[p] # "new" ~> [](status[p] \in {"COMPLETED", "FAILED"})

=============================================================================
