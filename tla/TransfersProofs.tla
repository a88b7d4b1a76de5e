-------------------------- MODULE TransfersProofs --------------------------
(***************************************************************************)
(* Proofs about Transfers: any set of payouts and polls, any batch size,   *)
(* any number of starts of a job.                                          *)
(***************************************************************************)
EXTENDS Transfers, TLAPS, FiniteSetTheorems

LEMMA DebitedIsFinite == Cardinality(Debited) \in Nat
<1>1. IsFiniteSet(Debited)
  BY PayoutAssumption, FS_Subset DEF Debited
<1>2. QED
  BY <1>1, FS_CardinalityType

\* Assigning one run's state keeps the type of run.
LEMMA GotoType ==
    ASSUME TypeOK, NEW p \in Payout, NEW i \in Run, NEW label \in RunState,
           Goto(p, i, label)
    PROVE  run' \in [Payout -> [Run -> RunState]]
BY DEF TypeOK, Goto

LEMMA EndJobType ==
    ASSUME TypeOK, NEW p \in Payout, NEW i \in Run,
           NEW outcome \in {"completed", "failed"}, EndJob(p, i, outcome)
    PROVE  /\ run' \in [Payout -> [Run -> RunState]]
           /\ job' \in [Payout -> {"none", "waiting", "active", "completed",
                                "failed"}]
<1>1. run' \in [Payout -> [Run -> RunState]]
  BY GotoType DEF EndJob, RunState
<1>2. QED
  BY <1>1 DEF EndJob, TypeOK

LEMMA PollType ==
    ASSUME TypeOK, NEW k \in Poll, NEW p \in Payout,
           NEW answer \in {"none", "paid", "unpaid"},
           poll' = [poll EXCEPT ![k][p] = answer]
    PROVE  poll' \in [Poll -> [Payout -> {"none", "asking", "paid", "unpaid"}]]
BY DEF TypeOK

LEMMA InitType == Init => TypeOK
BY DEF Init, TypeOK, RunState

LEMMA NextType == TypeOK /\ [Next]_vars => TypeOK'
<1> SUFFICES ASSUME TypeOK, [Next]_vars
             PROVE  TypeOK'
  OBVIOUS
<1>1. ASSUME NEW p \in Payout, Debit(p)
      PROVE  TypeOK'
  BY <1>1, DebitedIsFinite DEF TypeOK, Debit, Write, provider
<1>2. ASSUME NEW p \in Payout, Enqueue(p) \/ LoseJob(p) \/ Stall(p)
      PROVE  TypeOK'
  BY <1>2 DEF TypeOK, Enqueue, LoseJob, Stall, provider
<1>3. ASSUME NEW p \in Payout, NEW i \in Run,
             \/ StartRun(p, i) \/ MarkProcessing(p, i) \/ PostTransfer(p, i)
           \/ RefuseToken(p, i)
             \/ TransferThrows(p, i) \/ TransferAnswers(p, i) \/ KillRun(p, i)
      PROVE  TypeOK'
  <2>1. run' \in [Payout -> [Run -> RunState]]
    BY <1>3, GotoType DEF StartRun, MarkProcessing, PostTransfer, RefuseToken,
           TransferThrows, TransferAnswers, KillRun, RunState
  <2>2. CASE StartRun(p, i)
    BY <2>1, <2>2 DEF TypeOK, StartRun, provider
  <2>3. CASE MarkProcessing(p, i)
    BY <2>1, <2>3 DEF TypeOK, MarkProcessing, Write, provider
  <2>4. CASE PostTransfer(p, i)
    BY <2>1, <2>4 DEF TypeOK, PostTransfer
  <2>5. CASE \/ TransferThrows(p, i) \/ TransferAnswers(p, i) \/ KillRun(p, i)
             \/ RefuseToken(p, i)
    BY <2>1, <2>5 DEF TypeOK, RefuseToken, TransferThrows, TransferAnswers,
           KillRun, provider
  <2>6. QED
    BY <1>3, <2>2, <2>3, <2>4, <2>5
<1>4. ASSUME NEW p \in Payout, NEW i \in Run,
             EndRun(p, i) \/ FailRun(p, i) \/ AbortRun(p, i)
      PROVE  TypeOK'
  <2>1. /\ run' \in [Payout -> [Run -> RunState]]
        /\ job' \in [Payout -> {"none", "waiting", "active", "completed",
                                "failed"}]
    BY <1>4, EndJobType DEF EndRun, FailRun, AbortRun
  <2>2. QED
    BY <1>4, <2>1 DEF TypeOK, EndRun, FailRun, AbortRun, Write, provider
<1>5. ASSUME NEW p \in Payout, ProviderTakes(p) \/ ProviderDecides(p)
      PROVE  TypeOK'
  <2>1. CASE ProviderTakes(p)
    <3>1. PICK outcome \in {"unknown", "pending", "paid", "declined"} :
            transfer' = [transfer EXCEPT ![p] = outcome]
      BY <2>1 DEF TypeOK, ProviderTakes
    <3>2. QED
      BY <2>1, <3>1 DEF TypeOK, ProviderTakes
  <2>2. CASE ProviderDecides(p)
    <3>1. /\ transfer' \in [Payout -> {"unknown", "pending", "paid", "declined"}]
          /\ paid' \in [Payout -> Nat]
      <4>1. PICK outcome \in {"paid", "declined"} :
              transfer' = [transfer EXCEPT ![p] = outcome]
        BY <2>2 DEF ProviderDecides
      <4>2. paid' = [paid EXCEPT ![p] = @ + 1] \/ paid' = paid
        BY <2>2 DEF ProviderDecides
      <4>3. paid[p] + 1 \in Nat
        BY DEF TypeOK
      <4>4. QED
        BY <4>1, <4>2, <4>3 DEF TypeOK
    <3>2. QED
      BY <2>2, <3>1 DEF TypeOK, ProviderDecides
  <2>3. QED
    BY <1>5, <2>1, <2>2
<1>6. ASSUME NEW k \in Poll, BeginPoll(k) \/ AbortPoll(k)
      PROVE  TypeOK'
  <2>1. PICK answers \in [Payout -> {"none", "asking"}] :
          poll' = [poll EXCEPT ![k] = answers]
    BY <1>6 DEF BeginPoll, AbortPoll
  <2>2. poll' \in [Poll -> [Payout -> {"none", "asking", "paid", "unpaid"}]]
    BY <2>1 DEF TypeOK
  <2>3. QED
    BY <1>6, <2>2 DEF TypeOK, BeginPoll, AbortPoll, provider
<1>7. ASSUME NEW k \in Poll, NEW p \in Payout, StatusAnswer(k, p)
      PROVE  TypeOK'
  <2>1. poll' \in [Poll -> [Payout -> {"none", "asking", "paid", "unpaid"}]]
    BY <1>7, PollType DEF StatusAnswer
  <2>2. QED
    BY <1>7, <2>1 DEF TypeOK, StatusAnswer, provider
<1>8. ASSUME NEW k \in Poll, NEW p \in Payout, RecordStatus(k, p)
      PROVE  TypeOK'
  <2>1. poll' \in [Poll -> [Payout -> {"none", "asking", "paid", "unpaid"}]]
    BY <1>8, PollType DEF RecordStatus
  <2>2. QED
    BY <1>8, <2>1 DEF TypeOK, RecordStatus, Write, provider
<1>9. CASE UNCHANGED vars
  BY <1>9 DEF TypeOK, vars, provider
<1>10. QED
  BY <1>1, <1>2, <1>3, <1>4, <1>5, <1>6, <1>7, <1>8, <1>9
     DEF Next, Work, Ask, Break

\* The columns and job states keep their types in every run.
THEOREM TypeCorrect == Spec => []TypeOK
BY InitType, NextType, PTL DEF Spec

-----------------------------------------------------------------------------
(* The money, however often the queue starts a job *)

\* One payout, step by step: what is known of the money at every stage.
Progress(p) ==
    /\ request[p] = "new" =>
        status[p] = "NONE" /\ \A k \in Poll : poll[k][p] = "none"
    /\ status[p] = "NONE" => request[p] = "new"
    /\ job[p] # "none" => request[p] = "queued"
    /\ job[p] = "none" => \A i \in Run : run[p][i] = "none"
    /\ posts[p] <= Cardinality(Senders(p))
    /\ taken[p] <= posts[p]
    /\ paid[p] <= taken[p]
    /\ transfer[p] = "pending" => paid[p] < taken[p]
    /\ transfer[p] = "paid" => paid[p] > 0

\* Whoever has seen the payment, or told of it, is right.
Witnessed(p) ==
    /\ \A k \in Poll : poll[k][p] = "paid" => paid[p] > 0
    /\ status[p] = "COMPLETED" => paid[p] > 0

ContractInv == TypeOK /\ \A p \in Payout : Progress(p) /\ Witnessed(p)

\* There are no more senders than runs.
LEMMA SendersAreRuns ==
    ASSUME NEW p \in Payout
    PROVE  /\ IsFiniteSet(Senders(p))
           /\ Cardinality(Senders(p)) \in Nat
           /\ Cardinality(Senders(p)) <= Runs
<1>1. Runs \in Nat /\ Runs > 0
  BY PayoutAssumption
<1>2. IsFiniteSet(Run) /\ Cardinality(Run) = Runs
  BY <1>1, FS_Interval DEF Run
<1>3. Senders(p) \in SUBSET Run
  BY DEF Senders
<1>4. QED
  BY <1>2, <1>3, FS_Subset, FS_CardinalityType

\* A step that leaves all there is of payout q alone keeps what is known of it.
LEMMA Untouched ==
    ASSUME ContractInv, NEW q \in Payout,
           request'[q] = request[q], status'[q] = status[q], job'[q] = job[q],
           run'[q] = run[q], transfer'[q] = transfer[q],
           posts'[q] = posts[q], taken'[q] = taken[q], paid'[q] = paid[q],
           \A k \in Poll : poll'[k][q] = poll[k][q]
    PROVE  Progress(q)' /\ Witnessed(q)'
<1>1. Senders(q)' = Senders(q)
  BY DEF Senders
<1>2. QED
  BY <1>1 DEF ContractInv, Progress, Witnessed

LEMMA InitContract == Init => ContractInv
<1> SUFFICES ASSUME Init
             PROVE  \A p \in Payout : Progress(p) /\ Witnessed(p)
  BY InitType DEF ContractInv
<1>1. \A p \in Payout : Cardinality(Senders(p)) >= 0
  BY SendersAreRuns
<1>2. QED
  BY <1>1 DEF Init, Progress, Witnessed

LEMMA RequestKeeps ==
    ASSUME ContractInv, NEW p \in Payout,
           Debit(p) \/ Enqueue(p) \/ LoseJob(p) \/ Stall(p)
    PROVE  \A q \in Payout : Progress(q)' /\ Witnessed(q)'
<1> SUFFICES ASSUME NEW q \in Payout
             PROVE  Progress(q)' /\ Witnessed(q)'
  OBVIOUS
<1>1. CASE q # p
  BY <1>1, Untouched DEF ContractInv, TypeOK, Debit, Enqueue, LoseJob, Stall,
         Write, provider
<1>2. CASE q = p
  <2>1. run' = run
    BY DEF Debit, Enqueue, LoseJob, Stall
  <2>2. Senders(p)' = Senders(p)
    BY <2>1 DEF Senders
  <2>3. CASE Debit(p)
    BY <1>2, <2>2, <2>3 DEF ContractInv, TypeOK, Debit, Write, provider,
           Progress, Witnessed
  <2>4. CASE Enqueue(p)
    BY <1>2, <2>2, <2>4 DEF ContractInv, TypeOK, Enqueue, provider, Progress,
           Witnessed
  <2>5. CASE LoseJob(p)
    BY <1>2, <2>2, <2>5 DEF ContractInv, TypeOK, LoseJob, provider, Progress,
           Witnessed
  <2>6. CASE Stall(p)
    BY <1>2, <2>2, <2>6 DEF ContractInv, TypeOK, Stall, provider, Progress,
           Witnessed
  <2>7. QED
    BY <2>3, <2>4, <2>5, <2>6
<1>3. QED
  BY <1>1, <1>2

\* A run that goes on is a sender after its post, and stays one.
LEMMA SendersGrow ==
    ASSUME TypeOK, NEW p \in Payout, NEW i \in Run, NEW label \in RunState,
           Goto(p, i, label),
           label \in {"none", "started", "marked", "refused"} => i \notin Senders(p)
    PROVE  /\ Cardinality(Senders(p)') \in Nat
           /\ Cardinality(Senders(p)') >= Cardinality(Senders(p))
           /\ /\ label \notin {"none", "started", "marked", "refused"}
              /\ i \notin Senders(p)
              => Cardinality(Senders(p)') = Cardinality(Senders(p)) + 1
<1>1. run'[p] = [run[p] EXCEPT ![i] = label] /\ run[p] \in [Run -> RunState]
  BY DEF TypeOK, Goto
<1>2. CASE label \in {"none", "started", "marked", "refused"}
  <2>1. CASE i \in Senders(p)
    BY <1>2, <2>1
  <2>2. CASE i \notin Senders(p)
    <3>1. Senders(p)' = Senders(p)
      BY <1>1, <1>2, <2>2 DEF Senders
    <3>2. QED
      BY <1>2, <3>1, SendersAreRuns
  <2>3. QED
    BY <2>1, <2>2
<1>3. CASE label \notin {"none", "started", "marked", "refused"}
  <2>1. Senders(p)' = Senders(p) \cup {i}
    BY <1>1, <1>3 DEF Senders
  <2>2. /\ IsFiniteSet(Senders(p)) /\ Cardinality(Senders(p)) \in Nat
        /\ Cardinality(Senders(p) \cup {i}) =
             IF i \in Senders(p) THEN Cardinality(Senders(p))
             ELSE Cardinality(Senders(p)) + 1
    BY SendersAreRuns, FS_AddElement
  <2>3. QED
    BY <1>3, <2>1, <2>2
<1>4. QED
  BY <1>2, <1>3

LEMMA WorkerKeeps ==
    ASSUME ContractInv, NEW p \in Payout, NEW i \in Run,
           \/ StartRun(p, i) \/ MarkProcessing(p, i) \/ PostTransfer(p, i)
           \/ RefuseToken(p, i)
           \/ TransferThrows(p, i) \/ TransferAnswers(p, i) \/ KillRun(p, i)
           \/ EndRun(p, i) \/ FailRun(p, i) \/ AbortRun(p, i)
    PROVE  \A q \in Payout : Progress(q)' /\ Witnessed(q)'
<1> SUFFICES ASSUME NEW q \in Payout
             PROVE  Progress(q)' /\ Witnessed(q)'
  OBVIOUS
<1>1. CASE q # p
  BY <1>1, Untouched DEF ContractInv, TypeOK, StartRun, MarkProcessing,
         PostTransfer, RefuseToken, TransferThrows, TransferAnswers, KillRun,
         EndRun, FailRun, AbortRun, EndJob, Goto, Write, provider
<1>2. CASE q = p
  <2> DEFINE n == Cardinality(Senders(p))
             m == Cardinality(Senders(p)')
  <2>1. run[p][i] \in RunState /\ job[p] # "none" /\ job'[p] # "none"
    BY DEF ContractInv, TypeOK, Progress, StartRun, MarkProcessing,
           PostTransfer, RefuseToken, TransferThrows, TransferAnswers,
           KillRun, EndRun, FailRun, AbortRun, EndJob
  <2>2. PICK label \in RunState :
          /\ Goto(p, i, label)
          /\ label \in {"none", "started", "marked", "refused"} => i \notin Senders(p)
          /\ PostTransfer(p, i) => label = "posted"
    BY DEF RunState, Senders, StartRun, MarkProcessing, PostTransfer,
           RefuseToken, TransferThrows, TransferAnswers, KillRun, EndRun,
           FailRun, AbortRun, EndJob
  <2>3. /\ n \in Nat /\ m \in Nat /\ m >= n
        /\ PostTransfer(p, i) => m = n + 1
    <3>1. TypeOK
      BY DEF ContractInv
    <3>2. PostTransfer(p, i) => i \notin Senders(p)
      BY DEF PostTransfer, RefuseToken, Senders
    <3>3. QED
      BY <2>2, <3>1, <3>2, SendersAreRuns, SendersGrow
  <2>4. /\ posts[p] \in Nat /\ posts[p] <= n
        /\ taken[p] \in Nat /\ taken[p] <= posts[p]
        /\ UNCHANGED <<request, transfer, taken, paid, poll>>
    BY DEF ContractInv, TypeOK, Progress, StartRun, MarkProcessing,
           PostTransfer, RefuseToken, TransferThrows, TransferAnswers,
           KillRun, EndRun, FailRun, AbortRun, provider
  <2>5. posts'[p] <= m /\ taken[p] <= posts'[p]
    <3>1. CASE PostTransfer(p, i)
      <4>1. posts'[p] = posts[p] + 1
        BY <3>1 DEF PostTransfer, RefuseToken, ContractInv, TypeOK
      <4>2. QED
        BY <2>3, <2>4, <3>1, <4>1
    <3>2. CASE ~PostTransfer(p, i)
      <4>1. posts' = posts
        BY <3>2 DEF StartRun, MarkProcessing, RefuseToken, TransferThrows,
               TransferAnswers, KillRun, EndRun, FailRun, AbortRun, provider
      <4>2. QED
        BY <2>3, <2>4, <4>1
    <3>3. QED
      BY <3>1, <3>2
  <2>6. status'[p] \in {status[p], "PROCESSING", "FAILED"}
    BY DEF ContractInv, TypeOK, StartRun, MarkProcessing, PostTransfer,
           RefuseToken, TransferThrows, TransferAnswers, KillRun, EndRun,
           FailRun, AbortRun, Write
  <2>7. request[p] = "queued" /\ status[p] # "NONE"
    BY <2>1 DEF ContractInv, Progress
  <2> HIDE DEF n, m
  <2>8. Progress(p)'
    <3>1. posts'[p] <= Cardinality(Senders(p)')
      BY <2>5 DEF m
    <3>2. QED
      BY <2>1, <2>4, <2>5, <2>6, <2>7, <3>1 DEF ContractInv, Progress
  <2>9. Witnessed(p)'
    BY <2>4, <2>6 DEF ContractInv, Witnessed
  <2>10. QED
    BY <1>2, <2>8, <2>9
<1>3. QED
  BY <1>1, <1>2

LEMMA ProviderKeeps ==
    ASSUME ContractInv, NEW p \in Payout,
           ProviderTakes(p) \/ ProviderDecides(p)
    PROVE  \A q \in Payout : Progress(q)' /\ Witnessed(q)'
<1> SUFFICES ASSUME NEW q \in Payout
             PROVE  Progress(q)' /\ Witnessed(q)'
  OBVIOUS
<1>1. CASE q # p
  BY <1>1, Untouched DEF ContractInv, TypeOK, ProviderTakes, ProviderDecides
<1>2. CASE q = p
  <2>1. /\ taken[p] \in Nat /\ posts[p] \in Nat /\ paid[p] \in Nat
        /\ taken[p] <= posts[p] /\ paid[p] <= taken[p]
        /\ transfer[p] = "pending" => paid[p] < taken[p]
        /\ transfer[p] = "paid" => paid[p] > 0
    BY DEF ContractInv, TypeOK, Progress
  <2>2. UNCHANGED <<request, status, job, run, posts, poll>>
    BY DEF ProviderTakes, ProviderDecides
  <2>3. Senders(p)' = Senders(p)
    BY <2>2 DEF Senders
  <2>4. /\ taken'[p] \in Nat /\ paid'[p] \in Nat
        /\ taken'[p] <= posts[p] /\ paid'[p] <= taken'[p]
        /\ paid'[p] >= paid[p]
        /\ transfer'[p] = "pending" => paid'[p] < taken'[p]
        /\ transfer'[p] = "paid" => paid'[p] > 0
    <3>1. CASE ProviderTakes(p)
      <4>1. /\ taken'[p] = taken[p] + 1 /\ taken[p] < posts[p]
            /\ paid'[p] = paid[p]
        BY <3>1 DEF ProviderTakes, ContractInv, TypeOK
      <4>2. transfer'[p] \in {"pending", "declined", transfer[p]}
        BY <3>1 DEF ProviderTakes, ContractInv, TypeOK
      <4>3. QED
        BY <2>1, <4>1, <4>2
    <3>2. CASE ProviderDecides(p)
      <4>1. /\ taken'[p] = taken[p] /\ transfer[p] = "pending"
            /\ \/ transfer'[p] = "paid" /\ paid'[p] = paid[p] + 1
               \/ transfer'[p] = "declined" /\ paid'[p] = paid[p]
        BY <3>2 DEF ProviderDecides, ContractInv, TypeOK
      <4>2. QED
        BY <2>1, <4>1
    <3>3. QED
      BY <3>1, <3>2
  <2>5. Progress(p)'
    BY <2>2, <2>3, <2>4 DEF ContractInv, Progress
  <2>6. Witnessed(p)'
    BY <2>1, <2>2, <2>4 DEF ContractInv, Witnessed
  <2>7. QED
    BY <1>2, <2>5, <2>6
<1>3. QED
  BY <1>1, <1>2

LEMMA PollKeeps ==
    ASSUME ContractInv, NEW k \in Poll,
           BeginPoll(k) \/ AbortPoll(k)
    PROVE  \A q \in Payout : Progress(q)' /\ Witnessed(q)'
<1> SUFFICES ASSUME NEW q \in Payout
             PROVE  Progress(q)' /\ Witnessed(q)'
  OBVIOUS
<1>1. \A h \in Poll : \/ poll'[h][q] = poll[h][q]
                      \/ poll'[h][q] = "none"
                      \/ poll'[h][q] = "asking" /\ status[q] = "PROCESSING"
  <2>1. poll \in [Poll -> [Payout -> {"none", "asking", "paid", "unpaid"}]]
    BY DEF ContractInv, TypeOK
  <2>2. \A h \in Poll : h # k => poll'[h] = poll[h]
    BY <2>1 DEF BeginPoll, AbortPoll
  <2>3. \/ poll'[k][q] = "none"
        \/ poll'[k][q] = "asking" /\ q \in Oldest
    BY <2>1 DEF BeginPoll, AbortPoll
  <2>4. q \in Oldest => status[q] = "PROCESSING"
    BY DEF Oldest, Open
  <2>5. QED
    BY <2>2, <2>3, <2>4
<1>2. UNCHANGED <<request, status, job, run, transfer, posts, taken, paid>>
  BY DEF BeginPoll, AbortPoll, provider
<1>3. Senders(q)' = Senders(q)
  BY <1>2 DEF Senders
<1>4. QED
  BY <1>1, <1>2, <1>3 DEF ContractInv, Progress, Witnessed

LEMMA AnswerKeeps ==
    ASSUME ContractInv, NEW k \in Poll, NEW p \in Payout,
           StatusAnswer(k, p) \/ RecordStatus(k, p)
    PROVE  \A q \in Payout : Progress(q)' /\ Witnessed(q)'
<1> SUFFICES ASSUME NEW q \in Payout
             PROVE  Progress(q)' /\ Witnessed(q)'
  OBVIOUS
<1>1. UNCHANGED <<request, job, run, transfer, posts, taken, paid>>
  BY DEF StatusAnswer, RecordStatus, provider
<1>2. CASE q # p
  <2>1. \A h \in Poll : poll'[h][q] = poll[h][q]
    BY <1>2 DEF ContractInv, TypeOK, StatusAnswer, RecordStatus
  <2>2. status'[q] = status[q]
    BY <1>2 DEF ContractInv, TypeOK, StatusAnswer, RecordStatus, Write
  <2>3. QED
    BY <1>1, <2>1, <2>2, Untouched
<1>3. CASE q = p
  <2>0. Senders(q)' = Senders(q)
    BY <1>1 DEF Senders
  <2>1. request[p] # "new"
    BY DEF ContractInv, Progress, StatusAnswer, RecordStatus
  <2>2. CASE StatusAnswer(k, p)
    <3>1. \A h \in Poll : \/ poll'[h][p] = poll[h][p]
                          \/ poll'[h][p] = "unpaid"
                          \/ poll'[h][p] = "paid" /\ transfer[p] = "paid"
      BY <2>2 DEF StatusAnswer, ContractInv, TypeOK
    <3>2. QED
      BY <1>1, <1>3, <2>0, <2>1, <2>2, <3>1
         DEF StatusAnswer, ContractInv, Progress, Witnessed
  <2>3. CASE RecordStatus(k, p)
    <3>1. \A h \in Poll : poll'[h][p] = poll[h][p] \/ poll'[h][p] = "none"
      BY <2>3 DEF RecordStatus, ContractInv, TypeOK
    <3>2. \/ status'[p] = "COMPLETED" /\ paid[p] > 0
          \/ status'[p] = "FAILED"
      BY <2>3 DEF RecordStatus, Write, ContractInv, TypeOK, Witnessed
    <3>3. QED
      BY <1>1, <1>3, <2>0, <2>1, <3>1, <3>2
         DEF ContractInv, Progress, Witnessed
  <2>4. QED
    BY <2>2, <2>3
<1>4. QED
  BY <1>2, <1>3

LEMMA NextContract ==
    ASSUME ContractInv, [Next]_vars
    PROVE  ContractInv'
<1> SUFFICES \A q \in Payout : Progress(q)' /\ Witnessed(q)'
  BY NextType DEF ContractInv
<1>1. CASE UNCHANGED vars
  BY <1>1, Untouched DEF vars, provider
<1>2. CASE Next
  BY <1>2, RequestKeeps, WorkerKeeps, ProviderKeeps, PollKeeps, AnswerKeeps
     DEF Next, Work, Ask, Break
<1>3. QED
  BY <1>1, <1>2

-----------------------------------------------------------------------------
(* What a payout may cost *)

\* Money moves only for what was debited.
LEMMA PaidIsDebited ==
    ASSUME ContractInv, NEW p \in Payout, taken[p] > 0
    PROVE  request[p] # "new"
<1>1. taken[p] \in Nat /\ posts[p] \in Nat /\ taken[p] <= posts[p]
  BY DEF ContractInv, TypeOK, Progress
<1>2. posts[p] <= Cardinality(Senders(p)) /\ Cardinality(Senders(p)) \in Nat
  BY SendersAreRuns DEF ContractInv, Progress
<1>3. Cardinality(Senders(p)) > 0
  BY <1>1, <1>2
<1>4. Senders(p) # {}
  BY <1>3, FS_EmptySet
<1>5. \E i \in Run : run[p][i] # "none"
  BY <1>4 DEF Senders
<1>6. QED
  BY <1>5 DEF ContractInv, Progress

LEMMA InvBoundsPayments == ContractInv => PaidPerStart
<1> SUFFICES ASSUME ContractInv, NEW p \in Payout
             PROVE  /\ paid[p] <= Cardinality(Senders(p))
                    /\ paid[p] > 0 => p \in Debited
                    /\ status[p] = "COMPLETED" => paid[p] > 0
  BY DEF PaidPerStart
<1>1. /\ paid[p] \in Nat /\ taken[p] \in Nat /\ posts[p] \in Nat
      /\ paid[p] <= taken[p] /\ taken[p] <= posts[p]
      /\ posts[p] <= Cardinality(Senders(p))
      /\ Cardinality(Senders(p)) \in Nat
  BY SendersAreRuns DEF ContractInv, TypeOK, Progress
<1>2. paid[p] <= Cardinality(Senders(p)) /\ (paid[p] > 0 => taken[p] > 0)
  BY <1>1
<1>3. QED
  BY <1>2, PaidIsDebited DEF ContractInv, Witnessed, Debited

\* However often the queue starts a job, and whatever the provider does with a
\* repeated reference: a payout costs at most one transfer for each start that
\* got to sending, and what is reported as COMPLETED was sent.
THEOREM StartsBoundPayments == Spec => []PaidPerStart
BY InvBoundsPayments, InitContract, NextContract, PTL DEF Spec

-----------------------------------------------------------------------------
(* Every step is one of the contract's *)

LEMMA StepRefines ==
    ASSUME ContractInv, PaidPerStart', [Next]_vars
    PROVE  [Contract!ContractNext]_(Contract!contract)
<1> USE DEF Contract!contract
<1>1. ASSUME NEW p \in Payout, Debit(p)
      PROVE  Contract!Reserve(p)
  BY <1>1 DEF ContractInv, TypeOK, Debit, Debited, Write, provider,
         Contract!Reserve
<1>2. ASSUME UNCHANGED <<request, paid, status>>
      PROVE  UNCHANGED Contract!contract
  BY <1>2 DEF Debited
<1>3. ASSUME NEW p \in Payout, request[p] # "new",
             Debited' = Debited, paid' = paid,
             NEW verdict \in {"PROCESSING", "COMPLETED", "FAILED"},
             Write(p, verdict), verdict = "COMPLETED" => paid[p] > 0
      PROVE  Contract!ContractNext
  <2>1. Contract!Tell(p, verdict)
    BY <1>3 DEF Debited, Write, Contract!Tell
  <2>2. QED
    BY <2>1 DEF Contract!ContractNext
<1>4. ASSUME NEW p \in Payout, Enqueue(p) \/ LoseJob(p)
      PROVE  UNCHANGED Contract!contract
  <2>1. Debited' = Debited
    BY <1>4 DEF ContractInv, TypeOK, Enqueue, LoseJob, Debited
  <2>2. QED
    BY <1>4, <2>1 DEF Enqueue, LoseJob, provider
<1>5. ASSUME NEW p \in Payout, NEW i \in Run,
             MarkProcessing(p, i) \/ FailRun(p, i)
      PROVE  Contract!ContractNext
  <2>1. request[p] # "new"
    BY <1>5 DEF ContractInv, Progress, MarkProcessing, FailRun
  <2>2. Debited' = Debited /\ paid' = paid
    BY <1>5 DEF MarkProcessing, FailRun, Debited, provider
  <2>3. QED
    BY <1>3, <1>5, <2>1, <2>2 DEF MarkProcessing, FailRun
<1>6. ASSUME NEW p \in Payout, NEW i \in Run,
             \/ StartRun(p, i) \/ RefuseToken(p, i) \/ PostTransfer(p, i)
             \/ TransferThrows(p, i)
             \/ TransferAnswers(p, i) \/ KillRun(p, i) \/ EndRun(p, i)
             \/ AbortRun(p, i)
      PROVE  UNCHANGED Contract!contract
  BY <1>2, <1>6 DEF StartRun, PostTransfer, RefuseToken, TransferThrows,
         TransferAnswers, KillRun, EndRun, AbortRun, provider
<1>7. ASSUME NEW p \in Payout, ProviderTakes(p) \/ Stall(p)
      PROVE  UNCHANGED Contract!contract
  BY <1>2, <1>7 DEF ProviderTakes, Stall, provider
<1>8. ASSUME NEW p \in Payout, ProviderDecides(p)
      PROVE  [Contract!ContractNext]_(Contract!contract)
  <2>1. CASE paid' = paid
    BY <1>2, <1>8, <2>1 DEF ProviderDecides
  <2>2. CASE paid' = [paid EXCEPT ![p] = @ + 1]
    <3>1. paid[p] < Runs /\ request[p] # "new"
      <4>1. /\ paid[p] \in Nat /\ taken[p] \in Nat
            /\ paid[p] < taken[p]
        BY <1>8 DEF ContractInv, TypeOK, Progress, ProviderDecides
      <4>2. paid'[p] <= Cardinality(Senders(p)) /\ paid'[p] = paid[p] + 1
        <5>1. Senders(p)' = Senders(p)
          BY <1>8 DEF ProviderDecides, Senders
        <5>2. QED
          BY <2>2, <5>1 DEF ContractInv, TypeOK, PaidPerStart
      <4>3. /\ Cardinality(Senders(p)) <= Runs /\ Runs \in Nat
            /\ Cardinality(Senders(p)) \in Nat
        BY SendersAreRuns, PayoutAssumption
      <4>4. paid[p] < Runs /\ taken[p] > 0
        BY <4>1, <4>2, <4>3
      <4>5. QED
        BY <4>4, PaidIsDebited
    <3>2. Debited' = Debited
      BY <1>8 DEF ProviderDecides, Debited
    <3>3. Contract!Send(p)
      BY <1>8, <2>2, <3>1, <3>2 DEF ProviderDecides, Debited, Contract!Send
    <3>4. QED
      BY <3>3 DEF Contract!ContractNext
  <2>3. QED
    BY <1>8, <2>1, <2>2 DEF ProviderDecides
<1>9. ASSUME NEW k \in Poll, BeginPoll(k) \/ AbortPoll(k)
      PROVE  UNCHANGED Contract!contract
  BY <1>2, <1>9 DEF BeginPoll, AbortPoll, provider
<1>10. ASSUME NEW k \in Poll, NEW p \in Payout, StatusAnswer(k, p)
       PROVE  UNCHANGED Contract!contract
  BY <1>2, <1>10 DEF StatusAnswer, provider
<1>11. ASSUME NEW k \in Poll, NEW p \in Payout, RecordStatus(k, p)
       PROVE  Contract!ContractNext
  <2>1. request[p] # "new" /\ (poll[k][p] = "paid" => paid[p] > 0)
    BY <1>11 DEF ContractInv, Progress, Witnessed, RecordStatus
  <2>2. Debited' = Debited /\ paid' = paid
    BY <1>11 DEF RecordStatus, Debited, provider
  <2>3. QED
    BY <1>3, <1>11, <2>1, <2>2 DEF RecordStatus
<1>12. CASE UNCHANGED vars
  BY <1>2, <1>12 DEF vars, provider
<1>13. QED
  BY <1>1, <1>4, <1>5, <1>6, <1>7, <1>8, <1>9, <1>10, <1>11, <1>12
     DEF Next, Work, Ask, Break, Contract!ContractNext

\* The payout pipeline keeps its contract: however jobs stall, workers die and
\* polls overlap, money leaves only for what was debited, not more often than
\* the queue starts a job, and COMPLETED is said of what has left - for any
\* number of payouts, polls, rows per poll and starts of a job.
THEOREM PayoutsKeepContract == Spec => KeepsContract
<1>1. Init => Contract!ContractInit
  BY DEF Init, Debited, Contract!ContractInit
<1>2. ContractInv /\ [Next]_vars => ContractInv'
  BY NextContract
<1>3. ContractInv /\ PaidPerStart' /\ [Next]_vars =>
        [Contract!ContractNext]_(Contract!contract)
  BY StepRefines
<1>4. QED
  BY <1>1, <1>2, <1>3, InitContract, StartsBoundPayments, PTL
     DEF Spec, KeepsContract, Contract!ContractSpec

=============================================================================
