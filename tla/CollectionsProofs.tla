-------------------------- MODULE CollectionsProofs --------------------------
(***************************************************************************)
(* Proofs about Collections, for any orders, invoices, transfers and       *)
(* handlers: an order is credited once, nothing is reported that was not   *)
(* credited, and an invoice has one attempt within the window.             *)
(***************************************************************************)
EXTENDS Collections, TLAPS

(***************************************************************************)
(* The inductive invariant                                                 *)
(***************************************************************************)

\* Whatever handles or processes a transfer knows where it was paid to; a
\* job that waits may still be started, and a status once read is one.
Underway ==
    /\ \A h \in Handler :
        step[h] # "idle" => at[h] \in Transfer /\ to[at[h]] # None
    /\ \A t \in Transfer :
        /\ job[t] # "none" \/ run[t] # "idle" => to[t] # None
        /\ job[t] = "waiting" => tries[t] < Tries
        /\ run[t] = "looked" => seen[t] \in TransactionStatus

\* Money only goes to an account the payer was given, and what was credited
\* keeps its SUCCESS row.
CreditsKept ==
    \A t \in Transfer :
        /\ to[t] # None => pay[to[t]] = "returned"
        /\ credits[t] > 0 => to[t] # None /\ Processed(t)

\* The converse: a SUCCESS row, and a job that is past the settlement, have a
\* credit of the order behind them.
Credited(a) == \E t \in Transfer : credits[t] > 0 /\ to[t] = a

RowsAreBacked ==
    /\ \A a \in Order : "SUCCESS" \in rows[a] => Credited(a)
    /\ \A t \in Transfer : run[t] \notin {"idle", "started"} => Credited(to[t])

\* A request between the lock and its release holds the row; once it has found
\* no recent attempt there is none.
AttemptsAreLocked ==
    \A a \in Order :
        /\ pay[a] \in {"locked", "clear"} =>
            For[a] # None /\ holder[For[a]] = a
        /\ pay[a] = "clear" => ActiveAttempts(a) = {}

CollectionsInv ==
    /\ TypeOK
    /\ Underway
    /\ CreditsKept
    /\ CreditedOnce
    /\ RowsAreBacked
    /\ PaidIsCredited
    /\ AttemptsAreLocked
    /\ OneRecentAttempt

-----------------------------------------------------------------------------
(* Every step keeps the parts of the invariant; step 0 is for the actions *)
(* that leave alone what the part speaks of                               *)

\* Types.
LEMMA TypeStep ==
    ASSUME TypeOK, Underway, [Next]_vars
    PROVE  TypeOK'
  <1>0. CASE UNCHANGED vars
    BY <1>0 DEF vars, invoices, attempts, bank, webhook, jobs, TypeOK,
           Underway, TransactionStatus
  <1>1. ASSUME NEW a \in Order, LockInvoice(a)
       PROVE  TypeOK'
    BY <1>1, CollectionsAssumption DEF LockInvoice, Pays, bank, webhook,
           jobs, TypeOK, Underway, TransactionStatus
  <1>2. ASSUME NEW a \in Order, CheckAttempts(a)
       PROVE  TypeOK'
    BY <1>2, CollectionsAssumption DEF CheckAttempts, Pays, Free,
           ActiveAttempts, bank, webhook, jobs, TypeOK, Underway,
           TransactionStatus
  <1>3. ASSUME NEW a \in Order, SaveNewAttempt(a)
       PROVE  TypeOK'
    BY <1>3, CollectionsAssumption DEF SaveNewAttempt, Pays, Free, bank,
           webhook, jobs, TypeOK, Underway, TransactionStatus
  <1>4. ASSUME NEW a \in Order, IssueAccount(a)
       PROVE  TypeOK'
    BY <1>4, CollectionsAssumption DEF IssueAccount, Pays, invoices, bank,
           webhook, jobs, TypeOK, Underway, TransactionStatus
  <1>5. ASSUME NEW a \in Order, AnswerPayer(a)
       PROVE  TypeOK'
    BY <1>5, CollectionsAssumption DEF AnswerPayer, Pays, PaysInvoice, bank,
           webhook, jobs, TypeOK, Underway, TransactionStatus
  <1>6. ASSUME NEW a \in Order, AbandonPayment(a)
       PROVE  TypeOK'
    BY <1>6, CollectionsAssumption DEF AbandonPayment, Pays, Free, bank,
           webhook, jobs, TypeOK, Underway, TransactionStatus
  <1>7. ASSUME NEW a \in Order, Age(a)
       PROVE  TypeOK'
    BY <1>7, CollectionsAssumption DEF Age, invoices, bank, webhook, jobs,
           TypeOK, Underway, TransactionStatus
  <1>8. ASSUME NEW a \in Order, ExpireAccount(a)
       PROVE  TypeOK'
    BY <1>8, CollectionsAssumption DEF ExpireAccount, invoices, attempts,
           bank, webhook, jobs, TypeOK, Underway, TransactionStatus
  <1>9. ASSUME NEW t \in Transfer, ReceiveTransfer(t)
       PROVE  TypeOK'
    BY <1>9, CollectionsAssumption DEF ReceiveTransfer, invoices, attempts,
           webhook, jobs, TypeOK, Underway, TransactionStatus
  <1>10. ASSUME NEW t \in Transfer, StartJob(t)
       PROVE  TypeOK'
    BY <1>10, CollectionsAssumption DEF StartJob, Runs, invoices, attempts,
           bank, webhook, TypeOK, Underway, TransactionStatus
  <1>11. ASSUME NEW t \in Transfer, Settle(t)
       PROVE  TypeOK'
    BY <1>11, CollectionsAssumption DEF Settle, Runs, Credit, Processed,
           invoices, attempts, bank, webhook, TypeOK, Underway,
           TransactionStatus
  <1>12. ASSUME NEW t \in Transfer, ReadTransaction(t)
       PROVE  TypeOK'
    BY <1>12, CollectionsAssumption DEF ReadTransaction, Runs, invoices,
           attempts, bank, webhook, TypeOK, Underway, TransactionStatus
  <1>13. ASSUME NEW t \in Transfer, SaveAttempt(t)
       PROVE  TypeOK'
    BY <1>13, CollectionsAssumption DEF SaveAttempt, PaysInvoice, Runs,
           EndRun, invoices, bank, webhook, TypeOK, Underway, TransactionStatus
  <1>14. ASSUME NEW t \in Transfer, MarkPaid(t)
       PROVE  TypeOK'
    BY <1>14, CollectionsAssumption DEF MarkPaid, Runs, attempts, bank,
           webhook, TypeOK, Underway, TransactionStatus
  <1>15. ASSUME NEW t \in Transfer, MarkInvoiceTaxesCollected(t)
       PROVE  TypeOK'
    BY <1>15, CollectionsAssumption DEF MarkInvoiceTaxesCollected, Runs,
           attempts, bank, webhook, TypeOK, Underway, TransactionStatus
  <1>16. ASSUME NEW t \in Transfer, DispatchWebhook(t)
       PROVE  TypeOK'
    BY <1>16, CollectionsAssumption DEF DispatchWebhook, Runs, invoices,
           attempts, bank, webhook, TypeOK, Underway, TransactionStatus
  <1>17. ASSUME NEW t \in Transfer, EndJob(t)
       PROVE  TypeOK'
    BY <1>17, CollectionsAssumption DEF EndJob, EndRun, invoices, attempts,
           bank, webhook, TypeOK, Underway, TransactionStatus
  <1>18. ASSUME NEW t \in Transfer, FailJob(t)
       PROVE  TypeOK'
    BY <1>18, CollectionsAssumption DEF FailJob, EndRun, invoices, attempts,
           bank, webhook, TypeOK, Underway, TransactionStatus
  <1>19. ASSUME NEW h \in Handler, NEW t \in Transfer, Notify(h, t)
       PROVE  TypeOK'
    BY <1>19, CollectionsAssumption DEF Notify, invoices, attempts, bank,
           jobs, TypeOK, Underway, TransactionStatus
  <1>20. ASSUME NEW h \in Handler, CloseAccount(h)
       PROVE  TypeOK'
    BY <1>20, CollectionsAssumption DEF CloseAccount, invoices, attempts,
           bank, jobs, TypeOK, Underway, TransactionStatus
  <1>21. ASSUME NEW h \in Handler, AddCreditJob(h)
       PROVE  TypeOK'
    BY <1>21, CollectionsAssumption DEF AddCreditJob, FreeHandler, invoices,
           attempts, bank, TypeOK, Underway, TransactionStatus
  <1>22. ASSUME NEW h \in Handler, AbandonNotification(h)
       PROVE  TypeOK'
    BY <1>22, CollectionsAssumption DEF AbandonNotification, FreeHandler,
           invoices, attempts, bank, jobs, TypeOK, Underway, TransactionStatus
  <1>q. QED
    BY <1>0, <1>1, <1>2, <1>3, <1>4, <1>5, <1>6, <1>7, <1>8, <1>9, <1>10,
           <1>11, <1>12, <1>13, <1>14, <1>15, <1>16, <1>17, <1>18, <1>19,
           <1>20, <1>21, <1>22
       DEF Next, PayInvoice, IncomingWebhook, Process, Reconcile

\* What is under way has its transfer.
LEMMA UnderwayStep ==
    ASSUME TypeOK, Underway, [Next]_vars
    PROVE  Underway'
  <1>0. CASE UNCHANGED <<to, at, step, job, tries, run, seen>>
    BY <1>0 DEF TypeOK, Underway, TransactionStatus
  <1>1. ASSUME NEW t \in Transfer, ReceiveTransfer(t)
       PROVE  Underway'
    BY <1>1, CollectionsAssumption DEF ReceiveTransfer, webhook, jobs,
           TypeOK, Underway, TransactionStatus
  <1>2. ASSUME NEW t \in Transfer, StartJob(t)
       PROVE  Underway'
    BY <1>2, CollectionsAssumption DEF StartJob, Runs, bank, webhook, TypeOK,
           Underway, TransactionStatus
  <1>3. ASSUME NEW t \in Transfer, Settle(t)
       PROVE  Underway'
    BY <1>3, CollectionsAssumption DEF Settle, Runs, Credit, Processed, bank,
           webhook, TypeOK, Underway, TransactionStatus
  <1>4. ASSUME NEW t \in Transfer, ReadTransaction(t)
       PROVE  Underway'
    BY <1>4, CollectionsAssumption DEF ReadTransaction, Runs, bank, webhook,
           TypeOK, Underway, TransactionStatus
  <1>5. ASSUME NEW t \in Transfer, SaveAttempt(t)
       PROVE  Underway'
    BY <1>5, CollectionsAssumption DEF SaveAttempt, PaysInvoice, Runs,
           EndRun, bank, webhook, TypeOK, Underway, TransactionStatus
  <1>6. ASSUME NEW t \in Transfer, MarkPaid(t)
       PROVE  Underway'
    BY <1>6, CollectionsAssumption DEF MarkPaid, Runs, bank, webhook, TypeOK,
           Underway, TransactionStatus
  <1>7. ASSUME NEW t \in Transfer, MarkInvoiceTaxesCollected(t)
       PROVE  Underway'
    BY <1>7, CollectionsAssumption DEF MarkInvoiceTaxesCollected, Runs, bank,
           webhook, TypeOK, Underway, TransactionStatus
  <1>8. ASSUME NEW t \in Transfer, DispatchWebhook(t)
       PROVE  Underway'
    BY <1>8, CollectionsAssumption DEF DispatchWebhook, Runs, bank, webhook,
           TypeOK, Underway, TransactionStatus
  <1>9. ASSUME NEW t \in Transfer, EndJob(t)
       PROVE  Underway'
    BY <1>9, CollectionsAssumption DEF EndJob, EndRun, bank, webhook, TypeOK,
           Underway, TransactionStatus
  <1>10. ASSUME NEW t \in Transfer, FailJob(t)
       PROVE  Underway'
    BY <1>10, CollectionsAssumption DEF FailJob, EndRun, bank, webhook,
           TypeOK, Underway, TransactionStatus
  <1>11. ASSUME NEW h \in Handler, NEW t \in Transfer, Notify(h, t)
       PROVE  Underway'
    BY <1>11, CollectionsAssumption DEF Notify, bank, jobs, TypeOK, Underway,
           TransactionStatus
  <1>12. ASSUME NEW h \in Handler, CloseAccount(h)
       PROVE  Underway'
    BY <1>12, CollectionsAssumption DEF CloseAccount, bank, jobs, TypeOK,
           Underway, TransactionStatus
  <1>13. ASSUME NEW h \in Handler, AddCreditJob(h)
       PROVE  Underway'
    BY <1>13, CollectionsAssumption DEF AddCreditJob, FreeHandler, bank,
           TypeOK, Underway, TransactionStatus
  <1>14. ASSUME NEW h \in Handler, AbandonNotification(h)
       PROVE  Underway'
    BY <1>14, CollectionsAssumption DEF AbandonNotification, FreeHandler,
           bank, jobs, TypeOK, Underway, TransactionStatus
  <1>q. QED
    BY <1>0, <1>1, <1>2, <1>3, <1>4, <1>5, <1>6, <1>7, <1>8, <1>9, <1>10,
           <1>11, <1>12, <1>13, <1>14
       DEF Next, PayInvoice, IncomingWebhook, Process, Reconcile,
           LockInvoice, Pays, bank, webhook, jobs, CheckAttempts, Free,
           ActiveAttempts, SaveNewAttempt, IssueAccount, AnswerPayer,
           PaysInvoice, AbandonPayment, Age, ExpireAccount, vars

\* A SUCCESS row stays: an account is issued before anyone can pay into it.
LEMMA CreditsKeptStep ==
    ASSUME TypeOK, Underway, CreditsKept, [Next]_vars
    PROVE  CreditsKept'
  <1>0. CASE UNCHANGED <<pay, rows, to, credits>>
    BY <1>0 DEF TypeOK, Underway, CreditsKept, Processed
  <1>1. ASSUME NEW a \in Order, LockInvoice(a)
       PROVE  CreditsKept'
    BY <1>1, CollectionsAssumption DEF LockInvoice, Pays, bank, TypeOK,
           Underway, CreditsKept, Processed
  <1>2. ASSUME NEW a \in Order, CheckAttempts(a)
       PROVE  CreditsKept'
    BY <1>2, CollectionsAssumption DEF CheckAttempts, Pays, Free,
           ActiveAttempts, bank, TypeOK, Underway, CreditsKept, Processed
  <1>3. ASSUME NEW a \in Order, SaveNewAttempt(a)
       PROVE  CreditsKept'
    BY <1>3, CollectionsAssumption DEF SaveNewAttempt, Pays, Free, bank,
           TypeOK, Underway, CreditsKept, Processed
  <1>4. ASSUME NEW a \in Order, IssueAccount(a)
       PROVE  CreditsKept'
    BY <1>4, CollectionsAssumption DEF IssueAccount, Pays, bank, TypeOK,
           Underway, CreditsKept, Processed
  <1>5. ASSUME NEW a \in Order, AnswerPayer(a)
       PROVE  CreditsKept'
    BY <1>5, CollectionsAssumption DEF AnswerPayer, Pays, PaysInvoice, bank,
           TypeOK, Underway, CreditsKept, Processed
  <1>6. ASSUME NEW a \in Order, AbandonPayment(a)
       PROVE  CreditsKept'
    BY <1>6, CollectionsAssumption DEF AbandonPayment, Pays, Free, bank,
           TypeOK, Underway, CreditsKept, Processed
  <1>7. ASSUME NEW t \in Transfer, ReceiveTransfer(t)
       PROVE  CreditsKept'
    BY <1>7, CollectionsAssumption DEF ReceiveTransfer, attempts, TypeOK,
           Underway, CreditsKept, Processed
  <1>8. ASSUME NEW t \in Transfer, Settle(t)
       PROVE  CreditsKept'
    BY <1>8, CollectionsAssumption DEF Settle, Runs, Credit, Processed,
           attempts, bank, TypeOK, Underway, CreditsKept
  <1>q. QED
    BY <1>0, <1>1, <1>2, <1>3, <1>4, <1>5, <1>6, <1>7, <1>8
       DEF Next, PayInvoice, IncomingWebhook, Process, Reconcile, Age, bank,
           ExpireAccount, attempts, StartJob, Runs, ReadTransaction,
           SaveAttempt, PaysInvoice, EndRun, MarkPaid,
           MarkInvoiceTaxesCollected, DispatchWebhook, EndJob, FailJob,
           Notify, CloseAccount, AddCreditJob, FreeHandler,
           AbandonNotification, vars

\* A credit is given where no SUCCESS row is, hence where no credit was.
LEMMA CreditedOnceStep ==
    ASSUME TypeOK, Underway, CreditsKept, CreditedOnce, [Next]_vars
    PROVE  CreditedOnce'
  <1>0. CASE UNCHANGED <<to, credits>>
    BY <1>0 DEF TypeOK, Underway, CreditsKept, CreditedOnce, Processed
  <1>1. ASSUME NEW t \in Transfer, ReceiveTransfer(t)
       PROVE  CreditedOnce'
    BY <1>1, CollectionsAssumption DEF ReceiveTransfer, TypeOK, Underway,
           CreditsKept, CreditedOnce, Processed
  <1>2. ASSUME NEW t \in Transfer, Settle(t)
       PROVE  CreditedOnce'
    <2>1. CASE Processed(t) /\ UNCHANGED credits
      BY <1>2, <2>1 DEF Settle, CreditedOnce, bank
    <2>2. CASE ~Processed(t) /\ Credit(t)
      <3>1. to[t] # None /\ UNCHANGED to
        BY <1>2 DEF Settle, Runs, Underway, bank
      <3>2. \A u \in Transfer : to[u] = to[t] => credits[u] = 0
        BY <2>2 DEF CreditsKept, Processed, TypeOK
      <3> QED
        BY <2>2, <3>1, <3>2 DEF Credit, CreditedOnce, TypeOK
    <2> QED
      BY <1>2, <2>1, <2>2 DEF Settle
  <1>q. QED
    BY <1>0, <1>1, <1>2
       DEF Next, PayInvoice, IncomingWebhook, Process, Reconcile,
           LockInvoice, Pays, bank, CheckAttempts, Free, ActiveAttempts,
           SaveNewAttempt, IssueAccount, AnswerPayer, PaysInvoice,
           AbandonPayment, Age, ExpireAccount, StartJob, Runs,
           ReadTransaction, SaveAttempt, EndRun, MarkPaid,
           MarkInvoiceTaxesCollected, DispatchWebhook, EndJob, FailJob,
           Notify, CloseAccount, AddCreditJob, FreeHandler,
           AbandonNotification, vars

\* SUCCESS is written with the credit, and credits are not taken back.
LEMMA RowsAreBackedStep ==
    ASSUME TypeOK, Underway, CreditsKept, RowsAreBacked, [Next]_vars
    PROVE  RowsAreBacked'
  <1>0. CASE UNCHANGED <<rows, to, run, credits>>
    BY <1>0 DEF TypeOK, Underway, CreditsKept, RowsAreBacked, Credited,
           Processed
  <1>1. ASSUME NEW a \in Order, IssueAccount(a)
       PROVE  RowsAreBacked'
    BY <1>1, CollectionsAssumption DEF IssueAccount, Pays, bank, jobs,
           TypeOK, Underway, CreditsKept, RowsAreBacked, Credited, Processed
  <1>2. ASSUME NEW t \in Transfer, ReceiveTransfer(t)
       PROVE  RowsAreBacked'
    BY <1>2, CollectionsAssumption DEF ReceiveTransfer, jobs, TypeOK,
           Underway, CreditsKept, RowsAreBacked, Credited, Processed
  <1>3. ASSUME NEW t \in Transfer, StartJob(t)
       PROVE  RowsAreBacked'
    BY <1>3, CollectionsAssumption DEF StartJob, Runs, bank, TypeOK,
           Underway, CreditsKept, RowsAreBacked, Credited, Processed
  <1>4. ASSUME NEW t \in Transfer, Settle(t)
       PROVE  RowsAreBacked'
    BY <1>4, CollectionsAssumption DEF Settle, Runs, Credit, Processed, bank,
           TypeOK, Underway, CreditsKept, RowsAreBacked, Credited
  <1>5. ASSUME NEW t \in Transfer, ReadTransaction(t)
       PROVE  RowsAreBacked'
    BY <1>5, CollectionsAssumption DEF ReadTransaction, Runs, bank, TypeOK,
           Underway, CreditsKept, RowsAreBacked, Credited, Processed
  <1>6. ASSUME NEW t \in Transfer, SaveAttempt(t)
       PROVE  RowsAreBacked'
    BY <1>6, CollectionsAssumption DEF SaveAttempt, PaysInvoice, Runs,
           EndRun, bank, TypeOK, Underway, CreditsKept, RowsAreBacked,
           Credited, Processed
  <1>7. ASSUME NEW t \in Transfer, MarkPaid(t)
       PROVE  RowsAreBacked'
    BY <1>7, CollectionsAssumption DEF MarkPaid, Runs, bank, TypeOK,
           Underway, CreditsKept, RowsAreBacked, Credited, Processed
  <1>8. ASSUME NEW t \in Transfer, MarkInvoiceTaxesCollected(t)
       PROVE  RowsAreBacked'
    BY <1>8, CollectionsAssumption DEF MarkInvoiceTaxesCollected, Runs, bank,
           TypeOK, Underway, CreditsKept, RowsAreBacked, Credited, Processed
  <1>9. ASSUME NEW t \in Transfer, DispatchWebhook(t)
       PROVE  RowsAreBacked'
    BY <1>9, CollectionsAssumption DEF DispatchWebhook, Runs, bank, TypeOK,
           Underway, CreditsKept, RowsAreBacked, Credited, Processed
  <1>10. ASSUME NEW t \in Transfer, EndJob(t)
       PROVE  RowsAreBacked'
    BY <1>10, CollectionsAssumption DEF EndJob, EndRun, bank, TypeOK,
           Underway, CreditsKept, RowsAreBacked, Credited, Processed
  <1>11. ASSUME NEW t \in Transfer, FailJob(t)
       PROVE  RowsAreBacked'
    BY <1>11, CollectionsAssumption DEF FailJob, EndRun, bank, TypeOK,
           Underway, CreditsKept, RowsAreBacked, Credited, Processed
  <1>q. QED
    BY <1>0, <1>1, <1>2, <1>3, <1>4, <1>5, <1>6, <1>7, <1>8, <1>9, <1>10, <1>11
       DEF Next, PayInvoice, IncomingWebhook, Process, Reconcile,
           LockInvoice, Pays, bank, jobs, CheckAttempts, Free,
           ActiveAttempts, SaveNewAttempt, AnswerPayer, PaysInvoice,
           AbandonPayment, Age, ExpireAccount, Notify, CloseAccount,
           AddCreditJob, FreeHandler, AbandonNotification, vars

\* What is reported comes from a SUCCESS row or from a settled job.
LEMMA PaidIsCreditedStep ==
    ASSUME TypeOK, Underway, CreditsKept, RowsAreBacked, PaidIsCredited,
    [Next]_vars
    PROVE  PaidIsCredited'
  <1>0. CASE UNCHANGED <<invoice, tax, to, credits, told>>
    BY <1>0 DEF TypeOK, Underway, CreditsKept, RowsAreBacked, Credited,
           PaidIsCredited, Received
  <1>1. ASSUME NEW a \in Order, AnswerPayer(a)
       PROVE  PaidIsCredited'
    BY <1>1, CollectionsAssumption DEF AnswerPayer, Pays, PaysInvoice, bank,
           TypeOK, Underway, CreditsKept, RowsAreBacked, Credited,
           PaidIsCredited, Received
  <1>2. ASSUME NEW t \in Transfer, ReceiveTransfer(t)
       PROVE  PaidIsCredited'
    BY <1>2, CollectionsAssumption DEF ReceiveTransfer, invoices, TypeOK,
           Underway, CreditsKept, RowsAreBacked, Credited, PaidIsCredited,
           Received
  <1>3. ASSUME NEW t \in Transfer, Settle(t)
       PROVE  PaidIsCredited'
    BY <1>3, CollectionsAssumption DEF Settle, Runs, Credit, Processed,
           invoices, bank, TypeOK, Underway, CreditsKept, RowsAreBacked,
           Credited, PaidIsCredited, Received
  <1>4. ASSUME NEW t \in Transfer, MarkPaid(t)
       PROVE  PaidIsCredited'
    BY <1>4, CollectionsAssumption DEF MarkPaid, Runs, bank, TypeOK,
           Underway, CreditsKept, RowsAreBacked, Credited, PaidIsCredited,
           Received
  <1>5. ASSUME NEW t \in Transfer, MarkInvoiceTaxesCollected(t)
       PROVE  PaidIsCredited'
    BY <1>5, CollectionsAssumption DEF MarkInvoiceTaxesCollected, Runs, bank,
           TypeOK, Underway, CreditsKept, RowsAreBacked, Credited,
           PaidIsCredited, Received
  <1>6. ASSUME NEW t \in Transfer, DispatchWebhook(t)
       PROVE  PaidIsCredited'
    BY <1>6, CollectionsAssumption DEF DispatchWebhook, Runs, invoices, bank,
           TypeOK, Underway, CreditsKept, RowsAreBacked, Credited,
           PaidIsCredited, Received
  <1>q. QED
    BY <1>0, <1>1, <1>2, <1>3, <1>4, <1>5, <1>6
       DEF Next, PayInvoice, IncomingWebhook, Process, Reconcile,
           LockInvoice, Pays, bank, CheckAttempts, Free, ActiveAttempts,
           SaveNewAttempt, IssueAccount, invoices, AbandonPayment, Age,
           ExpireAccount, StartJob, Runs, ReadTransaction, SaveAttempt,
           PaysInvoice, EndRun, EndJob, FailJob, Notify, CloseAccount,
           AddCreditJob, FreeHandler, AbandonNotification, vars

\* Two requests are never both between lock and release of one invoice.
LEMMA AttemptsStep ==
    ASSUME TypeOK, AttemptsAreLocked, OneRecentAttempt, [Next]_vars
    PROVE  (AttemptsAreLocked /\ OneRecentAttempt)'
  <1>0. CASE UNCHANGED <<holder, pay, recent>>
    BY <1>0 DEF TypeOK, AttemptsAreLocked, OneRecentAttempt, ActiveAttempts
  <1>1. ASSUME NEW a \in Order, LockInvoice(a)
       PROVE  (AttemptsAreLocked /\ OneRecentAttempt)'
    BY <1>1, CollectionsAssumption DEF LockInvoice, Pays, TypeOK,
           AttemptsAreLocked, OneRecentAttempt, ActiveAttempts
  <1>2. ASSUME NEW a \in Order, CheckAttempts(a)
       PROVE  (AttemptsAreLocked /\ OneRecentAttempt)'
    BY <1>2, CollectionsAssumption DEF CheckAttempts, Pays, Free,
           ActiveAttempts, TypeOK, AttemptsAreLocked, OneRecentAttempt
  <1>3. ASSUME NEW a \in Order, SaveNewAttempt(a)
       PROVE  (AttemptsAreLocked /\ OneRecentAttempt)'
    <2>1. pay[a] = "clear" /\ holder[For[a]] = a /\ ActiveAttempts(a) = {}
      BY <1>3 DEF SaveNewAttempt, Pays, AttemptsAreLocked
    <2>2. ASSUME NEW b \in Order, b # a, pay[b] \in {"locked", "clear"}
          PROVE  For[b] # None /\ holder[For[b]] = b /\ For[b] # For[a]
      BY <2>1, <2>2 DEF AttemptsAreLocked
    <2>3. ASSUME NEW b \in Order, pay'[b] \in {"locked", "clear"}
          PROVE  b # a /\ pay[b] = pay'[b]
      BY <1>3, <2>3 DEF SaveNewAttempt, Pays, TypeOK
    <2>4. ASSUME NEW b \in Order, pay'[b] \in {"locked", "clear"}
          PROVE  For[b] # None /\ holder'[For[b]] = b
      <3>1. For[b] \in Invoice /\ holder[For[b]] = b /\ b # a
        BY <2>2, <2>3, <2>4, CollectionsAssumption
      <3> QED
        BY <1>3, <3>1, CollectionsAssumption DEF SaveNewAttempt, Free
    <2>5. ASSUME NEW b \in Order, pay'[b] = "clear"
          PROVE  (ActiveAttempts(b) = {})'
      BY <1>3, <2>2, <2>3, <2>5
         DEF SaveNewAttempt, AttemptsAreLocked, ActiveAttempts
    <2>6. AttemptsAreLocked'
      BY <2>4, <2>5 DEF AttemptsAreLocked
    <2>7. OneRecentAttempt'
      BY <1>3, <2>1 DEF SaveNewAttempt, OneRecentAttempt, ActiveAttempts,
             TypeOK
    <2> QED
      BY <2>6, <2>7
  <1>4. ASSUME NEW a \in Order, IssueAccount(a)
       PROVE  (AttemptsAreLocked /\ OneRecentAttempt)'
    BY <1>4, CollectionsAssumption DEF IssueAccount, Pays, invoices, TypeOK,
           AttemptsAreLocked, OneRecentAttempt, ActiveAttempts
  <1>5. ASSUME NEW a \in Order, AnswerPayer(a)
       PROVE  (AttemptsAreLocked /\ OneRecentAttempt)'
    BY <1>5, CollectionsAssumption DEF AnswerPayer, Pays, PaysInvoice,
           TypeOK, AttemptsAreLocked, OneRecentAttempt, ActiveAttempts
  <1>6. ASSUME NEW a \in Order, AbandonPayment(a)
       PROVE  (AttemptsAreLocked /\ OneRecentAttempt)'
    <2>1. ASSUME NEW b \in Order, pay'[b] \in {"locked", "clear"}
          PROVE  b # a /\ pay[b] = pay'[b]
      BY <1>6, <2>1 DEF AbandonPayment, Pays, TypeOK
    <2>2. ASSUME NEW b \in Order, pay'[b] \in {"locked", "clear"}
          PROVE  For[b] # None /\ holder'[For[b]] = b
      <3>1. For[b] \in Invoice /\ holder[For[b]] = b /\ b # a
        BY <2>1, <2>2, CollectionsAssumption DEF AttemptsAreLocked
      <3> QED
        BY <1>6, <3>1, CollectionsAssumption DEF AbandonPayment, Free
    <2> QED
      BY <1>6, <2>1, <2>2
         DEF AbandonPayment, AttemptsAreLocked, OneRecentAttempt,
             ActiveAttempts
  <1>7. ASSUME NEW a \in Order, Age(a)
       PROVE  (AttemptsAreLocked /\ OneRecentAttempt)'
    BY <1>7, CollectionsAssumption DEF Age, invoices, TypeOK,
           AttemptsAreLocked, OneRecentAttempt, ActiveAttempts
  <1>q. QED
    BY <1>0, <1>1, <1>2, <1>3, <1>4, <1>5, <1>6, <1>7
       DEF Next, PayInvoice, IncomingWebhook, Process, Reconcile,
           ExpireAccount, invoices, attempts, ReceiveTransfer, StartJob,
           Runs, Settle, Credit, Processed, ReadTransaction, SaveAttempt,
           PaysInvoice, EndRun, MarkPaid, MarkInvoiceTaxesCollected,
           DispatchWebhook, EndJob, FailJob, Notify, CloseAccount,
           AddCreditJob, FreeHandler, AbandonNotification, vars

-----------------------------------------------------------------------------
(* The theorems *)

\* Nothing is paid, issued or credited at first.
LEMMA InitialInvariant ==
    ASSUME Init
    PROVE  CollectionsInv
  BY CollectionsAssumption
     DEF Init, CollectionsInv, TypeOK, Underway, CreditsKept, CreditedOnce,
         RowsAreBacked, PaidIsCredited, AttemptsAreLocked, OneRecentAttempt

\* The parts above make the whole inductive.
LEMMA InvariantKept ==
    ASSUME CollectionsInv, [Next]_vars
    PROVE  CollectionsInv'
  <1> USE DEF CollectionsInv
  <1>1. TypeOK' /\ Underway'
    BY TypeStep, UnderwayStep
  <1>2. CreditsKept' /\ CreditedOnce'
    BY CreditsKeptStep, CreditedOnceStep
  <1>3. RowsAreBacked' /\ PaidIsCredited'
    BY RowsAreBackedStep, PaidIsCreditedStep
  <1>4. AttemptsAreLocked' /\ OneRecentAttempt'
    BY AttemptsStep
  <1> QED
    BY <1>1, <1>2, <1>3, <1>4

\* The invariant holds throughout.
THEOREM Invariant == Spec => []CollectionsInv
  <1>1. Init => CollectionsInv
    BY InitialInvariant
  <1>2. CollectionsInv /\ [Next]_vars => CollectionsInv'
    BY InvariantKept
  <1> QED
    BY <1>1, <1>2, PTL DEF Spec

\* Every variable keeps its type: a job is started Tries times at most, and
\* what is read of a transaction is one of its statuses.
THEOREM TypeCorrect == Spec => []TypeOK
  <1>1. CollectionsInv => TypeOK
    BY DEF CollectionsInv
  <1> QED
    BY <1>1, Invariant, PTL

\* An order is credited once, however often its transfers are notified, its
\* job is started and the payer pays (createSettlement).
THEOREM CreditsAreOnce == Spec => []CreditedOnce
  <1>1. CollectionsInv => CreditedOnce
    BY DEF CollectionsInv
  <1> QED
    BY <1>1, Invariant, PTL

\* Invoice, taxes and merchant are told only of what was credited
\* (VirtualAccountCreditProcessor.process,
\* InvoiceReconciliationHandler.handle).
THEOREM PaidIsBacked == Spec => []PaidIsCredited
  <1>1. CollectionsInv => PaidIsCredited
    BY DEF CollectionsInv
  <1> QED
    BY <1>1, Invariant, PTL

\* An invoice has one attempt within the window (payInvoice).
THEOREM AttemptsAreSingle == Spec => []OneRecentAttempt
  <1>1. CollectionsInv => OneRecentAttempt
    BY DEF CollectionsInv
  <1> QED
    BY <1>1, Invariant, PTL

==============================================================================
