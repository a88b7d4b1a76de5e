------------------------------ MODULE Webhooks ------------------------------
(***************************************************************************)
(* Webhooks to one merchant.  Each try to tell of an event leaves a        *)
(* snapshot, SUCCESS or FAILED; a failed one is tried again by the         *)
(* merchant's repush or by a cron, which reads the failed snapshots of a   *)
(* window of time and dispatches them one after the other.                 *)
(***************************************************************************)
EXTENDS Integers, Sequences

CONSTANTS
    Event,      \* what the merchant is to be told
    Window,     \* how far back failures count as recent (24 hours)
    LastHour,   \* bound on the hours modelled
    Attempts    \* bound on the snapshots of an event

VARIABLES
    now,
    registered,     \* the merchant has a webhook for this type of event
    snapshots,      \* snapshots[e]: deliveryStatus and createdAt of each try
    retrying, todo  \* the cron: its flag and the snapshots it has left

vars == <<now, registered, snapshots, retrying, todo>>

Init ==
    /\ now = 0
    /\ registered = FALSE
    /\ snapshots = [e \in Event |-> <<>>]
    /\ retrying = FALSE
    /\ todo = {}

NextHour ==
    /\ now < LastHour
    /\ now' = now + 1
    /\ UNCHANGED <<registered, snapshots, retrying, todo>>

CreateWebhook ==
    /\ ~registered
    /\ registered' = TRUE
    /\ UNCHANGED <<now, snapshots, retrying, todo>>

DeleteWebhook ==
    /\ registered
    /\ registered' = FALSE
    /\ UNCHANGED <<now, snapshots, retrying, todo>>

\* Without a webhook nothing happens; otherwise the merchant's answer, or that
\* there is none, is kept.
DispatchWebhook(e) ==
    IF registered
    THEN /\ Len(snapshots[e]) < Attempts
         /\ \E status \in {"SUCCESS", "FAILED"} :
              snapshots' = [snapshots EXCEPT ![e] =
                    Append(@, [status |-> status, createdAt |-> now])]
    ELSE UNCHANGED snapshots

\* A collection or a paid invoice (see Collections).
Tell(e) ==
    /\ snapshots[e] = <<>>
    /\ DispatchWebhook(e)
    /\ UNCHANGED <<now, registered, retrying, todo>>

\* The merchant asks for the last delivery again.
RepushWebhook(e) ==
    /\ snapshots[e] # <<>>
    /\ DispatchWebhook(e)
    /\ UNCHANGED <<now, registered, retrying, todo>>

-----------------------------------------------------------------------------
(* retryRecentFailedWebhooksCron *)

Between(x, low, high) == low <= x /\ x <= high

Cutoff == now - Window

\* The failed snapshots created between now and the cutoff, in this order.
FailedSnapshots ==
    {<<e, n>> \in Event \X (1..Attempts) :
        /\ n \in DOMAIN snapshots[e]
        /\ snapshots[e][n].status = "FAILED"
        /\ Between(snapshots[e][n].createdAt, now, Cutoff)}

BeginRetries ==
    /\ ~retrying
    /\ retrying' = TRUE
    /\ todo' = FailedSnapshots
    /\ UNCHANGED <<now, registered, snapshots>>

Retry(e, n) ==
    /\ <<e, n>> \in todo
    /\ todo' = todo \ {<<e, n>>}
    /\ DispatchWebhook(e)
    /\ UNCHANGED <<now, registered, retrying>>

EndRetries ==
    /\ retrying
    /\ todo = {}
    /\ retrying' = FALSE
    /\ UNCHANGED <<now, registered, snapshots, todo>>

Cron ==
    \/ BeginRetries
    \/ \E e \in Event, n \in 1..Attempts : Retry(e, n)
    \/ EndRetries

Next ==
    \/ NextHour
    \/ CreateWebhook \/ DeleteWebhook
    \/ \E e \in Event : Tell(e) \/ RepushWebhook(e)
    \/ Cron

Spec == Init /\ [][Next]_vars

\* The cron fires every ten minutes.
FairSpec == Spec /\ WF_vars(Cron)

-----------------------------------------------------------------------------
FailedAtFirst(e) ==
    /\ snapshots[e] # <<>>
    /\ snapshots[e][1].status = "FAILED"
    /\ now <= snapshots[e][1].createdAt + Window

TriedAgain(e) == Len(snapshots[e]) > 1

\* A delivery that failed is tried again while it is recent, for as long as
\* the merchant has a webhook (the cron's log line: "Retried ... failed webhook
\* deliveries", of retryFailedWebhooksWithinLast24Hours).
FailedIsRetried ==
    \A e \in Event :
        FailedAtFirst(e) ~> ~FailedAtFirst(e) \/ TriedAgain(e) \/ ~registered

=============================================================================
