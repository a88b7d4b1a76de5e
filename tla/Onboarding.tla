----------------------------- MODULE Onboarding -----------------------------
(***************************************************************************)
(* A business hands in information, documents and representatives, in any  *)
(* order and several at a time, and is moved to review by whichever        *)
(* request finds all three.  Reviewers decide outside this program.  An    *)
(* approved business may switch between the TEST and LIVE environments,    *)
(* and the API keys it generates are keys of the environment it is in.     *)
(***************************************************************************)
CONSTANTS
    Submission, \* requests that hand something in
    KindOf,     \* KindOf[s]: which of the three
    Switch,     \* requests to switch the environment
    Generation  \* requests for an API key

Kind == {"information", "documents", "representatives"}

ASSUME OnboardingAssumption == KindOf \in [Submission -> Kind]

VARIABLES
    handedIn,       \* the kinds that are stored
    kycStatus,      \* the business row
    environment,    \* the business row
    submitStep,     \* how far a submission is
    switchStep,     \* how far a switch is: the environment it will write
    keyStep,        \* how far a generation is
    keyScope,       \* the environment of its scope
    keys,           \* api keys: [env, owner], owner the generation
    approvals       \* ever approved (history)

onboarding == <<handedIn, kycStatus, environment, submitStep, switchStep,
                keyStep, keyScope, keys, approvals>>

Environment == {"TEST", "LIVE"}

KycStatus == {"PENDING", "IN_REVIEW", "APPROVED", "REJECTED"}

Key == [env : Environment, owner : Generation]

OnboardingTypeOK ==
    /\ handedIn \subseteq Kind
    /\ kycStatus \in KycStatus
    /\ environment \in Environment
    /\ submitStep \in [Submission -> {"new", "checked", "stored", "complete",
                                      "ended", "died"}]
    /\ switchStep \in [Switch -> {"new", "ended"} \cup Environment]
    /\ keyStep \in [Generation -> {"new", "scoped", "found", "cleared", "ended"}]
    /\ keyScope \in [Generation -> Environment]
    /\ keys \subseteq Key
    /\ approvals \in BOOLEAN

OnboardingInit ==
    /\ handedIn = {}
    /\ kycStatus = "PENDING"
    /\ environment = "TEST"
    /\ submitStep = [s \in Submission |-> "new"]
    /\ switchStep = [w \in Switch |-> "new"]
    /\ keyStep = [g \in Generation |-> "new"]
    /\ keyScope = [g \in Generation |-> "TEST"]
    /\ keys = {}
    /\ approvals = FALSE

-----------------------------------------------------------------------------
(* BusinessKycService *)

SubmitGoes(s, from, to) ==
    /\ submitStep[s] = from
    /\ submitStep' = [submitStep EXCEPT ![s] = to]
    /\ UNCHANGED <<environment, switchStep, keyStep, keyScope, keys, approvals>>

\* The search for duplicates finds none (see EndSubmission).
CheckSubmission(s) ==
    /\ SubmitGoes(s, "new", "checked")
    /\ UNCHANGED <<handedIn, kycStatus>>

\* documentBulkUpsert and its like: what is there stays.
HandIn(kind) == handedIn' = handedIn \cup {kind}

StoreSubmission(s) ==
    /\ SubmitGoes(s, "checked", "stored")
    /\ HandIn(KindOf[s])
    /\ UNCHANGED kycStatus

\* Fault: only the documents, the last page of the form, complete it.
IsCompleteWithDocuments(s) == KindOf[s] = "documents" /\ handedIn = Kind

\* moveBusinessKycToReview reads the three tables at once.  Nothing is ever
\* removed from them: reading them at any time between gives what this gives.
IsComplete(s) == handedIn = Kind

LookWhatIsThere(s) ==
    /\ SubmitGoes(s, "stored", IF IsComplete(s) THEN "complete" ELSE "ended")
    /\ UNCHANGED <<handedIn, kycStatus>>

\* Whatever the status was: an approved business is reviewed again.
MoveToReview(s) ==
    /\ SubmitGoes(s, "complete", "ended")
    /\ kycStatus' = "IN_REVIEW"
    /\ UNCHANGED handedIn

\* A duplicate, an error or the end of the server.
EndSubmission(s) ==
    /\ \/ SubmitGoes(s, "new", "ended")
       \/ SubmitGoes(s, "checked", "ended")
       \/ SubmitGoes(s, "stored", "died")
       \/ SubmitGoes(s, "complete", "died")
    /\ UNCHANGED <<handedIn, kycStatus>>

\* No code decides: somebody writes the row.
Decide(verdict) ==
    /\ kycStatus = "IN_REVIEW"
    /\ kycStatus' = verdict
    /\ approvals' = (approvals \/ verdict = "APPROVED")
    /\ UNCHANGED <<handedIn, environment, submitStep, switchStep, keyStep, keyScope, keys>>

-----------------------------------------------------------------------------
(* environmentSwitching *)

Other(env) == IF env = "TEST" THEN "LIVE" ELSE "TEST"

\* Fault: only a rejected business is refused.
LoadUnlessRejected(w) ==
    /\ switchStep[w] = "new"
    /\ kycStatus # "REJECTED"
    /\ switchStep' = [switchStep EXCEPT ![w] = Other(environment)]
    /\ UNCHANGED <<handedIn, kycStatus, environment, submitStep, keyStep, keyScope, keys,
                   approvals>>

LoadForSwitch(w) ==
    /\ switchStep[w] = "new"
    /\ kycStatus = "APPROVED"
    /\ switchStep' = [switchStep EXCEPT ![w] = Other(environment)]
    /\ UNCHANGED <<handedIn, kycStatus, environment, submitStep, keyStep, keyScope, keys,
                   approvals>>

WriteEnvironment(w) ==
    /\ switchStep[w] \in Environment
    /\ environment' = switchStep[w]
    /\ switchStep' = [switchStep EXCEPT ![w] = "ended"]
    /\ UNCHANGED <<handedIn, kycStatus, submitStep, keyStep, keyScope, keys, approvals>>

-----------------------------------------------------------------------------
(* generateKey *)

KeyGoes(g, from, to) ==
    /\ keyStep[g] = from
    /\ keyStep' = [keyStep EXCEPT ![g] = to]
    /\ UNCHANGED <<handedIn, kycStatus, environment, submitStep, switchStep,
                   approvals>>

\* BusinessContextGuard gives the request the environment of the moment.
ScopeKey(g) ==
    /\ KeyGoes(g, "new", "scoped")
    /\ keyScope' = [keyScope EXCEPT ![g] = environment]
    /\ UNCHANGED keys

KeysOf(env) == {k \in keys : k.env = env}

\* Is there a key of the environment?  Only then are they deleted.
FindKey(g) ==
    /\ KeyGoes(g, "scoped", IF KeysOf(keyScope[g]) = {} THEN "cleared" ELSE "found")
    /\ UNCHANGED <<keyScope, keys>>

DeleteKeys(g) ==
    /\ KeyGoes(g, "found", "cleared")
    /\ keys' = keys \ KeysOf(keyScope[g])
    /\ UNCHANGED keyScope

SaveKey(g) ==
    /\ KeyGoes(g, "cleared", "ended")
    /\ keys' = keys \cup {[env |-> keyScope[g], owner |-> g]}
    /\ UNCHANGED keyScope

EndGeneration(g) ==
    /\ keyStep[g] # "ended"
    /\ KeyGoes(g, keyStep[g], "ended")
    /\ UNCHANGED <<keyScope, keys>>

-----------------------------------------------------------------------------
OnboardingNext ==
    \/ \E s \in Submission :
        \/ CheckSubmission(s)
        \/ StoreSubmission(s)
        \/ LookWhatIsThere(s)
        \/ MoveToReview(s)
        \/ EndSubmission(s)
    \/ \E verdict \in {"APPROVED", "REJECTED"} : Decide(verdict)
    \/ \E w \in Switch : LoadForSwitch(w) \/ WriteEnvironment(w)
    \/ \E g \in Generation :
        ScopeKey(g) \/ FindKey(g) \/ DeleteKeys(g) \/ SaveKey(g) \/ EndGeneration(g)

OnboardingSpec == OnboardingInit /\ [][OnboardingNext]_onboarding

-----------------------------------------------------------------------------
\* However the requests that hand the three in overlap, a business that has
\* handed in all of them is reviewed once they have ended, unless the server
\* died under one of them.
CompleteIsReviewed ==
    /\ handedIn = Kind
    /\ \A s \in Submission : submitStep[s] \in {"new", "checked", "ended"}
    => kycStatus # "PENDING"

\* Keys of the LIVE environment exist only for a business that was approved,
\* however switches, generations and new reviews overlap.
LiveKeyWasApproved ==
    (\E k \in keys : k.env = "LIVE") => approvals

=============================================================================
