--------------------------- MODULE ProviderTokens ---------------------------
(***************************************************************************)
(* Calls of the payment provider share an access token kept in a cache.    *)
(* Whoever finds the cache empty asks for a token, writes it to the cache  *)
(* without waiting and goes on; a call that is refused clears the cache,   *)
(* asks for a token and is made once more.  Writes arrive late and in any  *)
(* order, and tokens stop being valid at any time.                         *)
(***************************************************************************)
EXTENDS Naturals

CONSTANTS
    Call,       \* calls of the provider
    MaxToken    \* bound on the tokens the provider issues

ASSUME ProviderTokensAssumption == MaxToken \in Nat

VARIABLES
    cache,      \* the token in the cache, 0 if none
    issued,     \* tokens issued so far; they are numbered
    revoked,    \* tokens the provider does not accept any more
    writes,     \* tokens on their way to the cache
    callStep,   \* how far a call is
    token,      \* token[c]: the token it uses
    refusedAt,  \* refusedAt[c]: tokens issued when it was refused, MaxToken + 1
                \* if it was not
    done        \* done[c]: how often the provider carried it out

providerCalls == <<callStep, token, refusedAt, done>>
tokens == <<cache, issued, revoked, writes>>
providing == <<tokens, providerCalls>>

Token == 1..MaxToken

ProviderTokensTypeOK ==
    /\ cache \in Token \cup {0}
    /\ issued \in 0..MaxToken
    /\ revoked \subseteq Token
    /\ writes \subseteq Token
    /\ callStep \in [Call -> {"new", "login", "ready", "refused", "relogin",
                              "again", "answered", "failed"}]
    /\ token \in [Call -> Token \cup {0}]
    /\ refusedAt \in [Call -> 0..MaxToken + 1]
    /\ done \in [Call -> Nat]

ProviderTokensInit ==
    /\ cache = 0
    /\ issued = 0
    /\ revoked = {}
    /\ writes = {}
    /\ callStep = [c \in Call |-> "new"]
    /\ token = [c \in Call |-> 0]
    /\ refusedAt = [c \in Call |-> MaxToken + 1]
    /\ done = [c \in Call |-> 0]

-----------------------------------------------------------------------------
(* withTokenRetry *)

Turn(c, from, to) ==
    /\ callStep[c] = from
    /\ callStep' = [callStep EXCEPT ![c] = to]

\* getTokenFromCache
ReadCache(c) ==
    /\ Turn(c, "new", IF cache = 0 THEN "login" ELSE "ready")
    /\ token' = [token EXCEPT ![c] = cache]
    /\ UNCHANGED <<tokens, refusedAt, done>>

\* vfdAuth: the write to the cache is not waited for.
Authenticate(c) ==
    /\ \/ Turn(c, "login", "ready")
       \/ Turn(c, "relogin", "again")
    /\ issued < MaxToken
    /\ issued' = issued + 1
    /\ token' = [token EXCEPT ![c] = issued']
    /\ writes' = writes \cup {issued'}
    /\ UNCHANGED <<cache, revoked, refusedAt, done>>

\* The call is made, and carried out if the token is accepted.  Errors other
\* than 401 and 403 are passed on.
MakeCall(c) ==
    /\ token[c] \notin revoked
    /\ \E end \in {"answered", "failed"} : Turn(c, "ready", end) \/ Turn(c, "again", end)
    /\ \E n \in {0, 1} : done' = [done EXCEPT ![c] = @ + n]
    /\ UNCHANGED <<tokens, token, refusedAt>>

\* 401 or 403, the first time
Refuse(c) ==
    /\ token[c] \in revoked
    /\ Turn(c, "ready", "refused")
    /\ refusedAt' = [refusedAt EXCEPT ![c] = issued]
    /\ UNCHANGED <<tokens, token, done>>

\* ... and again
RefuseAgain(c) ==
    /\ token[c] \in revoked
    /\ Turn(c, "again", "failed")
    /\ UNCHANGED <<tokens, token, refusedAt, done>>

\* Fault: the cache is not cleared, and its token is tried if there is one.
RetryFromCache(c) ==
    /\ Turn(c, "refused", IF cache = 0 THEN "relogin" ELSE "again")
    /\ token' = [token EXCEPT ![c] = cache]
    /\ UNCHANGED <<tokens, refusedAt, done>>

ClearCache(c) ==
    /\ Turn(c, "refused", "relogin")
    /\ cache' = 0
    /\ UNCHANGED <<issued, revoked, writes, token, refusedAt, done>>

\* The login fails, or the server dies.
EndCall(c) ==
    /\ callStep[c] \notin {"answered", "failed"}
    /\ callStep' = [callStep EXCEPT ![c] = "failed"]
    /\ token' = [token EXCEPT ![c] = 0]
    /\ UNCHANGED <<tokens, refusedAt, done>>

-----------------------------------------------------------------------------
\* storeData, some time later or never
WriteCache(t) ==
    /\ t \in writes
    /\ cache' \in {t, cache}
    /\ writes' = writes \ {t}
    /\ UNCHANGED <<issued, revoked, providerCalls>>

\* After 3500 seconds
ExpireCache ==
    /\ cache # 0
    /\ cache' = 0
    /\ UNCHANGED <<issued, revoked, writes, providerCalls>>

RevokeToken(t) ==
    /\ t \in 1..issued \ revoked
    /\ revoked' = revoked \cup {t}
    /\ UNCHANGED <<cache, issued, writes, providerCalls>>

-----------------------------------------------------------------------------
ProviderTokensNext ==
    \/ \E c \in Call :
        \/ ReadCache(c)
        \/ Authenticate(c)
        \/ MakeCall(c)
        \/ Refuse(c)
        \/ RefuseAgain(c)
        \/ ClearCache(c)
        \/ EndCall(c)
    \/ \E t \in Token : WriteCache(t) \/ RevokeToken(t)
    \/ ExpireCache

ProviderTokensSpec == ProviderTokensInit /\ [][ProviderTokensNext]_providing

-----------------------------------------------------------------------------
\* A call is carried out at most once, retried or not, and fails for its
\* token only if that token was issued after the first refusal: a stale token
\* that a late write puts back into the cache hurts nobody twice.
RetriesWithFreshToken ==
    \A c \in Call :
        /\ done[c] <= 1
        /\ callStep[c] = "failed" /\ token[c] \in revoked /\ refusedAt[c] <= MaxToken
            => token[c] > refusedAt[c]

=============================================================================
