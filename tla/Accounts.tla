------------------------------ MODULE Accounts ------------------------------
(***************************************************************************)
(* Users, the businesses they belong to, and the tokens that are mailed to *)
(* them to verify an address or to reset a password.  A token is asked for *)
(* and presented by requests that run at the same time: each looks at the  *)
(* rows, decides, and writes in a later statement.                         *)
(***************************************************************************)
EXTENDS Naturals, Sequences

CONSTANTS
    User,
    Business,
    Ask,        \* requests for a token
    Resend,     \* those of them that name a previous token
    WantOf,     \* WantOf[a]: the user and type request a wants a token of
    Present,    \* requests that present a token
    TypeOf,     \* TypeOf[p]: the type of token request p presents
    Changer,    \* requests to change a password
    ChangerOf   \* ChangerOf[c]: the user who makes request c

TokenType == {"EMAIL_VERIFICATION", "PASSWORD_RESET"}

ASSUME AccountsAssumption ==
    /\ Resend \subseteq Ask
    /\ WantOf \in [Ask -> [owner : User, type : TokenType]]
    /\ TypeOf \in [Present -> TokenType]
    /\ ChangerOf \in [Changer -> User]

VARIABLES
    verified,   \* registered users: is the address verified?
    password,   \* password[u]: who set the password last
    members,    \* active memberships
    active,     \* active[u]: the user's active business
    tokenRows,  \* rows, oldest first
    askStep, previous, \* how far request a is, the row it resends
    presentStep, presentRow,    \* how far request p is, the row it found
    changeStep, \* how far request c is
    began,      \* rows there were when request a began (history)
    closed      \* rows that were accepted, or that a request which has ended
                \* found when it began (history)

people  == <<verified, password, members, active, changeStep>>
asking  == <<askStep, previous, began>>
presenting == <<presentStep, presentRow>>
accounts == <<people, tokenRows, asking, presenting, closed>>

TokenRow == [owner : User, type : TokenType, used : BOOLEAN, expired : BOOLEAN]

AccountsTypeOK ==
    /\ DOMAIN verified \subseteq User
    /\ verified \in [DOMAIN verified -> BOOLEAN]
    /\ password \in [DOMAIN verified -> {"registered"} \cup Present \cup Changer]
    /\ members \subseteq User \X Business
    /\ changeStep \in [Changer -> {"new", "checked", "ended"}]
    /\ \A u \in DOMAIN verified : <<u, active[u]>> \in members
    /\ askStep \in [Ask -> {"named", "found", "ready", "checked", "marked", "ended"}]
    /\ presentStep \in [Present -> {"new", "loaded", "spent", "ended"}]
    /\ \A p \in Present : presentRow[p] \in 0..Len(tokenRows)
    /\ \A i \in DOMAIN tokenRows : tokenRows[i] \in TokenRow
    /\ closed \subseteq DOMAIN tokenRows

Nobody == [u \in {} |-> TRUE]

\* requestTokenByEmail asks for a token at once, resendByPreviousToken finds
\* the previous one first.
FirstStep(a) == IF a \in Resend THEN "named" ELSE "ready"

AccountsInit ==
    /\ verified = Nobody
    /\ password = Nobody
    /\ members = {}
    /\ active = Nobody
    /\ tokenRows = << >>
    /\ askStep = [a \in Ask |-> FirstStep(a)]
    /\ previous = [a \in Ask |-> 0]
    /\ presentStep = [p \in Present |-> "new"]
    /\ presentRow = [p \in Present |-> 0]
    /\ changeStep = [c \in Changer |-> "new"]
    /\ began = [a \in Ask |-> 0]
    /\ closed = {}

With(f, u, v) == [x \in DOMAIN f \cup {u} |-> IF x = u THEN v ELSE f[x]]

Registered == DOMAIN verified

-----------------------------------------------------------------------------
(* UserService and BusinessService *)

Unused == {b \in Business : \A m \in members : m[2] # b}

\* createMembership, as an active member with the role of an administrator
Join(u, b) == members' = members \cup {<<u, b>>}

\* findActiveBusinessMembershipForUser
IsMember(u, b) == <<u, b>> \in members

\* setupNewAccount: user, business, wallet, role and membership in one
\* database transaction.
SetupNewAccount(u) ==
    /\ u \notin Registered
    /\ \E b \in Unused :
        /\ Join(u, b)
        /\ active' = With(active, u, b)
    /\ verified' = With(verified, u, FALSE)
    /\ password' = With(password, u, "registered")
    /\ UNCHANGED <<changeStep, tokenRows, asking, presenting, closed>>

CreateBusinessForUser(u) ==
    /\ u \in Registered
    /\ \E b \in Unused :
        /\ Join(u, b)
        /\ active' = [active EXCEPT ![u] = b]
    /\ UNCHANGED <<verified, password, changeStep, tokenRows, asking, presenting, closed>>

SwitchBusiness(u, b) ==
    /\ IsMember(u, b)
    /\ active[u] # b
    /\ active' = [active EXCEPT ![u] = b]
    /\ UNCHANGED <<verified, password, members, changeStep, tokenRows, asking,
                   presenting, closed>>

\* changePassword checks the old password, hashes the new one and writes it.
CheckPassword(c) ==
    /\ changeStep[c] = "new"
    /\ ChangerOf[c] \in Registered
    /\ changeStep' = [changeStep EXCEPT ![c] = "checked"]
    /\ UNCHANGED <<verified, password, members, active, tokenRows, asking,
                   presenting, closed>>

WritePassword(c) ==
    /\ changeStep[c] = "checked"
    /\ changeStep' = [changeStep EXCEPT ![c] = "ended"]
    /\ password' = [password EXCEPT ![ChangerOf[c]] = c]
    /\ UNCHANGED <<verified, members, active, tokenRows, asking, presenting, closed>>

-----------------------------------------------------------------------------
(* TokenService: a request for a token *)

AskGoes(a, from, to) ==
    /\ askStep[a] = from
    /\ askStep' = [askStep EXCEPT ![a] = to]
    /\ UNCHANGED <<people, presenting>>

RowsFor(want) ==
    {i \in DOMAIN tokenRows :
        tokenRows[i].owner = want.owner /\ tokenRows[i].type = want.type}

MarkUsed(rs) ==
    tokenRows' = [i \in DOMAIN tokenRows |->
        IF i \in rs THEN [tokenRows[i] EXCEPT !.used = TRUE] ELSE tokenRows[i]]

\* resendByPreviousToken: the previous one must not have been used ...
FindPrevious(a) ==
    /\ AskGoes(a, "named", "found")
    /\ \E i \in RowsFor(WantOf[a]) :
        ~tokenRows[i].used /\ previous' = [previous EXCEPT ![a] = i]
    /\ UNCHANGED <<tokenRows, began, closed>>

\* ... and is marked.
MarkPrevious(a) ==
    /\ AskGoes(a, "found", "ready")
    /\ MarkUsed({previous[a]})
    /\ UNCHANGED <<previous, began, closed>>

\* generateToken, for an owner that exists.  (A number he was given before is
\* refused: EndAsk.)
CheckToken(a) ==
    /\ AskGoes(a, "ready", "checked")
    /\ WantOf[a].owner \in Registered
    /\ began' = [began EXCEPT ![a] = Len(tokenRows)]
    /\ UNCHANGED <<tokenRows, previous, closed>>

\* Fault: the owner's earlier tokens stay good.
MarkNone(a) ==
    /\ AskGoes(a, "checked", "marked")
    /\ UNCHANGED <<tokenRows, previous, began, closed>>

MarkEarlier(a) ==
    /\ AskGoes(a, "checked", "marked")
    /\ MarkUsed(RowsFor(WantOf[a]))
    /\ UNCHANGED <<previous, began, closed>>

SaveToken(a) ==
    /\ AskGoes(a, "marked", "ended")
    /\ tokenRows' = Append(tokenRows,
            [owner |-> WantOf[a].owner, type |-> WantOf[a].type,
             used |-> FALSE, expired |-> FALSE])
    /\ closed' = closed \cup {i \in RowsFor(WantOf[a]) : i <= began[a]}
    /\ UNCHANGED <<previous, began>>

EndAsk(a) ==
    /\ askStep[a] # "ended"
    /\ askStep' = [askStep EXCEPT ![a] = "ended"]
    /\ UNCHANGED <<people, tokenRows, previous, began, presenting, closed>>

ExpireToken(i) ==
    /\ i \in DOMAIN tokenRows
    /\ ~tokenRows[i].expired
    /\ tokenRows' = [tokenRows EXCEPT ![i].expired = TRUE]
    /\ UNCHANGED <<people, asking, presenting, closed>>

-----------------------------------------------------------------------------
(* ValidateToken, for verifyEmailAddress or requestPasswordReset *)

\* A row with the number presented and the type, whoever's it is.
LoadToken(p) ==
    /\ presentStep[p] = "new"
    /\ \E i \in DOMAIN tokenRows :
        /\ tokenRows[i].type = TypeOf[p]
        /\ ~tokenRows[i].used
        /\ ~tokenRows[i].expired
        /\ presentRow' = [presentRow EXCEPT ![p] = i]
    /\ presentStep' = [presentStep EXCEPT ![p] = "loaded"]
    /\ UNCHANGED <<people, tokenRows, asking, closed>>

SpendToken(p) ==
    /\ presentStep[p] = "loaded"
    /\ MarkUsed({presentRow[p]})
    /\ closed' = closed \cup {presentRow[p]}
    /\ presentStep' = [presentStep EXCEPT ![p] = "spent"]
    /\ UNCHANGED <<people, asking, presentRow>>

Applies(p, type) ==
    /\ presentStep[p] = "spent"
    /\ TypeOf[p] = type
    /\ presentStep' = [presentStep EXCEPT ![p] = "ended"]
    /\ UNCHANGED <<members, active, changeStep, tokenRows, asking, presentRow, closed>>

Owner(p) == tokenRows[presentRow[p]].owner

VerifyEmail(p) ==
    /\ Applies(p, "EMAIL_VERIFICATION")
    /\ verified' = [verified EXCEPT ![Owner(p)] = TRUE]
    /\ UNCHANGED password

ResetPassword(p) ==
    /\ Applies(p, "PASSWORD_RESET")
    /\ password' = [password EXCEPT ![Owner(p)] = p]
    /\ UNCHANGED verified

EndPresent(p) ==
    /\ presentStep[p] # "ended"
    /\ presentStep' = [presentStep EXCEPT ![p] = "ended"]
    /\ UNCHANGED <<people, tokenRows, asking, presentRow, closed>>

-----------------------------------------------------------------------------
AccountsNext ==
    \/ \E u \in User :
        \/ SetupNewAccount(u)
        \/ CreateBusinessForUser(u)
        \/ \E b \in Business : SwitchBusiness(u, b)
    \/ \E c \in Changer : CheckPassword(c) \/ WritePassword(c)
    \/ \E a \in Ask :
        \/ FindPrevious(a)
        \/ MarkPrevious(a)
        \/ CheckToken(a)
        \/ MarkEarlier(a)
        \/ SaveToken(a)
        \/ EndAsk(a)
    \/ \E p \in Present :
        \/ LoadToken(p)
        \/ SpendToken(p)
        \/ VerifyEmail(p)
        \/ ResetPassword(p)
        \/ EndPresent(p)
    \/ \E i \in DOMAIN tokenRows : ExpireToken(i)

AccountsSpec == AccountsInit /\ [][AccountsNext]_accounts

-----------------------------------------------------------------------------
\* A token that has been accepted, or that was there when a later request for
\* a token began which has ended, opens nothing any more, however requests
\* overlap.  (Requests that overlap may both be accepted with one token, and
\* two overlapping ones for a token may leave two that are good.)
ClosedIsRefused ==
    [][\A p \in Present :
        presentStep[p] = "new" /\ presentStep'[p] = "loaded" =>
            presentRow'[p] \notin closed]_accounts

=============================================================================
