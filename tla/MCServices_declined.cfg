\* What a card is credited for: the instance of the services run.
SPECIFICATION PartsSpec
CONSTANTS
    m1 = m1 k1 = k1 k2 = k2 p1 = p1 p2 = p2 t1 = t1 s1 = s1 s2 = s2 s3 = s3
    a1 = a1 a2 = a2 a3 = a3 a4 = a4 u1 = u1 u2 = u2 r1 = r1 r2 = r2 c1 = c1 c2 = c2
    x1 = x1
    Order = {m1}
    Request = {k1, k2, p1, p2}
    Card = {k1, k2}
    Sale = {p1, p2}
    Terminal = {t1}
    Attempts = 2
    Theirs = Theirs
    NoReference = NoReference
    RefOf <- MCRefOf
    At <- MCAt
    Account = {u1}
    Price = {200}
    Items <- MCItems
    None = None
    Editor = {u1}
    Form <- MCForm
    TaxAccount = {u2}
    NoAccount = NoAccount
    TaxConfig <- MCTaxConfig
    Creator = {c1, c2}
    Reference = {m1}
    AskOf <- MCAskOf
    Collisions = 1
    Edits = 3
    Amount = {10, 1000}
    Method = {x1, Transfer}
    Transfer = Transfer
    NoFee = NoFee
    FeeConfig <- MCFeeConfig
    Sweep = {s1, s2, s3}
    SweepReference = {r1, r2}
    SweepRef <- MCSweepRef
    FromOf <- MCFromOf
    Lux = {s3}
    LuxAccount = "sub"
    Batch = 2
    Call = {c1, c2}
    MaxToken = 3
    Submission = {s1, s2, s3}
    KindOf <- MCKindOf
    Switch = {u1}
    Generation = {c1, c2}
    User = {u1}
    Business = {x1, t1}
    Ask = {a1, a2, a3, a4}
    Resend = {a3}
    WantOf <- MCWantOf
    Present = {p1, p2, k1}
    TypeOf <- MCTypeOf
    Changer = {c1}
    ChangerOf <- MCChangerOf
INVARIANTS
    CreditedIsPaid
CHECK_DEADLOCK FALSE
