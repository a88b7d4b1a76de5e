SPECIFICATION Spec
CONSTANTS
    b1 = b1
    b2 = b2
    c1 = c1
    c2 = c2
    c3 = c3
    c4 = c4
    c5 = c5
    c6 = c6
    d1 = d1
    d2 = d2
    d3 = d3
    d4 = d4
    d5 = d5
    None = None
    Business = {b1, b2}
    Provisioned = {b1}
    Request = {c1, c2}
    Input <- FirstCollections
INVARIANT
    CreditedOnceEverywhere
CHECK_DEADLOCK FALSE
