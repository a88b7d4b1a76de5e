--------------------------- MODULE MCSettlements ---------------------------
(***************************************************************************)
(* Settlements on small instances.                                         *)
(***************************************************************************)
EXTENDS Settlements, TLC

CONSTANTS c1, c2, c3, v1, v2, main

Came == c1 :> 3 @@ c2 :> 4 @@ c3 :> 5

Kobo == [c \in Payment |-> Came[c]]

Begins(c) == stage[c] = "none" /\ stage'[c] = "begun"

Unconfigured == config = None /\ \A a \in Account : account[a] = "none"

\* Bounds: a business that has configured something has two collections; one
\* that has not, and has no wallet row to lock either, has three, which race for
\* the settlements of the day.  The first begins first.
FewNext ==
    /\ Next
    /\ Begins(c2) => stage[c1] # "none"
    /\ Begins(c3) => stage[c2] # "none" /\ Unconfigured
    /\ business' # business => stage[c3] = "none"

FewSpec == Init /\ [][FewNext]_vars
=============================================================================
