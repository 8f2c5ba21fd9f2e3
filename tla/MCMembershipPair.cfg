SPECIFICATION Spec
CONSTANTS
    c = c
    a = a
    b = b
    n1 = n1
    n2 = n2
    None = None
    Daemons = {c, a}
    Creator = c
    Nonces = {n1}
    MaxRedeem = 2
    MaxOther = 1
    MaxWaiting = 1
CHECK_DEADLOCK FALSE
INVARIANT PairConfirmsTogether
