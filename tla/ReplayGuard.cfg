CONSTANTS
    Nonces = {n1, n2}
    Skew = 1
    MaxTime = 5
    NoRequest = NoRequest
SPECIFICATION Spec
SYMMETRY NonceSymmetry
INVARIANTS TypeOK AcceptedOnce RowsExpire
\* The system may stop: requests need not arrive and the clock is bounded.
CHECK_DEADLOCK FALSE
