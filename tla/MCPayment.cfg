CONSTANTS
    Requests = {r1, r2, r3}
    p1 = p1
    p2 = p2
    q = q
    s = s
    t = t
    Payloads = {p1, p2, q}
    Exact = {p1, p2}
    Subintents = {s, t}
    SubintentOf <- MCSubintentOf
    MaxRestarts = 1
SPECIFICATION FairSpec
CHECK_DEADLOCK FALSE
INVARIANT TypeOK
INVARIANT ServedIsPaid
INVARIANT RetryIsServed
PROPERTY PaymentAnswered
PROPERTY KeepsGate
