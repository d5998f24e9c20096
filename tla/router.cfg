\* Two providers with three free keys and a paid one, one request after another.
SPECIFICATION FairSpec
CONSTANTS
    Provider = {p1, p2}
    Key = {k1, k2, k3, x1}
    Model = {m1}
    Request = {r1}
    Owner <- MCOwner
    FreeKey = {k1, k2, k3}
    Wanted = m1
    AutoDiscover = TRUE
    None = None
    p1 = p1
    p2 = p2
    k1 = k1
    k2 = k2
    k3 = k3
    x1 = x1
INVARIANTS
    ExhaustedBeforeError
    PaidIsLastResort
    ReservationsAreSettled
    RouterInv
PROPERTIES
    NeverAskedAgain
    RequestsEnd
