\* Two calls at a time; two devices that may share the address of an account and
\* one whose row has no key.
CONSTANTS
    d1 = d1
    d2 = d2
    dl = dl
    k1 = k1
    k2 = k2
    a0 = a0
    a1 = a1
    a2 = a2
    h1 = h1
    h2 = h2
    e1 = e1
    e2 = e2
    p0 = p0
    p1 = p1
    NoKey = NoKey
    None = None
    Devices = {d1, d2, dl}
    Keys = {k1, k2}
    Emails = {e1, e2, p0, p1}
    EmailsOf <- Addresses
    Personal = {p0, p1}
    Accounts = {a0, a1, a2}
    Legacy = {dl}
    OldAccount = a0
    OldEmail = p0
    Handlers = {h1, h2}
SPECIFICATION Spec
SYMMETRY EnrollmentSymmetry
INVARIANTS TypeOK AccountsAreSound LoginsAgree
PROPERTIES EnrolmentIsFinal
