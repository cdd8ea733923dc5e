SPECIFICATION Spec
CONSTANTS
    alice = alice
    Alice = Alice
    Names <- MCNames
    Lower <- MCLower
    Passwords = {p1, p2}
    Machines = {m1}
    None = None
    Registers = {r1, r2}
    Logins = {l1, l2}
    Requests = {q1, q2}
    AllowRegistration = TRUE
    DbMayFail = TRUE
INVARIANTS
    TypeOK
    NameTakenOnce
    AnsweredTokenWorks
    UsedSessionStays
    OneSessionPerMachine
SYMMETRY RequestSymmetry
PROPERTY LoginMatchesRegistration
CHECK_DEADLOCK FALSE
