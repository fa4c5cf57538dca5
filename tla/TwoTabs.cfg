CONSTANTS
    Tabs = {t1, t2}
    Calls = {k1, k2}
    InitialAccounts <- AliceAndBob
    Usernames = {"alice", "bob"}
    Passwords = {"pw1"}
    Amounts = {1}
    Empty = ""
    DefaultBalance = 0
    NoBalance = NoBalance
SYMMETRY Symmetry
SPECIFICATION Spec
INVARIANTS
    SessionsCoherent
    SubmissionsAddUp
PROPERTY
    LogoutHolds
