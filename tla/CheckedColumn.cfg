CONSTANTS
    Connections = {c1, c2, c3}
    Usernames = {"alice", "bob"}
    Passwords = {"pw1"}
    Empty = ""
    InitialUsers <- Alice
    DefaultBalance = 0
    Isolation = "readCommitted"
    UniqueUsername = TRUE
    BalanceCheck = TRUE
    Targets = {"register", "deposit", "withdraw", "profile"}
    Amounts = {1, 2}
    Bodies = {TRUE}
    InitialTokens <- TokenOfAlice
    TokenLife = 1
    MaxTime = 0
    Removable = {}
SYMMETRY Symmetry
SPECIFICATION Spec
INVARIANT
    WaitsEnd
PROPERTY
    ImplementsLedger
