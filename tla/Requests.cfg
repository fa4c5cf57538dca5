CONSTANTS
    Connections = {c1, c2}
    Usernames = {"alice", "bob"}
    Passwords = {"pw1", "pw2"}
    Empty = ""
    InitialUsers <- Alice
    DefaultBalance = 0
    Isolation = "snapshot"
    UniqueUsername = TRUE
    BalanceCheck = FALSE
    Targets = {"register", "login", "deposit", "withdraw", "profile", "otherPost", "otherGet", "otherMethod"}
    Amounts = {0, 2, 3}
    Bodies = {TRUE, FALSE}
    InitialTokens <- EveryKindOfToken
    TokenLife = 1
    MaxTime = 2
    Removable = {}
SYMMETRY Symmetry
SPECIFICATION Spec
INVARIANTS
    TypeOK
    NoOverdraft
PROPERTY
    ImplementsLedger
