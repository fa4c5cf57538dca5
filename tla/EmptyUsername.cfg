CONSTANTS
    Connections = {c1, c2, c3}
    Usernames = {""}
    Passwords = {"pw1"}
    Empty = ""
    InitialUsers <- NoUsers
    DefaultBalance = 0
    Isolation = "snapshot"
    UniqueUsername = TRUE
    BalanceCheck = FALSE
    Targets = {"register", "login", "profile"}
    Amounts = {}
    Bodies = {TRUE}
    InitialTokens <- NoUsers
    TokenLife = 1
    MaxTime = 0
    Removable = {}
SYMMETRY Symmetry
SPECIFICATION Spec
INVARIANT
    ValidTokenAccepted
