CONSTANTS
    Connections = {c1, c2}
    Usernames = {"alice"}
    Passwords = {"pw1"}
    Empty = ""
    InitialUsers <- Alice
    DefaultBalance = 0
    Isolation = "readCommitted"
    UniqueUsername = TRUE
    BalanceCheck = FALSE
    Targets = {"withdraw"}
    Amounts = {2}
    Bodies = {TRUE}
    InitialTokens <- TokenOfAlice
    TokenLife = 1
    MaxTime = 0
    Removable = {}
SYMMETRY Symmetry
SPECIFICATION Spec
INVARIANT
    WithdrawalsAreCovered
