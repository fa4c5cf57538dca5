CONSTANTS
    Connections = {c1, c2, c3}
    Usernames = {"alice"}
    Passwords = {"pw1"}
    Empty = ""
    InitialUsers <- Alice
    DefaultBalance = 0
    Isolation = "readCommitted"
    UniqueUsername = TRUE
    BalanceCheck = FALSE
    Targets = {"deposit", "withdraw"}
    Amounts = {1}
    Bodies = {TRUE}
    InitialTokens <- TokenOfAlice
    TokenLife = 1
    MaxTime = 0
    Removable = {}
SPECIFICATION FairSpec
PROPERTY
    EveryRequestEnds
