CONSTANTS
    Connections = {c1, c2, c3}
    Usernames = {"alice", "bob"}
    Passwords = {"pw1"}
    Empty = ""
    InitialUsers <- AliceAndBob
    DefaultBalance = 0
    Isolation = "readCommitted"
    UniqueUsername = TRUE
    BalanceCheck = FALSE
    Targets = {"deposit", "withdraw"}
    Amounts = {1, 2}
    Bodies = {TRUE}
    InitialTokens <- TokensOfBoth
    TokenLife = 1
    MaxTime = 0
    Removable = {}
SYMMETRY Symmetry
SPECIFICATION Spec
INVARIANTS
    OverdraftNeedsRace
    Conservation
PROPERTY
    ExactEffect
