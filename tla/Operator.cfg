CONSTANTS
    Connections = {c1, c2, c3}
    Usernames = {"alice", "bob"}
    Passwords = {"pw1"}
    Empty = ""
    InitialUsers <- AliceAndBob
    DefaultBalance = 0
    Isolation = "readCommitted"
    UniqueUsername = FALSE
    BalanceCheck = FALSE
    Targets = {"register", "withdraw", "profile", "deposit"}
    Amounts = {1}
    Bodies = {TRUE}
    InitialTokens <- TokensOfBoth
    TokenLife = 1
    MaxTime = 0
    Removable = {"alice"}
SYMMETRY Symmetry
SPECIFICATION Spec
INVARIANTS
    TruthfulAnswer
    DuplicateNeedsRace
PROPERTY
    MoneyArrives
