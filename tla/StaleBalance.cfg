CONSTANTS
    Tabs = {t1}
    Calls = {k1, k2, k3}
    InitialAccounts <- OnlyAlice
    Usernames = {"alice"}
    Passwords = {"pw1"}
    Amounts = {1}
    Empty = ""
    DefaultBalance = 0
    NoBalance = NoBalance
SYMMETRY Symmetry
SPECIFICATION Spec
INVARIANT
    UpdatedBalanceShown
