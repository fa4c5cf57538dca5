--------------------------- MODULE MCAuctionServer ---------------------------
(***************************************************************************)
(* Values for the constants of AuctionServer.                              *)
(***************************************************************************)
EXTENDS AuctionServerProps, TLC

InitialRow(id, u, amount) ==
    [id |-> id, username |-> u, password |-> "pw1", balance |-> amount, writer |-> id]

Signed(u, exp) == [kind |-> "signed", username |-> u, exp |-> exp]

NoUsers == {}
Alice == {InitialRow("row1", "alice", 2)}
AliceAndBob == Alice \cup {InitialRow("row2", "bob", 1)}

TokenOfAlice == {Signed("alice", 1)}
TokensOfBoth == TokenOfAlice \cup {Signed("bob", 1)}
EveryKindOfToken == TokenOfAlice \cup {NoToken, GarbageToken}

Symmetry == Permutations(Connections)
===============================================================================
