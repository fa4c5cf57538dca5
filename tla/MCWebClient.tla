----------------------------- MODULE MCWebClient -----------------------------
(***************************************************************************)
(* Values for the constants of WebClient.                                  *)
(***************************************************************************)
EXTENDS WebClientProps, TLC

Holding(amount) == [password |-> "pw1", balance |-> amount]

OnlyAlice == [u \in {"alice"} |-> Holding(1)]
AliceAndBob == [u \in {"alice", "bob"} |-> Holding(IF u = "alice" THEN 1 ELSE 4)]

Symmetry == Permutations(Calls) \cup Permutations(Tabs)
===============================================================================
