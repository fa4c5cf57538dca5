--------------------------- MODULE AuctionServerProps ---------------------------
(***************************************************************************)
(* What must be true of server.cpp, whatever its threads interleave to.    *)
(***************************************************************************)
EXTENDS AuctionServer

\* What the repository leaves open: the database itself keeps a withdrawal
\* from acting on a balance that is no longer the one it checked.
OverdraftGuarded == BalanceCheck \/ (UniqueUsername /\ Isolation = "snapshot")

\* No account is ever overdrawn: the funds check of handle_withdraw and its
\* UPDATE are two statements with other threads in between, and hold together
\* when the transaction runs under snapshot isolation or the column is checked.
NoOverdraft == OverdraftGuarded => \A r \in users : r.balance >= 0

\* handle_withdraw refuses what the account does not hold with "Insufficient
\* funds": no withdrawal, then, takes an account below zero.
WithdrawalsAreCovered == \A r \in users : r.balance >= 0

\* Under any isolation level a withdrawal of handle_withdraw takes an account
\* below zero only by a race: the row version that its UPDATE replaces is not
\* one that its SELECT saw.
OverdraftNeedsRace ==
    UniqueUsername =>
        \A c \in Connections : \A v \in pending[c] : \A r \in users :
            v.id = r.id /\ v.balance < 0 /\ v.balance < r.balance => r \notin snapshot[c]

\* Without a UNIQUE constraint two rows share a username only by a race:
\* handle_register inserts a username that is already taken only if the other
\* row was committed after its SELECT.
DuplicateNeedsRace ==
    \A c \in Connections : \A v \in pending[c] : \A r \in users :
        v.id = c /\ v.username = r.username => r \notin snapshot[c]

\* Balances move only by whole requests: whenever the balance of a row
\* changes, one deposit or withdrawal of that account commits, and the change
\* is exactly its amount.  No update of handle_deposit and handle_withdraw is
\* lost to another, and none reaches the account of somebody else.
BalanceStep ==
    \A r \in users, s \in users' :
        r.id = s.id /\ r.balance # s.balance =>
            \E c \in committed' \ committed :
                /\ Account(request[c]) = r.username
                /\ s.balance = r.balance + Delta(request[c])

ExactEffect == [][BalanceStep]_vars

\* An acknowledged amount arrives: handle_deposit and handle_withdraw commit
\* without looking at how many rows their UPDATE has matched, but a row of the
\* account is there and moves by exactly the amount, unless somebody removes
\* accounts by hand.
ArrivalStep ==
    \A c \in committed' \ committed :
        request[c].target \in MoneyTargets /\ Account(request[c]) \notin Removable =>
            \E r \in users, s \in users' :
                /\ r.id = s.id /\ r.username = Account(request[c])
                /\ s.balance = r.balance + Delta(request[c])

MoneyArrives == [][ArrivalStep]_vars

\* The answer tells the truth about the table: handle_register, handle_deposit
\* and handle_withdraw answer 200 only when their transaction has committed, and
\* no request refused with a 4xx ever commits.
TruthfulAnswer ==
    \A c \in Connections :
        /\ /\ request[c].target \in MoneyTargets \cup {"register"}
           /\ response[c].status = 200
           => c \in committed
        /\ response[c].status \in 400..499 => c \notin committed

\* Every request that reached its handler is answered, or its connection is
\* lost: no thread of do_session waits forever for a row lock, whatever errors
\* and crashes the others meet.
EveryRequestEnds ==
    \A c \in Connections :
        pc[c] \in {"route", "query", "modify", "commit", "respond"} ~> pc[c] \in Ended

\* The thread of c waits for that of d: the row its UPDATE is to change, or the
\* username its INSERT is to take, is in a version that d has not committed.
WaitsFor(c, d) ==
    \E p \in pending[d] :
        \/ /\ At(c, "query", "deposit") \/ At(c, "modify", "withdraw")
           /\ \E r \in Matched(c) : p.id = r.id
        \/ /\ At(c, "modify", "register") /\ UniqueUsername
           /\ p.id = d /\ p.username = request[c].username

\* Nobody waits in vain, and no two threads wait for each other: a thread is
\* waited for only when all that is left to it is its commit, or when it is gone
\* and the database has yet to drop its transaction.
WaitsEnd ==
    \A c, d \in Connections :
        WaitsFor(c, d) => pc[d] = "commit" \/ (pc[d] = "lost" /\ d \in inTxn)

\* verify_jwt_token returns the username of a valid token, and the empty string
\* only for an invalid one: a signed token that has not expired is not refused.
ValidTokenAccepted ==
    \A c \in Connections :
        request[c].token.kind = "signed" /\ now <= request[c].token.exp
            => response[c].status # 401
-------------------------------------------------------------------------------
(***************************************************************************)
(* The refinement of Ledger: the accounts are the committed rows.          *)
(***************************************************************************)

AccountsOf(table) ==
    [u \in {r.username : r \in table} |->
        LET row == CHOOSE r \in table : r.username = u
        IN  [password |-> row.password, balance |-> row.balance]]

Accounts == INSTANCE Ledger WITH
    accounts <- AccountsOf(users),
    InitialAccounts <- AccountsOf(InitialUsers),
    MayOverdraw <- ~OverdraftGuarded,
    Instants <- 0..(MaxTime + TokenLife)

\* With unique usernames, the interleaved transactions of the handlers look to
\* the clients as if every request took effect at one instant: server.cpp
\* implements Ledger.
ImplementsLedger == Accounts!Spec

\* Money is conserved: after any interleaving of handle_deposit and
\* handle_withdraw, crashes and failed commits included, every balance is what
\* the account started with plus the committed deposits minus the committed
\* withdrawals.
Conservation == Accounts!Conserved
===============================================================================
