-------------------------------- MODULE Ledger --------------------------------
(***************************************************************************)
(* What server.cpp promises its clients, without threads, statements or    *)
(* locks: accounts on which every request takes effect at one instant, at  *)
(* most once, and is answered truthfully.  A 200 reports an effect, a 4xx  *)
(* a refusal that was justified when it was decided and that left no       *)
(* trace; only a 500 (or no answer) leaves the client in doubt.  Accounts  *)
(* are never closed, so a token that verifies always finds its account.    *)
(***************************************************************************)
EXTENDS Messages, Functions

CONSTANTS
    Connections,
    InitialAccounts,
    DefaultBalance,
    MayOverdraw,      \* may a withdrawal take more than the account holds?
    Instants          \* the times at which a token may expire

VARIABLES
    accounts,    \* the registered usernames, with password and balance
    request,
    response,
    committed    \* the requests that have taken effect

vars == <<accounts, request, response, committed>>

Init ==
    /\ accounts = InitialAccounts
    /\ request = [c \in Connections |-> NoRequest]
    /\ response = [c \in Connections |-> NoResponse]
    /\ committed = {}

Registered(u) == u \in DOMAIN accounts

Receive(c) ==
    /\ request[c] = NoRequest
    /\ request'[c] \in Request
    /\ request' = [request EXCEPT ![c] = request'[c]]
    /\ UNCHANGED <<accounts, response, committed>>

\* Every request is answered once.
Reply(c, r) ==
    /\ request[c] # NoRequest
    /\ response[c] = NoResponse
    /\ response' = [response EXCEPT ![c] = r]

Register(c) ==
    LET u == request[c].username
        account == [password |-> request[c].password, balance |-> DefaultBalance]
    IN  /\ request[c].target = "register"
        /\ ~Registered(u)
        /\ accounts' = [v \in DOMAIN accounts \cup {u} |->
                           IF v = u THEN account ELSE accounts[v]]

Covered(q, u) ==
    q.target = "withdraw" /\ ~MayOverdraw => q.amount <= accounts[u].balance

MoveMoney(c) ==
    LET u == Account(request[c])
    IN  /\ request[c].target \in MoneyTargets
        /\ request[c].amount > 0
        /\ Registered(u)
        /\ Covered(request[c], u)
        /\ accounts' = [accounts EXCEPT ![u].balance = @ + Delta(request[c])]

Effect(c) ==
    /\ c \notin committed
    /\ committed' = committed \cup {c}
    /\ Register(c) \/ MoveMoney(c)
    /\ \E status \in {200, 500} : Reply(c, make_response(status))
    /\ UNCHANGED request

LoginAccepted(q) ==
    Registered(q.username) /\ accounts[q.username].password = q.password

Show(c) ==
    LET u == Account(request[c])
    IN  /\ Registered(u)
        /\ \/ /\ request[c].target = "login"
              /\ LoginAccepted(request[c])
              /\ \E exp \in Instants :
                    Reply(c, [status |-> 200, balance |-> accounts[u].balance,
                              token |-> [kind |-> "signed", username |-> u, exp |-> exp]])
           \/ /\ request[c].target = "profile"
              /\ Reply(c, [status |-> 200, balance |-> accounts[u].balance,
                           token |-> NoToken])
        /\ UNCHANGED <<accounts, request, committed>>

\* The reasons for which a request may be refused with each status.
BadRequest(q) ==
    \/ q.target = "register" /\ Registered(q.username)
    \/ q.target = "login" /\ ~LoginAccepted(q)
    \/ q.target \in MoneyTargets /\ q.amount <= 0
    \/ /\ q.target = "withdraw"
       /\ Registered(Account(q))
       /\ q.amount > accounts[Account(q)].balance

Justified(q, status) ==
    \/ status = 400 /\ BadRequest(q)
    \/ status = 401 /\ q.target \in TokenTargets
    \/ status = 404 /\ q.target \in UnknownTargets
    \/ status = 405 /\ q.target = "otherMethod"
    \/ status = 500

Refuse(c) ==
    /\ c \notin committed
    /\ \E status \in Statuses :
          Justified(request[c], status) /\ Reply(c, make_response(status))
    /\ UNCHANGED <<accounts, request, committed>>

Next == \E c \in Connections : Receive(c) \/ Effect(c) \/ Show(c) \/ Refuse(c)

Spec == Init /\ [][Next]_vars
-------------------------------------------------------------------------------
\* Money is conserved: every balance is what its account was opened with, plus
\* the deposits that have taken effect, minus the withdrawals.
Opening(u) ==
    IF u \in DOMAIN InitialAccounts THEN InitialAccounts[u].balance ELSE DefaultBalance

Deltas == [c \in Connections |-> Delta(request[c])]

Effects(u) == {c \in committed : Account(request[c]) = u}

Conserved ==
    \A u \in DOMAIN accounts :
        accounts[u].balance = Opening(u) + SumFunctionOnSet(Deltas, Effects(u))
===============================================================================
