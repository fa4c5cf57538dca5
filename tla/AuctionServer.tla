----------------------------- MODULE AuctionServer -----------------------------
(***************************************************************************)
(* server.cpp: an accept loop that gives every TCP connection a detached   *)
(* thread; the thread reads one request, runs the handler of its route     *)
(* against the users table, writes one response and closes.  The threads   *)
(* share nothing but the table, so their steps interleave at the           *)
(* statements of their transactions.                                       *)
(*                                                                         *)
(* pc[c] is where the thread of connection c stands:                       *)
(*   "idle"     not accepted yet           "modify"   before the write     *)
(*   "reading"  in http::read              "commit"   before W.commit()    *)
(*   "route"    request read               "respond"  before http::write   *)
(*   "query"    before the first statement "answered" response delivered   *)
(*   "lost"     ended without the client seeing a response                 *)
(***************************************************************************)
EXTENDS UsersTable

CONSTANTS
    Targets,        \* the request lines that clients send in this instance
    Amounts,        \* the amounts, in cents, that clients ask for
    Bodies,         \* may the body parse (TRUE), may it not (FALSE)
    InitialTokens,  \* the tokens that clients hold when the server starts
    TokenLife,      \* one hour, in ticks of the clock
    MaxTime,        \* bound on the clock
    Removable       \* the accounts an operator may delete by hand

ASSUME ServerAssumption ==
    /\ Targets \subseteq AllTargets
    /\ Amounts \subseteq Int
    /\ Bodies \subseteq BOOLEAN
    /\ InitialTokens \subseteq Token
    /\ TokenLife \in Nat
    /\ MaxTime \in Nat
    /\ Removable \subseteq Usernames

VARIABLES
    up,        \* is the server process running?
    now,       \* the system clock
    pc,
    request,   \* request[c]: what the thread read
    response   \* response[c]: the res that the handler returned

sessionVars == <<up, now, pc, request, response>>
vars == <<users, inTxn, snapshot, pending, committed, up, now, pc, request, response>>

Ended == {"answered", "lost"}
InFlight == {"reading", "route", "query", "modify", "commit", "respond"}

TypeOK ==
    /\ TableTypeOK
    /\ up \in BOOLEAN
    /\ now \in Nat
    /\ pc \in [Connections -> {"idle"} \cup InFlight \cup Ended]
    /\ request \in [Connections -> Request]
    /\ response \in [Connections -> Response]

Init ==
    /\ TableInit
    /\ up = TRUE
    /\ now = 0
    /\ pc = [c \in Connections |-> "idle"]
    /\ request = [c \in Connections |-> NoRequest]
    /\ response = [c \in Connections |-> NoResponse]
-------------------------------------------------------------------------------
(***************************************************************************)
(* Tokens.                                                                 *)
(***************************************************************************)

\* Mutant: set_expires_at is forgotten.
generate_without_expiry(u) == [kind |-> "signed", username |-> u]

generate_jwt_token(u) ==
    [kind |-> "signed", username |-> u, exp |-> now + TokenLife]

verify_jwt_token(t) ==
    IF t.kind = "signed" /\ now <= t.exp THEN t.username ELSE Empty

\* The tokens that a client can send.
KnownTokens ==
    InitialTokens \cup {response[c].token : c \in {d \in Connections : pc[d] = "answered"}}

Requests ==
    [target : Targets \cap CredentialTargets, token : {NoToken}, username : Usernames,
     password : Passwords, amount : {0}, wellFormed : Bodies]
    \cup
    [target : Targets \cap MoneyTargets, token : KnownTokens, username : {Empty},
     password : {Empty}, amount : Amounts, wellFormed : Bodies]
    \cup
    [target : Targets \ (CredentialTargets \cup MoneyTargets), token : KnownTokens,
     username : {Empty}, password : {Empty}, amount : {0}, wellFormed : {TRUE}]
-------------------------------------------------------------------------------
(***************************************************************************)
(* main and do_session.                                                    *)
(***************************************************************************)

Goto(c, label) == pc' = [pc EXCEPT ![c] = label]

Answer(c, status) ==
    /\ response' = [response EXCEPT ![c] = make_response(status)]
    /\ Goto(c, "respond")

Accept(c) ==
    /\ up
    /\ pc[c] = "idle"
    /\ Goto(c, "reading")
    /\ UNCHANGED <<tableVars, up, now, request, response>>

\* acceptor.accept or the std::thread constructor throws and main returns, or
\* an exception escapes a thread (sock.close() may throw) and std::terminate is
\* called: the process takes the detached threads with it.
ServerExits ==
    /\ up
    /\ up' = FALSE
    /\ pc' = [c \in Connections |-> IF pc[c] \in InFlight THEN "lost" ELSE pc[c]]
    /\ UNCHANGED <<tableVars, now, request, response>>

Restart ==
    /\ ~up
    /\ up' = TRUE
    /\ UNCHANGED <<tableVars, now, pc, request, response>>

ReadRequest(c) ==
    /\ pc[c] = "reading"
    /\ \E q \in Requests : request' = [request EXCEPT ![c] = q]
    /\ Goto(c, "route")
    /\ UNCHANGED <<tableVars, up, now, response>>

ReadFails(c) ==
    /\ pc[c] = "reading"
    /\ Goto(c, "lost")
    /\ UNCHANGED <<tableVars, up, now, request, response>>

Unauthorized(q) == q.target \in TokenTargets /\ verify_jwt_token(q.token) = Empty

Malformed(q) == q.target \in CredentialTargets \cup MoneyTargets /\ ~q.wellFormed

\* Mutant: zero passes.
NegativeOnly(q) == q.target \in MoneyTargets /\ q.amount < 0

NotPositive(q) == q.target \in MoneyTargets /\ q.amount <= 0

\* The status that is decided before the database is opened; 0 if none is.
EarlyStatus(q) ==
    CASE q.target \in UnknownTargets -> 404
      [] q.target = "otherMethod"   -> 405
      [] Unauthorized(q)             -> 401
      [] Malformed(q) /\ ~Unauthorized(q) -> 500
      [] NotPositive(q) /\ ~Malformed(q) /\ ~Unauthorized(q) -> 400
      [] OTHER -> 0

Route(c) ==
    /\ pc[c] = "route"
    /\ \/ /\ EarlyStatus(request[c]) = 0
          /\ Goto(c, "query")
          /\ UNCHANGED response
       \/ /\ EarlyStatus(request[c]) # 0
          /\ Answer(c, EarlyStatus(request[c]))
    /\ UNCHANGED <<tableVars, up, now, request>>

WriteResponse(c) ==
    /\ pc[c] = "respond"
    /\ Goto(c, "answered")
    /\ UNCHANGED <<tableVars, up, now, request, response>>

WriteFails(c) ==
    /\ pc[c] = "respond"
    /\ Goto(c, "lost")
    /\ UNCHANGED <<tableVars, up, now, request, response>>
-------------------------------------------------------------------------------
(***************************************************************************)
(* The handlers.                                                           *)
(***************************************************************************)

\* The thread of c is about to run its next statement, in this handler.
At(c, label, target) == pc[c] = label /\ request[c].target = target

\* What a SELECT ... WHERE username = $1 returns now.
Selected(c) == RowsOf(users, Account(request[c]))

\* Mutant: the result of the SELECT is not looked at.
RegisterUnchecked(c) ==
    /\ At(c, "query", "register")
    /\ BeginWithSelect(c)
    /\ Goto(c, "modify")
    /\ UNCHANGED <<up, now, request, response>>

RegisterSelect(c) ==
    /\ At(c, "query", "register")
    /\ \/ /\ Selected(c) # {}
          /\ Answer(c, 400)
          /\ UNCHANGED tableVars
       \/ /\ Selected(c) = {}
          /\ BeginWithSelect(c)
          /\ Goto(c, "modify")
          /\ UNCHANGED response
    /\ UNCHANGED <<up, now, request>>

NewRow(c) ==
    [id |-> c, username |-> request[c].username, password |-> request[c].password,
     balance |-> DefaultBalance, writer |-> c]

RegisterInsert(c) ==
    /\ At(c, "modify", "register")
    /\ ~KeyClaimed(c, request[c].username)
    /\ \/ /\ InsertRejected(request[c].username)
          /\ Rollback(c)
          /\ Answer(c, 500)
       \/ /\ ~InsertRejected(request[c].username)
          /\ WriteVersions(c, {NewRow(c)})
          /\ Goto(c, "commit")
          /\ UNCHANGED response
    /\ UNCHANGED <<up, now, request>>

\* result[0] is any of the rows, should there be several.
Login(c) ==
    /\ At(c, "query", "login")
    /\ \/ /\ Selected(c) = {}
          /\ Answer(c, 400)
       \/ \E r \in Selected(c) :
             \/ /\ r.password # request[c].password
                /\ Answer(c, 400)
             \/ /\ r.password = request[c].password
                /\ response' = [response EXCEPT ![c] =
                      [status |-> 200, balance |-> r.balance,
                       token |-> generate_jwt_token(request[c].username)]]
                /\ Goto(c, "respond")
    /\ UNCHANGED <<tableVars, up, now, request>>

Profile(c) ==
    /\ At(c, "query", "profile")
    /\ \/ /\ Selected(c) = {}
          /\ Answer(c, 404)
       \/ \E r \in Selected(c) :
             /\ response' = [response EXCEPT ![c] =
                   [status |-> 200, balance |-> r.balance, token |-> NoToken]]
             /\ Goto(c, "respond")
    /\ UNCHANGED <<tableVars, up, now, request>>

\* Mutant: the UPDATE has no WHERE clause.
EveryRow(c) == Visible(c)

\* Mutant: the UPDATE names the balance that the SELECT has read, as a guard
\* against races, and nobody asks whether it has matched.
MatchedIfUnchanged(c) ==
    {r \in RowsOf(Visible(c), Account(request[c])) :
        request[c].target = "withdraw" => r \in snapshot[c]}

\* UPDATE users SET balance = balance +/- $1 WHERE username = $2
Matched(c) == RowsOf(Visible(c), Account(request[c]))

\* Mutant: the new balance is computed from the one that the SELECT read.
NewBalanceFromRead(c, r) ==
    LET read == {s \in snapshot[c] : s.id = r.id}
    IN  (IF read = {} THEN r ELSE CHOOSE s \in read : TRUE).balance + Delta(request[c])

NewBalance(c, r) == r.balance + Delta(request[c])

NewVersions(c) ==
    {[r EXCEPT !.balance = NewBalance(c, r), !.writer = c] : r \in Matched(c)}

Update(c) ==
    /\ ~Locked(c, Matched(c))
    /\ \/ /\ UpdateRejected(Matched(c), NewVersions(c))
          /\ Rollback(c)
          /\ Answer(c, 500)
       \/ /\ ~UpdateRejected(Matched(c), NewVersions(c))
          /\ WriteVersions(c, NewVersions(c))
          /\ Goto(c, "commit")
          /\ UNCHANGED response
    /\ UNCHANGED <<up, now, request>>

DepositUpdate(c) == At(c, "query", "deposit") /\ Update(c)

\* Mutant: off by one cent.
AlmostInsufficientFunds(q, r) == r.balance + 1 < q.amount

InsufficientFunds(q, r) == r.balance < q.amount

WithdrawSelect(c) ==
    /\ At(c, "query", "withdraw")
    /\ \/ /\ Selected(c) = {}
          /\ Answer(c, 404)
          /\ UNCHANGED tableVars
       \/ \E r \in Selected(c) :
             \/ /\ InsufficientFunds(request[c], r)
                /\ Answer(c, 400)
                /\ UNCHANGED tableVars
             \/ /\ ~InsufficientFunds(request[c], r)
                /\ BeginWithSelect(c)
                /\ Goto(c, "modify")
                /\ UNCHANGED response
    /\ UNCHANGED <<up, now, request>>

WithdrawUpdate(c) == At(c, "modify", "withdraw") /\ Update(c)

\* Mutant: W.commit() is forgotten, and the destructor of W rolls back.
CommitForgotten(c) ==
    /\ pc[c] = "commit"
    /\ Rollback(c)
    /\ Answer(c, 200)
    /\ UNCHANGED <<up, now, request>>

Commit(c) ==
    /\ pc[c] = "commit"
    /\ CommitTxn(c)
    /\ Answer(c, 200)
    /\ UNCHANGED <<up, now, request>>

\* W.commit() throws although the database has committed.
CommitInDoubt(c) ==
    /\ pc[c] = "commit"
    /\ CommitTxn(c)
    /\ Answer(c, 500)
    /\ UNCHANGED <<up, now, request>>

\* Mutant: the exception leaves the transaction open.
LeakyDatabaseError(c) ==
    /\ pc[c] \in {"query", "modify", "commit"}
    /\ Answer(c, 500)
    /\ UNCHANGED <<tableVars, up, now, request>>

\* The connection cannot be opened, or a statement throws: stack unwinding
\* destroys W, which rolls back, and the catch block answers 500.
DatabaseError(c) ==
    /\ pc[c] \in {"query", "modify", "commit"}
    /\ Rollback(c)
    /\ Answer(c, 500)
    /\ UNCHANGED <<up, now, request>>

\* The database notices that the process of an open transaction is gone.
Reap(c) ==
    /\ pc[c] = "lost"
    /\ c \in inTxn
    /\ Rollback(c)
    /\ UNCHANGED sessionVars

RemoveAccount ==
    /\ \E u \in Removable : DeleteUser(u)
    /\ UNCHANGED sessionVars

Tick ==
    /\ now < MaxTime
    /\ now' = now + 1
    /\ UNCHANGED <<tableVars, up, pc, request, response>>

\* Every connection of the instance has been served.
Quiescent ==
    /\ \A c \in Connections : pc[c] \in Ended
    /\ UNCHANGED vars
-------------------------------------------------------------------------------
\* The steps that a thread takes by itself, when nothing fails.
SessionStep(c) ==
    \/ Route(c)
    \/ RegisterSelect(c) \/ RegisterInsert(c)
    \/ Login(c)
    \/ Profile(c)
    \/ DepositUpdate(c)
    \/ WithdrawSelect(c) \/ WithdrawUpdate(c)
    \/ Commit(c)
    \/ WriteResponse(c)

Fault(c) ==
    \/ ReadFails(c) \/ DatabaseError(c) \/ CommitInDoubt(c) \/ WriteFails(c)

Next ==
    \/ \E c \in Connections :
          \/ Accept(c) \/ ReadRequest(c) \/ SessionStep(c) \/ Fault(c) \/ Reap(c)
    \/ ServerExits \/ Restart
    \/ RemoveAccount
    \/ Tick
    \/ Quiescent

Spec == Init /\ [][Next]_vars

\* The operating system schedules every thread, and the database answers every
\* statement and drops the transactions of a dead process.  Nothing obliges a
\* client to send its request, or a fault to happen.
Fairness == \A c \in Connections : WF_vars(SessionStep(c)) /\ WF_vars(Reap(c))

FairSpec == Spec /\ Fairness
===============================================================================
