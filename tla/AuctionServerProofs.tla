--------------------------- MODULE AuctionServerProofs ---------------------------
(***************************************************************************)
(* Proofs of the safety properties of AuctionServerProps, for every number *)
(* of connections, every set of accounts and amounts, and both isolation   *)
(* levels.                                                                 *)
(*                                                                         *)
(* The invariant comes in two layers.  SessionInv says what a thread has   *)
(* and has not done yet, at each of its labels; it does not look into the  *)
(* rows.  TableInv says what the rows and the uncommitted versions have to *)
(* do with each other and with the requests; its proof assumes SessionInv. *)
(***************************************************************************)
EXTENDS AuctionServerProps, TLAPS

BeforeTxn == {"idle", "reading", "route", "query"}
BeforeAnswer == BeforeTxn \cup {"modify", "commit"}

\* A request that names an account in its body names it by a possible
\* username, and a money request past the early returns asks for something.
RequestInv ==
    \A c \in Connections :
        /\ request[c].target \in CredentialTargets =>
              request[c].username \in Usernames /\ request[c].password \in Passwords
        /\ request[c].target \in MoneyTargets
              /\ (pc[c] \in {"query", "modify"} \/ pending[c] # {})
              => request[c].amount > 0

\* A transaction is open only between its first statement and its end, has
\* written only what it is about to commit, and commits once.
PhaseInv ==
    \A c \in Connections :
        /\ pc[c] \in BeforeTxn => c \notin inTxn /\ snapshot[c] = {}
        /\ pc[c] = "modify" => c \in inTxn
        /\ pc[c] \in BeforeAnswer => c \notin committed /\ response[c].status = 0
        /\ pending[c] # {} => pc[c] \in {"commit", "lost"} /\ c \notin committed

SessionInv == TypeOK /\ RequestInv /\ PhaseInv /\ TruthfulAnswer

\* user_id is a key of the table, and the id of an inserted row is used only
\* after the transaction that inserts it.
KeyInv ==
    /\ \A r, s \in users : r.id = s.id => r = s
    /\ \A r \in users : r.id \in Connections => r.id \in committed

\* What an uncommitted version is: the row that handle_register inserts, or a
\* row of the table moved by the amount of the request.
Inserted(c, v) ==
    /\ request[c].target = "register"
    /\ v.id = c
    /\ v.username = request[c].username
    /\ v.balance = DefaultBalance

Moved(c, v) ==
    /\ request[c].target \in MoneyTargets
    /\ \E r \in users :
          /\ r.id = v.id
          /\ r.username = v.username
          /\ v.username = Account(request[c])
          /\ v.balance = r.balance + Delta(request[c])

VersionInv == \A c \in Connections : \A v \in pending[c] : Inserted(c, v) \/ Moved(c, v)

\* A row has at most one uncommitted version: that is the row lock.
LockInv ==
    \A c, d \in Connections : \A v \in pending[c], w \in pending[d] :
        v.id = w.id => c = d /\ v = w

\* With the UNIQUE constraint, a username is on one row, and on that only.
UniqueInv ==
    UniqueUsername =>
        /\ \A r, s \in users : r.username = s.username => r = s
        /\ \A c \in Connections : \A v \in pending[c] :
              v.id = c =>
                 /\ \A r \in users : r.username # v.username
                 /\ \A d \in Connections : \A w \in pending[d] :
                       w.id = d /\ w.username = v.username => c = d

\* What the SELECT of a writing handler has established about its snapshot.
CheckedInv ==
    \A c \in Connections : \A r \in snapshot[c] :
        r.username = Account(request[c]) =>
            /\ request[c].target # "register"
            /\ request[c].target = "withdraw" /\ UniqueUsername
                  => r.balance >= request[c].amount

\* When the database guards the balance, no version is below zero, committed
\* or not.
CoveredInv ==
    OverdraftGuarded =>
        /\ \A r \in users : r.balance >= 0
        /\ \A c \in Connections : \A v \in pending[c] : v.balance >= 0

TableInv == KeyInv /\ VersionInv /\ LockInv /\ UniqueInv /\ CheckedInv /\ CoveredInv
-------------------------------------------------------------------------------
(***************************************************************************)
(* The first layer: what every thread is doing.                            *)
(***************************************************************************)

\* Clients send requests of the right shape: the tokens they hold are the ones
\* they started with and those that handle_login gave them.
LEMMA RequestsTyped ==
    ASSUME TypeOK, NEW q \in Requests
    PROVE  /\ q \in Request
           /\ q.target \in CredentialTargets =>
                 q.username \in Usernames /\ q.password \in Passwords
<1>1. KnownTokens \subseteq Token
  BY ServerAssumption DEF KnownTokens, TypeOK, Response
<1>2. NoToken \in Token
  BY DEF NoToken, Token
<1>3. Amounts \subseteq Int /\ Targets \subseteq AllTargets /\ Bodies \subseteq BOOLEAN
  BY ServerAssumption
<1>4. CASE q \in [target : Targets \cap CredentialTargets, token : {NoToken},
                  username : Usernames, password : Passwords, amount : {0},
                  wellFormed : Bodies]
  BY <1>2, <1>3, <1>4 DEF Request
<1>5. CASE q \in [target : Targets \cap MoneyTargets, token : KnownTokens,
                  username : {Empty}, password : {Empty}, amount : Amounts,
                  wellFormed : Bodies]
  BY <1>1, <1>3, <1>5 DEF Request, CredentialTargets, MoneyTargets
<1>6. CASE q \in [target : Targets \ (CredentialTargets \cup MoneyTargets),
                  token : KnownTokens, username : {Empty}, password : {Empty},
                  amount : {0}, wellFormed : {TRUE}]
  <2>1. q.target \in AllTargets \ CredentialTargets /\ q.token \in Token
    BY <1>1, <1>3, <1>6
  <2>2. q.username = Empty /\ q.password = Empty /\ q.amount = 0
    BY <1>6
  <2>3. q.wellFormed \in {TRUE}
    BY <1>6
  <2>4. q.wellFormed \in BOOLEAN
    BY <2>3
  <2> QED
    BY <1>6, <2>1, <2>2, <2>4 DEF Request
<1> QED
  BY <1>4, <1>5, <1>6 DEF Requests

\* The initial state satisfies the first layer.
LEMMA SessionInit == Init => SessionInv
<1> SUFFICES ASSUME Init PROVE SessionInv
  OBVIOUS
<1>1. TypeOK
  <2>1. NoRequest \in Request /\ NoResponse \in Response
    BY DEF NoRequest, Request, AllTargets, NoToken, Token, NoResponse, Response, Statuses
  <2> QED
    BY <2>1, InitialUsersAssumption DEF Init, TableInit, TypeOK, TableTypeOK
<1>2. RequestInv /\ PhaseInv /\ TruthfulAnswer
  BY DEF Init, TableInit, RequestInv, PhaseInv, TruthfulAnswer, NoRequest, NoResponse,
         CredentialTargets, MoneyTargets, BeforeTxn, BeforeAnswer
<1> QED
  BY <1>1, <1>2 DEF SessionInv

\* The step of the type invariant, one action at a time.
LEMMA StatusesTyped ==
    200 \in Statuses /\ 400 \in Statuses /\ 404 \in Statuses /\ 500 \in Statuses
BY DEF Statuses

LEMMA AnswerTyped ==
    ASSUME TypeOK, NEW c \in Connections, NEW status \in Statuses, Answer(c, status)
    PROVE  pc' \in [Connections -> {"idle"} \cup InFlight \cup Ended]
           /\ response' \in [Connections -> Response]
<1>1. make_response(status) \in Response
  BY DEF make_response, Response, NoToken, Token
<1> QED
  BY <1>1 DEF TypeOK, Answer, Goto, InFlight

LEMMA TableStepsTyped ==
    ASSUME TableTypeOK, NEW c \in Connections,
           \/ UNCHANGED tableVars
           \/ BeginWithSelect(c) \/ Rollback(c) \/ CommitTxn(c)
           \/ \E u \in Usernames : DeleteUser(u)
           \/ \E versions \in SUBSET Row : WriteVersions(c, versions)
    PROVE  TableTypeOK'
BY DEF TableTypeOK, tableVars, BeginWithSelect, Rollback, CommitTxn, EndTxn,
       DeleteUser, WriteVersions

\* What a request adds, in its three cases.
LEMMA DeltaCases ==
    ASSUME NEW q
    PROVE  /\ q.target = "deposit" => Delta(q) = q.amount
           /\ q.target = "withdraw" => Delta(q) = 0 - q.amount
           /\ q.target \notin MoneyTargets => Delta(q) = 0
<1>1. q.target = "deposit" => Delta(q) = q.amount
  BY DEF Delta
<1>2. q.target = "withdraw" => Delta(q) = 0 - q.amount
  BY DEF Delta
<1>3. q.target \notin MoneyTargets => Delta(q) = 0
  BY DEF Delta, MoneyTargets
<1> QED
  BY <1>1, <1>2, <1>3

LEMMA DeltaTyped ==
    ASSUME NEW q, q.amount \in Int
    PROVE  Delta(q) \in Int
<1>1. CASE q.target = "deposit"
  BY <1>1 DEF Delta
<1>2. CASE q.target = "withdraw"
  <2>1. Delta(q) = 0 - q.amount
    BY <1>2, DeltaCases
  <2>2. 0 - q.amount \in Int
    OBVIOUS
  <2> QED
    BY <2>1, <2>2
<1>3. CASE q.target \notin MoneyTargets
  <2>1. Delta(q) = 0
    BY <1>3, DeltaCases
  <2> QED
    BY <2>1
<1> QED
  BY <1>1, <1>2, <1>3 DEF MoneyTargets

LEMMA UpdateTyped ==
    ASSUME TypeOK, NEW c \in Connections
    PROVE  NewVersions(c) \in SUBSET Row
<1>1. Matched(c) \subseteq Row
  BY DEF Matched, RowsOf, Visible, TypeOK, TableTypeOK
<1>2. Delta(request[c]) \in Int
  <2>1. request[c].amount \in Int
    BY DEF TypeOK, Request
  <2> QED
    BY <2>1, DeltaTyped
<1>3. ASSUME NEW r \in Row
      PROVE  [r EXCEPT !.balance = NewBalance(c, r), !.writer = c] \in Row
  <2>1. NewBalance(c, r) \in Int
    BY <1>2 DEF NewBalance, Row
  <2>2. c \in RowIds
    BY DEF RowIds
  <2> QED
    BY <2>1, <2>2 DEF Row
<1> QED
  BY <1>1, <1>3 DEF NewVersions

LEMMA UpdateKeepsTypes ==
    ASSUME TypeOK, NEW c \in Connections, Update(c)
    PROVE  TypeOK'
<1>1. up' = up /\ now' = now /\ request' = request
  BY DEF Update
<1>2. CASE Rollback(c) /\ Answer(c, 500)
  <2>1. TableTypeOK'
    BY <1>2, TableStepsTyped DEF TypeOK
  <2>2. pc' \in [Connections -> {"idle"} \cup InFlight \cup Ended]
        /\ response' \in [Connections -> Response]
    BY <1>2, AnswerTyped DEF Statuses
  <2> QED
    BY <1>1, <2>1, <2>2 DEF TypeOK
<1>3. CASE WriteVersions(c, NewVersions(c)) /\ Goto(c, "commit") /\ UNCHANGED response
  <2>1. TableTypeOK'
    BY <1>3, TableStepsTyped, UpdateTyped DEF TypeOK
  <2> QED
    BY <1>1, <1>3, <2>1 DEF TypeOK, Goto, InFlight
<1> QED
  BY <1>2, <1>3 DEF Update

\* Every step keeps the types.  handle_register needs for it that its request
\* names a possible username: the type invariant is not inductive alone.
LEMMA TypeNext ==
    ASSUME TypeOK, RequestInv, [Next]_vars
    PROVE  TypeOK'
<1> USE DEF TypeOK, sessionVars
<1>1. CASE UNCHANGED vars
  BY <1>1 DEF vars, TableTypeOK
<1>2. ASSUME NEW c \in Connections, Accept(c) \/ ReadFails(c) \/ WriteResponse(c) \/ WriteFails(c)
      PROVE  TypeOK'
  BY <1>2, TableStepsTyped
  DEF Accept, ReadFails, WriteResponse, WriteFails, Goto, InFlight, Ended
<1>3. ASSUME NEW c \in Connections, ReadRequest(c) PROVE TypeOK'
  BY <1>3, TableStepsTyped, RequestsTyped DEF ReadRequest, Goto, InFlight
<1>4. ASSUME NEW c \in Connections, Route(c) PROVE TypeOK'
  <2>1. EarlyStatus(request[c]) \in Statuses \cup {0}
    BY DEF EarlyStatus, Statuses
  <2>2. TableTypeOK'
    BY <1>4, TableStepsTyped DEF Route
  <2> QED
    BY <1>4, <2>1, <2>2, AnswerTyped DEF Route, Goto, InFlight
<1>5. ASSUME NEW c \in Connections, RegisterSelect(c) PROVE TypeOK'
  <2>1. TableTypeOK'
    BY <1>5, TableStepsTyped DEF RegisterSelect
  <2> QED
    BY <1>5, <2>1, AnswerTyped, StatusesTyped DEF RegisterSelect, Goto, InFlight
<1>6. ASSUME NEW c \in Connections, RegisterInsert(c) PROVE TypeOK'
  <2>a. request[c].username \in Usernames /\ request[c].password \in Passwords
    BY <1>6 DEF RegisterInsert, At, RequestInv, CredentialTargets
  <2>b. c \in RowIds
    BY DEF RowIds
  <2>c. DefaultBalance \in Int
    <3>1. DefaultBalance \in Nat
      BY TableAssumption, Zenon
    <3> QED
      BY <3>1
  <2>1. {NewRow(c)} \in SUBSET Row
    BY <2>a, <2>b, <2>c DEF NewRow, Row
  <2>2. TableTypeOK'
    BY <1>6, <2>1, TableStepsTyped DEF RegisterInsert
  <2> QED
    BY <1>6, <2>2, AnswerTyped, StatusesTyped DEF RegisterInsert, Goto, InFlight
<1>7. ASSUME NEW c \in Connections, Login(c) PROVE TypeOK'
  <2>1. TableTypeOK'
    BY <1>7, TableStepsTyped DEF Login
  <2>2. CASE Answer(c, 400)
    BY <1>7, <2>1, <2>2, AnswerTyped, StatusesTyped DEF Login
  <2>3. ASSUME NEW r \in Selected(c),
               response' = [response EXCEPT ![c] =
                  [status |-> 200, balance |-> r.balance,
                   token |-> generate_jwt_token(request[c].username)]],
               Goto(c, "respond")
        PROVE  TypeOK'
    <3>1. r.balance \in Int
      BY DEF Selected, RowsOf, TableTypeOK, Row
    <3>2. generate_jwt_token(request[c].username) \in Token
      BY ServerAssumption DEF generate_jwt_token, Token, Request
    <3>3. response'[c] \in Response
      BY <2>3, <3>1, <3>2 DEF Response, Statuses
    <3> QED
      BY <1>7, <2>1, <2>3, <3>3 DEF Login, Goto, InFlight
  <2> QED
    BY <1>7, <2>2, <2>3 DEF Login
<1>8. ASSUME NEW c \in Connections, Profile(c) PROVE TypeOK'
  <2>1. TableTypeOK'
    BY <1>8, TableStepsTyped DEF Profile
  <2>2. CASE Answer(c, 404)
    BY <1>8, <2>1, <2>2, AnswerTyped, StatusesTyped DEF Profile
  <2>3. ASSUME NEW r \in Selected(c),
               response' = [response EXCEPT ![c] =
                  [status |-> 200, balance |-> r.balance, token |-> NoToken]],
               Goto(c, "respond")
        PROVE  TypeOK'
    <3>1. r.balance \in Int
      BY DEF Selected, RowsOf, TableTypeOK, Row
    <3>2. response'[c] \in Response
      BY <2>3, <3>1 DEF Response, Statuses, NoToken, Token
    <3> QED
      BY <1>8, <2>1, <2>3, <3>2 DEF Profile, Goto, InFlight
  <2> QED
    BY <1>8, <2>2, <2>3 DEF Profile
<1>9. ASSUME NEW c \in Connections, DepositUpdate(c) \/ WithdrawUpdate(c) PROVE TypeOK'
  BY <1>9, UpdateKeepsTypes DEF DepositUpdate, WithdrawUpdate
<1>10. ASSUME NEW c \in Connections, WithdrawSelect(c) PROVE TypeOK'
  <2>1. TableTypeOK'
    BY <1>10, TableStepsTyped DEF WithdrawSelect
  <2> QED
    BY <1>10, <2>1, AnswerTyped, StatusesTyped DEF WithdrawSelect, Goto, InFlight
<1>11. ASSUME NEW c \in Connections, Commit(c) \/ CommitInDoubt(c) PROVE TypeOK'
  BY <1>11, TableStepsTyped, AnswerTyped, StatusesTyped DEF Commit, CommitInDoubt
<1>12. ASSUME NEW c \in Connections, DatabaseError(c) PROVE TypeOK'
  BY <1>12, TableStepsTyped, AnswerTyped, StatusesTyped DEF DatabaseError
<1>13. ASSUME NEW c \in Connections, Reap(c) PROVE TypeOK'
  BY <1>13, TableStepsTyped DEF Reap
<1>14. CASE ServerExits \/ Restart \/ Tick
  <2>1. TableTypeOK'
    BY <1>14 DEF ServerExits, Restart, Tick, tableVars, TableTypeOK
  <2>2. CASE ServerExits
    <3>1. pc' \in [Connections -> {"idle"} \cup InFlight \cup Ended]
      BY <2>2 DEF ServerExits, Ended
    <3> QED
      BY <2>1, <2>2, <3>1 DEF ServerExits
  <2>3. CASE Restart
    <3>1. up' \in BOOLEAN
      BY <2>3 DEF Restart
    <3> QED
      BY <2>1, <2>3, <3>1 DEF Restart
  <2>4. CASE Tick
    BY <2>1, <2>4 DEF Tick
  <2> QED
    BY <1>14, <2>2, <2>3, <2>4
<1>15. CASE RemoveAccount
  BY <1>15 DEF RemoveAccount, DeleteUser, TableTypeOK
<1>16. CASE Quiescent
  BY <1>1, <1>16 DEF Quiescent
<1> QED
  BY <1>1, <1>2, <1>3, <1>4, <1>5, <1>6, <1>7, <1>8, <1>9, <1>10, <1>11, <1>12,
     <1>13, <1>14, <1>15, <1>16
  DEF Next, SessionStep, Fault

\* Past its early returns a money request asks for a positive amount.
LEMMA EarlyReturns ==
    ASSUME NEW q, q.target \notin UnknownTargets, q.target # "otherMethod",
           EarlyStatus(q) = 0
    PROVE  ~Unauthorized(q) /\ ~Malformed(q) /\ ~NotPositive(q)
<1>1. ASSUME Unauthorized(q) PROVE FALSE
  BY <1>1 DEF EarlyStatus, Unauthorized
<1>2. ASSUME Malformed(q) PROVE FALSE
  BY <1>1, <1>2 DEF EarlyStatus, Unauthorized, Malformed
<1>3. ASSUME NotPositive(q) PROVE FALSE
  BY <1>1, <1>2, <1>3 DEF EarlyStatus, Unauthorized, Malformed, NotPositive
<1> QED
  BY <1>1, <1>2, <1>3

LEMMA PositiveAmount ==
    ASSUME TypeOK, NEW c \in Connections, EarlyStatus(request[c]) = 0,
           request[c].target \in MoneyTargets
    PROVE  request[c].amount > 0
<1>1. request[c].amount \in Int
  BY DEF TypeOK, Request
<1>2. request[c].target \notin UnknownTargets /\ request[c].target # "otherMethod"
  BY DEF MoneyTargets, UnknownTargets
<1>3. ~NotPositive(request[c])
  BY <1>2, EarlyReturns
<1> QED
  BY <1>1, <1>3 DEF NotPositive

LEMMA RequestNext ==
    ASSUME TypeOK, RequestInv, PhaseInv, [Next]_vars
    PROVE  RequestInv'
<1> USE DEF RequestInv
<1>1. CASE UNCHANGED vars
  BY <1>1 DEF vars
<1>2. ASSUME NEW c \in Connections, Accept(c) \/ ReadFails(c) \/ WriteResponse(c) \/ WriteFails(c)
      PROVE  RequestInv'
  BY <1>2 DEF Accept, ReadFails, WriteResponse, WriteFails, Goto, tableVars, TypeOK
<1>3. ASSUME NEW c \in Connections, ReadRequest(c) PROVE RequestInv'
  BY <1>3, RequestsTyped DEF ReadRequest, Goto, tableVars, TypeOK, PhaseInv
<1>4. ASSUME NEW c \in Connections, Route(c) PROVE RequestInv'
  BY <1>4, PositiveAmount DEF Route, Goto, Answer, tableVars, TypeOK
<1>5. ASSUME NEW c \in Connections,
             Login(c) \/ Profile(c) \/ RegisterSelect(c) \/ WithdrawSelect(c)
      PROVE  RequestInv'
  BY <1>5
  DEF Login, Profile, RegisterSelect, WithdrawSelect, BeginWithSelect, Goto, Answer,
      tableVars, TypeOK, TableTypeOK, At, MoneyTargets
<1>6. ASSUME NEW c \in Connections,
             RegisterInsert(c) \/ DepositUpdate(c) \/ WithdrawUpdate(c)
      PROVE  RequestInv'
  BY <1>6
  DEF RegisterInsert, DepositUpdate, WithdrawUpdate, Update, Rollback, EndTxn,
      WriteVersions, Goto, Answer, TypeOK, TableTypeOK, At, MoneyTargets
<1>7. ASSUME NEW c \in Connections,
             Commit(c) \/ CommitInDoubt(c) \/ DatabaseError(c) \/ Reap(c)
      PROVE  RequestInv'
  BY <1>7
  DEF Commit, CommitInDoubt, DatabaseError, Reap, CommitTxn, Rollback, EndTxn, Answer, Goto,
      sessionVars, TypeOK, TableTypeOK
<1>8. CASE ServerExits \/ Restart \/ Tick \/ RemoveAccount \/ Quiescent
  BY <1>8
  DEF ServerExits, Restart, Tick, RemoveAccount, DeleteUser, Quiescent, vars, tableVars,
      sessionVars, TypeOK
<1> QED
  BY <1>1, <1>2, <1>3, <1>4, <1>5, <1>6, <1>7, <1>8 DEF Next, SessionStep, Fault

\* The phases: each action moves one thread along its labels, and touches the
\* transaction of no other.
LEMMA PhaseNext ==
    ASSUME TypeOK, PhaseInv, [Next]_vars
    PROVE  PhaseInv'
<1> USE DEF PhaseInv, BeforeTxn, BeforeAnswer
<1>1. CASE UNCHANGED vars
  BY <1>1 DEF vars
<1>2. ASSUME NEW c \in Connections,
             Accept(c) \/ ReadRequest(c) \/ ReadFails(c) \/ WriteResponse(c) \/ WriteFails(c)
      PROVE  PhaseInv'
  BY <1>2 DEF Accept, ReadRequest, ReadFails, WriteResponse, WriteFails, Goto, tableVars, TypeOK
<1>3. ASSUME NEW c \in Connections, Route(c) \/ Login(c) \/ Profile(c) PROVE PhaseInv'
  BY <1>3 DEF Route, Login, Profile, Goto, Answer, tableVars, TypeOK, At
<1>4. ASSUME NEW c \in Connections, RegisterSelect(c) \/ WithdrawSelect(c) PROVE PhaseInv'
  BY <1>4
  DEF RegisterSelect, WithdrawSelect, BeginWithSelect, Goto, Answer, tableVars, TypeOK,
      TableTypeOK, At
<1>5. ASSUME NEW c \in Connections,
             RegisterInsert(c) \/ DepositUpdate(c) \/ WithdrawUpdate(c)
      PROVE  PhaseInv'
  BY <1>5
  DEF RegisterInsert, DepositUpdate, WithdrawUpdate, Update, Rollback, EndTxn,
      WriteVersions, Goto, Answer, TypeOK, TableTypeOK, At
<1>6. ASSUME NEW c \in Connections,
             Commit(c) \/ CommitInDoubt(c) \/ DatabaseError(c) \/ Reap(c)
      PROVE  PhaseInv'
  BY <1>6
  DEF Commit, CommitInDoubt, DatabaseError, Reap, CommitTxn, Rollback, EndTxn, Answer, Goto,
      sessionVars, TypeOK, TableTypeOK
<1>7. CASE ServerExits
  BY <1>7 DEF ServerExits, tableVars, TypeOK, InFlight
<1>8. CASE Restart \/ Tick \/ RemoveAccount \/ Quiescent
  BY <1>8
  DEF Restart, Tick, RemoveAccount, DeleteUser, Quiescent, vars, tableVars, sessionVars
<1> QED
  BY <1>1, <1>2, <1>3, <1>4, <1>5, <1>6, <1>7, <1>8 DEF Next, SessionStep, Fault

\* The answers: 200 is given to a writing handler by Commit alone, and 4xx
\* only before the commit.
LEMMA TruthNext ==
    ASSUME TypeOK, PhaseInv, TruthfulAnswer, [Next]_vars
    PROVE  TruthfulAnswer'
<1> USE DEF TruthfulAnswer, PhaseInv, BeforeTxn, BeforeAnswer
<1>1. CASE UNCHANGED vars
  BY <1>1 DEF vars
<1>2. ASSUME NEW c \in Connections,
             Accept(c) \/ ReadRequest(c) \/ ReadFails(c) \/ WriteResponse(c) \/ WriteFails(c)
      PROVE  TruthfulAnswer'
  BY <1>2 DEF Accept, ReadRequest, ReadFails, WriteResponse, WriteFails, Goto, tableVars, TypeOK
<1>3. ASSUME NEW c \in Connections, Route(c) PROVE TruthfulAnswer'
  <2>1. EarlyStatus(request[c]) # 200
    BY DEF EarlyStatus
  <2> QED
    BY <1>3, <2>1 DEF Route, Goto, Answer, make_response, tableVars, TypeOK
<1>4. ASSUME NEW c \in Connections, Login(c) \/ Profile(c) PROVE TruthfulAnswer'
  BY <1>4 DEF Login, Profile, Goto, Answer, make_response, tableVars, TypeOK, At, MoneyTargets
<1>5. ASSUME NEW c \in Connections, RegisterSelect(c) \/ WithdrawSelect(c)
      PROVE  TruthfulAnswer'
  BY <1>5
  DEF RegisterSelect, WithdrawSelect, BeginWithSelect, Goto, Answer, make_response,
      tableVars, TypeOK, TableTypeOK, At
<1>6. ASSUME NEW c \in Connections,
             RegisterInsert(c) \/ DepositUpdate(c) \/ WithdrawUpdate(c)
      PROVE  TruthfulAnswer'
  BY <1>6
  DEF RegisterInsert, DepositUpdate, WithdrawUpdate, Update, Rollback, EndTxn,
      WriteVersions, Goto, Answer, make_response, TypeOK, TableTypeOK, At
<1>7. ASSUME NEW c \in Connections,
             Commit(c) \/ CommitInDoubt(c) \/ DatabaseError(c) \/ Reap(c)
      PROVE  TruthfulAnswer'
  BY <1>7
  DEF Commit, CommitInDoubt, DatabaseError, Reap, CommitTxn, Rollback, EndTxn, Answer,
      make_response, Goto, sessionVars, TypeOK, TableTypeOK
<1>8. CASE ServerExits \/ Restart \/ Tick \/ RemoveAccount \/ Quiescent
  BY <1>8
  DEF ServerExits, Restart, Tick, RemoveAccount, DeleteUser, Quiescent, vars, tableVars,
      sessionVars
<1> QED
  BY <1>1, <1>2, <1>3, <1>4, <1>5, <1>6, <1>7, <1>8 DEF Next, SessionStep, Fault

LEMMA SessionNext == SessionInv /\ [Next]_vars => SessionInv'
BY TypeNext, RequestNext, PhaseNext, TruthNext DEF SessionInv

LEMMA SessionInvariant == Spec => []SessionInv
BY SessionInit, SessionNext, PTL DEF Spec

\* The variables of server.cpp and of its table stay in their types.
THEOREM TypeCorrect == Spec => []TypeOK
<1>1. SessionInv => TypeOK
  BY DEF SessionInv
<1> QED
  BY <1>1, SessionInvariant, PTL

\* A 200 of handle_register, handle_deposit or handle_withdraw means that its
\* transaction committed, and a 4xx that it did not, in every interleaving and
\* whatever fails.
THEOREM AnswersAreTruthful == Spec => []TruthfulAnswer
<1>1. SessionInv => TruthfulAnswer
  BY DEF SessionInv
<1> QED
  BY <1>1, SessionInvariant, PTL

-------------------------------------------------------------------------------
(***************************************************************************)
(* The second layer: the rows and the uncommitted versions.  The steps are *)
(* those of the table; the actions of the threads are made of them.        *)
(***************************************************************************)

LEMMA TableInvInit == Init => TableInv
<1> SUFFICES ASSUME Init PROVE TableInv
  OBVIOUS
<1>1. KeyInv
  BY InitialUsersAssumption DEF Init, TableInit, KeyInv
<1>2. VersionInv /\ LockInv /\ CheckedInv
  BY DEF Init, TableInit, VersionInv, LockInv, CheckedInv
<1>3. UniqueInv /\ CoveredInv
  BY InitialUsersAssumption DEF Init, TableInit, UniqueInv, CoveredInv
<1> QED
  BY <1>1, <1>2, <1>3 DEF TableInv

\* A step that touches neither the table nor a request.
LEMMA TableUnchanged ==
    ASSUME TableInv, UNCHANGED <<users, snapshot, pending, committed, request>>
    PROVE  TableInv'
BY DEF TableInv, KeyInv, VersionInv, Inserted, Moved, LockInv, UniqueInv, CheckedInv,
       CoveredInv

\* A new request finds no trace of its transaction.
LEMMA TableReadRequest ==
    ASSUME SessionInv, TableInv, NEW c \in Connections, ReadRequest(c)
    PROVE  TableInv'
<1>1. UNCHANGED <<users, snapshot, pending, committed>>
  BY DEF ReadRequest, tableVars
<1>2. pending[c] = {} /\ snapshot[c] = {}
  BY DEF ReadRequest, SessionInv, PhaseInv, BeforeTxn
<1>3. \A d \in Connections \ {c} : request'[d] = request[d]
  BY DEF ReadRequest, SessionInv, TypeOK
<1>4. KeyInv' /\ LockInv' /\ UniqueInv' /\ CoveredInv'
  BY <1>1 DEF TableInv, KeyInv, LockInv, UniqueInv, CoveredInv
<1>5. VersionInv'
  BY <1>1, <1>2, <1>3 DEF TableInv, VersionInv, Inserted, Moved
<1>6. CheckedInv'
  BY <1>1, <1>2, <1>3 DEF TableInv, CheckedInv
<1> QED
  BY <1>4, <1>5, <1>6 DEF TableInv

\* The first SELECT of a writing handler fixes a snapshot on which its check
\* holds.
LEMMA TableBegin ==
    ASSUME SessionInv, TableInv, NEW c \in Connections,
           BeginWithSelect(c), request' = request,
           \A r \in Selected(c) :
              /\ request[c].target # "register"
              /\ request[c].target = "withdraw" /\ UniqueUsername
                    => r.balance >= request[c].amount
    PROVE  TableInv'
<1>1. UNCHANGED <<users, pending, committed, request>>
  BY DEF BeginWithSelect
<1>2. snapshot'[c] = users /\ \A d \in Connections \ {c} : snapshot'[d] = snapshot[d]
  BY DEF BeginWithSelect, SessionInv, TypeOK, TableTypeOK
<1>3. KeyInv' /\ VersionInv' /\ LockInv' /\ UniqueInv' /\ CoveredInv'
  BY <1>1 DEF TableInv, KeyInv, VersionInv, Inserted, Moved, LockInv, UniqueInv, CoveredInv
<1>4. CheckedInv'
  BY <1>1, <1>2 DEF TableInv, CheckedInv, Selected, RowsOf
<1> QED
  BY <1>3, <1>4 DEF TableInv

\* A rollback takes uncommitted versions away.
LEMMA TableRollback ==
    ASSUME SessionInv, TableInv, NEW c \in Connections, Rollback(c), request' = request
    PROVE  TableInv'
<1>1. UNCHANGED <<users, committed, request>>
  BY DEF Rollback
<1>2. \A d \in Connections : pending'[d] \subseteq pending[d] /\ snapshot'[d] \subseteq snapshot[d]
  BY DEF Rollback, EndTxn, SessionInv, TypeOK, TableTypeOK
<1>3. KeyInv' /\ VersionInv' /\ LockInv'
  BY <1>1, <1>2 DEF TableInv, KeyInv, VersionInv, Inserted, Moved, LockInv
<1>4. UniqueInv' /\ CheckedInv' /\ CoveredInv'
  BY <1>1, <1>2 DEF TableInv, UniqueInv, CheckedInv, CoveredInv
<1> QED
  BY <1>3, <1>4 DEF TableInv

\* The INSERT of handle_register: the row has an id that nobody uses, and with
\* the UNIQUE constraint a username that nobody has or claims.
LEMMA TableInsert ==
    ASSUME SessionInv, TableInv, NEW c \in Connections, RegisterInsert(c),
           ~InsertRejected(request[c].username), WriteVersions(c, {NewRow(c)})
    PROVE  TableInv'
<1>1. UNCHANGED <<users, snapshot, committed, request>>
  BY DEF WriteVersions, RegisterInsert
<1>2. pending'[c] = {NewRow(c)} /\ \A d \in Connections \ {c} : pending'[d] = pending[d]
  BY DEF WriteVersions, SessionInv, TypeOK, TableTypeOK
<1>3. request[c].target = "register" /\ c \notin committed
  BY DEF RegisterInsert, At, SessionInv, PhaseInv, BeforeAnswer
<1>4. KeyInv' /\ CheckedInv'
  BY <1>1 DEF TableInv, KeyInv, CheckedInv
<1>5. VersionInv'
  <2>1. Inserted(c, NewRow(c))
    BY <1>3 DEF Inserted, NewRow
  <2> QED
    BY <1>1, <1>2, <2>1 DEF TableInv, VersionInv, Inserted, Moved
<1>6. LockInv'
  <2>1. ASSUME NEW d \in Connections \ {c}, NEW w \in pending[d]
        PROVE  w.id # c
    <3>1. CASE Inserted(d, w)
      BY <3>1 DEF Inserted
    <3>2. CASE Moved(d, w)
      BY <1>3, <3>2 DEF Moved, TableInv, KeyInv
    <3> QED
      BY <3>1, <3>2 DEF TableInv, VersionInv
  <2>2. NewRow(c).id = c
    BY DEF NewRow
  <2> QED
    BY <1>2, <2>1, <2>2 DEF TableInv, LockInv
<1>7. UniqueInv'
  <2> SUFFICES ASSUME UniqueUsername PROVE UniqueInv'
    BY DEF UniqueInv
  <2>1. NewRow(c).username = request[c].username /\ NewRow(c).id = c
    BY DEF NewRow
  <2>2. \A r \in users : r.username # request[c].username
    BY DEF InsertRejected, RowsOf
  <2>3. \A d \in Connections \ {c} : \A w \in pending[d] :
           w.id = d => w.username # request[c].username
    BY DEF RegisterInsert, KeyClaimed
  <2> QED
    BY <1>1, <1>2, <2>1, <2>2, <2>3 DEF TableInv, UniqueInv
<1>8. CoveredInv'
  <2>1. NewRow(c).balance >= 0
    <3>1. DefaultBalance \in Nat
      BY TableAssumption, Zenon
    <3> QED
      BY <3>1 DEF NewRow
  <2> QED
    BY <1>1, <1>2, <2>1 DEF TableInv, CoveredInv, OverdraftGuarded
<1> QED
  BY <1>4, <1>5, <1>6, <1>7, <1>8 DEF TableInv

\* What the UPDATE of handle_deposit or handle_withdraw writes, when the
\* database lets it: each version moves a current row of the account.
LEMMA UpdateMoves ==
    ASSUME SessionInv, NEW c \in Connections, request[c].target \in MoneyTargets,
           ~UpdateRejected(Matched(c), NewVersions(c)), NEW v \in NewVersions(c)
    PROVE  \E r \in users :
              /\ r \in Matched(c)
              /\ v.id = r.id
              /\ v.username = r.username
              /\ r.username = Account(request[c])
              /\ v.balance = r.balance + Delta(request[c])
<1>1. PICK r \in Matched(c) :
         v = [r EXCEPT !.balance = NewBalance(c, r), !.writer = c]
  BY DEF NewVersions
<1>2. r \in users
  BY DEF UpdateRejected
<1>3. r \in Row
  BY <1>2 DEF SessionInv, TypeOK, TableTypeOK
<1>4. v.id = r.id /\ v.username = r.username /\ v.balance = NewBalance(c, r)
  BY <1>1, <1>3 DEF Row
<1>5. r.username = Account(request[c])
  BY DEF Matched, RowsOf
<1> QED
  BY <1>2, <1>4, <1>5 DEF NewBalance

\* Under a guard of the database the UPDATE writes no balance below zero: a
\* CHECK rejects it, and under snapshot isolation the row that a withdrawal
\* replaces is the one that its SELECT found to cover the amount.
LEMMA UpdateCovers ==
    ASSUME SessionInv, TableInv, OverdraftGuarded, NEW c \in Connections,
           DepositUpdate(c) \/ WithdrawUpdate(c),
           ~UpdateRejected(Matched(c), NewVersions(c)), NEW v \in NewVersions(c)
    PROVE  v.balance >= 0
<1>1. request[c].target \in MoneyTargets
  BY DEF DepositUpdate, WithdrawUpdate, At, MoneyTargets
<1>2. v.balance \in Int
  BY UpdateTyped DEF SessionInv, Row
<1>3. CASE BalanceCheck
  BY <1>2, <1>3 DEF UpdateRejected
<1>4. CASE UniqueUsername /\ Isolation = "snapshot"
  <2>1. PICK r \in users :
           /\ r \in Matched(c)
           /\ r.username = Account(request[c])
           /\ v.balance = r.balance + Delta(request[c])
    BY <1>1, UpdateMoves
  <2>2. r.balance \in Int /\ r.balance >= 0
    BY DEF SessionInv, TypeOK, TableTypeOK, Row, TableInv, CoveredInv
  <2>3. request[c].amount \in Int /\ request[c].amount > 0
    BY <1>1
    DEF SessionInv, TypeOK, Request, RequestInv, DepositUpdate, WithdrawUpdate, At
  <2>4. CASE request[c].target = "deposit"
    <3>1. Delta(request[c]) = request[c].amount
      BY <2>4, DeltaCases
    <3> QED
      BY <2>1, <2>2, <2>3, <3>1
  <2>5. CASE request[c].target = "withdraw"
    <3>1. Delta(request[c]) = 0 - request[c].amount
      BY <2>5, DeltaCases
    <3>2. r \in snapshot[c]
      BY <1>4, <2>1, <2>5
      DEF Matched, RowsOf, Visible, DepositUpdate, WithdrawUpdate, At, SessionInv, PhaseInv
    <3>3. r.balance >= request[c].amount
      BY <1>4, <2>1, <2>5, <3>2 DEF TableInv, CheckedInv
    <3> QED
      BY <2>1, <2>2, <2>3, <3>1, <3>3
  <2> QED
    BY <1>1, <2>4, <2>5 DEF MoneyTargets
<1> QED
  BY <1>3, <1>4 DEF OverdraftGuarded

\* The UPDATE: its versions replace rows that nobody else has locked.
LEMMA TableUpdate ==
    ASSUME SessionInv, TableInv, NEW c \in Connections,
           DepositUpdate(c) \/ WithdrawUpdate(c),
           ~UpdateRejected(Matched(c), NewVersions(c)),
           WriteVersions(c, NewVersions(c))
    PROVE  TableInv'
<1>1. UNCHANGED <<users, snapshot, committed, request>>
  BY DEF WriteVersions, DepositUpdate, WithdrawUpdate, Update
<1>2. pending'[c] = NewVersions(c) /\ \A d \in Connections \ {c} : pending'[d] = pending[d]
  BY DEF WriteVersions, SessionInv, TypeOK, TableTypeOK
<1>3. request[c].target \in MoneyTargets /\ c \notin committed
  BY DEF DepositUpdate, WithdrawUpdate, At, MoneyTargets, SessionInv, PhaseInv, BeforeAnswer,
         BeforeTxn
<1>4. ~Locked(c, Matched(c))
  BY DEF DepositUpdate, WithdrawUpdate, Update
<1>5. \A v \in NewVersions(c) : v.id # c
  BY <1>3, UpdateMoves DEF TableInv, KeyInv
<1>6. KeyInv' /\ CheckedInv'
  BY <1>1 DEF TableInv, KeyInv, CheckedInv
<1>7. VersionInv'
  <2>1. \A v \in NewVersions(c) : Moved(c, v)
    BY <1>3, UpdateMoves DEF Moved
  <2> QED
    BY <1>1, <1>2, <2>1 DEF TableInv, VersionInv, Inserted, Moved
<1>8. LockInv'
  <2>1. ASSUME NEW d \in Connections \ {c}, NEW w \in pending[d], NEW v \in NewVersions(c)
        PROVE  v.id # w.id
    BY <1>3, <1>4, UpdateMoves DEF Locked
  <2>2. ASSUME NEW v \in NewVersions(c), NEW w \in NewVersions(c), v.id = w.id
        PROVE  v = w
    <3>1. PICK r \in Matched(c) :
             v = [r EXCEPT !.balance = NewBalance(c, r), !.writer = c]
      BY DEF NewVersions
    <3>2. PICK s \in Matched(c) :
             w = [s EXCEPT !.balance = NewBalance(c, s), !.writer = c]
      BY DEF NewVersions
    <3>3. r \in users /\ s \in users
      BY DEF UpdateRejected
    <3>4. r \in Row /\ s \in Row
      BY <3>3 DEF SessionInv, TypeOK, TableTypeOK
    <3>5. r.id = s.id
      BY <2>2, <3>1, <3>2, <3>4 DEF Row
    <3> QED
      BY <3>1, <3>2, <3>3, <3>5 DEF TableInv, KeyInv
  <2> QED
    BY <1>2, <2>1, <2>2 DEF TableInv, LockInv
<1>9. UniqueInv'
  BY <1>1, <1>2, <1>5 DEF TableInv, UniqueInv
<1>10. CoveredInv'
  BY <1>1, <1>2, UpdateCovers DEF TableInv, CoveredInv, OverdraftGuarded
<1> QED
  BY <1>6, <1>7, <1>8, <1>9, <1>10 DEF TableInv

\* The COMMIT: the versions of one transaction take the place of the rows that
\* they replace; the locks keep the versions of the others sound.
LEMMA TableCommit ==
    ASSUME SessionInv, TableInv, NEW c \in Connections, pc[c] = "commit",
           CommitTxn(c), request' = request
    PROVE  TableInv'
<1>1. /\ users' = (users \ Superseded(c)) \cup pending[c]
      /\ committed' = committed \cup {c}
      /\ request' = request
  BY DEF CommitTxn
<1>2. /\ pending'[c] = {} /\ \A d \in Connections \ {c} : pending'[d] = pending[d]
      /\ \A d \in Connections : snapshot'[d] \subseteq snapshot[d]
  BY DEF CommitTxn, EndTxn, SessionInv, TypeOK, TableTypeOK
<1>3. c \notin committed
  BY DEF SessionInv, PhaseInv, BeforeAnswer
<1>4. \A r \in users \ Superseded(c), v \in pending[c] : r.id # v.id
  BY DEF Superseded
<1>5. \A v, w \in pending[c] : v.id = w.id => v = w
  BY DEF TableInv, LockInv
<1>6. KeyInv'
  <2>1. \A r, s \in users' : r.id = s.id => r = s
    BY <1>1, <1>4, <1>5 DEF TableInv, KeyInv
  <2>2. \A v \in pending[c] : v.id \in Connections => v.id \in committed'
    BY <1>1 DEF TableInv, VersionInv, Inserted, Moved, KeyInv
  <2>3. \A r \in users' : r.id \in Connections => r.id \in committed'
    BY <1>1, <2>2 DEF TableInv, KeyInv
  <2> QED
    BY <2>1, <2>3 DEF KeyInv
<1>7. VersionInv'
  <2> SUFFICES ASSUME NEW d \in Connections \ {c}, NEW v \in pending[d]
               PROVE  (Inserted(d, v) \/ Moved(d, v))'
    BY <1>2 DEF VersionInv
  <2>1. CASE Inserted(d, v)
    BY <1>1, <2>1 DEF Inserted
  <2>2. CASE Moved(d, v)
    <3>1. PICK r \in users :
             /\ r.id = v.id
             /\ r.username = v.username
             /\ v.username = Account(request[d])
             /\ v.balance = r.balance + Delta(request[d])
      BY <2>2 DEF Moved
    <3>2. r \notin Superseded(c)
      BY <3>1 DEF Superseded, TableInv, LockInv
    <3> QED
      BY <1>1, <2>2, <3>1, <3>2 DEF Moved
  <2> QED
    BY <2>1, <2>2 DEF TableInv, VersionInv
<1>8. LockInv'
  BY <1>2 DEF TableInv, LockInv
<1>9. UniqueInv'
  <2> SUFFICES ASSUME UniqueUsername PROVE UniqueInv'
    BY DEF UniqueInv
  <2>1. \A r \in users \ Superseded(c), v \in pending[c] : r.username # v.username
    <3> SUFFICES ASSUME NEW r \in users \ Superseded(c), NEW v \in pending[c],
                        r.username = v.username
                 PROVE  FALSE
      OBVIOUS
    <3>1. CASE Inserted(c, v)
      BY <3>1 DEF Inserted, TableInv, UniqueInv
    <3>2. CASE Moved(c, v)
      BY <1>4, <3>2 DEF Moved, TableInv, UniqueInv
    <3> QED
      BY <3>1, <3>2 DEF TableInv, VersionInv
  <2>2. \A v, w \in pending[c] : v.username = w.username => v = w
    <3> SUFFICES ASSUME NEW v \in pending[c], NEW w \in pending[c],
                        v.username = w.username
                 PROVE  v.id = w.id
      BY <1>5
    <3>1. CASE request[c].target = "register"
      BY <3>1 DEF TableInv, VersionInv, Inserted, Moved, MoneyTargets
    <3>2. CASE request[c].target # "register"
      BY <3>2 DEF TableInv, VersionInv, Inserted, Moved, UniqueInv
    <3> QED
      BY <3>1, <3>2
  <2>3. \A r, s \in users' : r.username = s.username => r = s
    BY <1>1, <2>1, <2>2 DEF TableInv, UniqueInv
  <2>4. ASSUME NEW d \in Connections \ {c}, NEW v \in pending[d], v.id = d,
               NEW w \in pending[c]
        PROVE  w.username # v.username
    BY <2>4 DEF TableInv, VersionInv, Inserted, Moved, UniqueInv
  <2> QED
    BY <1>1, <1>2, <2>3, <2>4 DEF TableInv, UniqueInv
<1>10. CheckedInv'
  BY <1>1, <1>2 DEF TableInv, CheckedInv
<1>11. CoveredInv'
  BY <1>1, <1>2 DEF TableInv, CoveredInv, OverdraftGuarded
<1> QED
  BY <1>6, <1>7, <1>8, <1>9, <1>10, <1>11 DEF TableInv

\* An operator deletes an account that no open transaction has locked.
LEMMA TableDelete ==
    ASSUME SessionInv, TableInv, NEW u \in Usernames, DeleteUser(u), request' = request
    PROVE  TableInv'
<1>1. UNCHANGED <<snapshot, pending, committed, request>>
      /\ users' = users \ RowsOf(users, u)
  BY DEF DeleteUser
<1>2. \A d \in Connections : \A v \in pending[d], r \in users :
         r.id = v.id => r \in users'
  BY <1>1 DEF DeleteUser
<1>3. KeyInv' /\ LockInv' /\ CheckedInv'
  BY <1>1 DEF TableInv, KeyInv, LockInv, CheckedInv
<1>4. VersionInv'
  BY <1>1, <1>2 DEF TableInv, VersionInv, Inserted, Moved
<1>5. UniqueInv' /\ CoveredInv'
  BY <1>1 DEF TableInv, UniqueInv, CoveredInv
<1> QED
  BY <1>3, <1>4, <1>5 DEF TableInv

LEMMA TableNext ==
    ASSUME SessionInv, TableInv, [Next]_vars
    PROVE  TableInv'
<1>1. CASE UNCHANGED vars
  BY <1>1, TableUnchanged DEF vars
<1>2. ASSUME NEW c \in Connections,
             \/ Accept(c) \/ ReadFails(c) \/ WriteResponse(c) \/ WriteFails(c)
             \/ Route(c) \/ Login(c) \/ Profile(c)
      PROVE  TableInv'
  BY <1>2, TableUnchanged
  DEF Accept, ReadFails, WriteResponse, WriteFails, Route, Login, Profile, tableVars
<1>3. ASSUME NEW c \in Connections, ReadRequest(c) PROVE TableInv'
  BY <1>3, TableReadRequest
<1>4. ASSUME NEW c \in Connections, RegisterSelect(c) PROVE TableInv'
  <2>1. CASE UNCHANGED tableVars
    BY <1>4, <2>1, TableUnchanged DEF RegisterSelect, tableVars
  <2>2. CASE Selected(c) = {} /\ BeginWithSelect(c)
    BY <1>4, <2>2, TableBegin DEF RegisterSelect
  <2> QED
    BY <1>4, <2>1, <2>2 DEF RegisterSelect
<1>5. ASSUME NEW c \in Connections, RegisterInsert(c) PROVE TableInv'
  <2>1. CASE Rollback(c)
    BY <1>5, <2>1, TableRollback DEF RegisterInsert
  <2>2. CASE ~InsertRejected(request[c].username) /\ WriteVersions(c, {NewRow(c)})
    BY <1>5, <2>2, TableInsert
  <2> QED
    BY <1>5, <2>1, <2>2 DEF RegisterInsert
<1>6. ASSUME NEW c \in Connections, DepositUpdate(c) \/ WithdrawUpdate(c) PROVE TableInv'
  <2>1. Update(c)
    BY <1>6 DEF DepositUpdate, WithdrawUpdate
  <2>2. CASE Rollback(c)
    BY <2>1, <2>2, TableRollback DEF Update
  <2>3. CASE ~UpdateRejected(Matched(c), NewVersions(c)) /\ WriteVersions(c, NewVersions(c))
    BY <1>6, <2>3, TableUpdate
  <2> QED
    BY <2>1, <2>2, <2>3 DEF Update
<1>7. ASSUME NEW c \in Connections, WithdrawSelect(c) PROVE TableInv'
  <2>1. CASE UNCHANGED tableVars
    BY <1>7, <2>1, TableUnchanged DEF WithdrawSelect, tableVars
  <2>2. ASSUME NEW r \in Selected(c), ~InsufficientFunds(request[c], r), BeginWithSelect(c)
        PROVE  TableInv'
    <3>1. \A s \in Selected(c) :
             /\ request[c].target # "register"
             /\ request[c].target = "withdraw" /\ UniqueUsername
                   => s.balance >= request[c].amount
      <4> SUFFICES ASSUME NEW s \in Selected(c)
                   PROVE  UniqueUsername => s.balance >= request[c].amount
        BY <1>7 DEF WithdrawSelect, At
      <4>1. UniqueUsername => s = r
        BY DEF Selected, RowsOf, TableInv, UniqueInv
      <4>2. r.balance \in Int /\ request[c].amount \in Int
        BY DEF Selected, RowsOf, SessionInv, TypeOK, TableTypeOK, Row, Request
      <4> QED
        BY <2>2, <4>1, <4>2 DEF InsufficientFunds
    <3> QED
      BY <1>7, <2>2, <3>1, TableBegin DEF WithdrawSelect
  <2> QED
    BY <1>7, <2>1, <2>2 DEF WithdrawSelect
<1>8. ASSUME NEW c \in Connections, Commit(c) \/ CommitInDoubt(c) PROVE TableInv'
  BY <1>8, TableCommit DEF Commit, CommitInDoubt
<1>9. ASSUME NEW c \in Connections, DatabaseError(c) \/ Reap(c) PROVE TableInv'
  BY <1>9, TableRollback DEF DatabaseError, Reap, sessionVars
<1>10. CASE ServerExits \/ Restart \/ Tick \/ Quiescent
  BY <1>10, TableUnchanged DEF ServerExits, Restart, Tick, Quiescent, tableVars, vars
<1>11. CASE RemoveAccount
  BY <1>11, ServerAssumption, TableDelete DEF RemoveAccount, sessionVars
<1> QED
  BY <1>1, <1>2, <1>3, <1>4, <1>5, <1>6, <1>7, <1>8, <1>9, <1>10, <1>11
  DEF Next, SessionStep, Fault

LEMMA TableInvariant == Spec => []TableInv
BY SessionInvariant, TableInvInit, TableNext, PTL DEF Spec
-------------------------------------------------------------------------------
(***************************************************************************)
(* The theorems that the second layer is for.                              *)
(***************************************************************************)

\* No account is overdrawn when the database guards the balance, by a CHECK or
\* by unique usernames and snapshot isolation.
THEOREM NeverOverdrawn == Spec => []NoOverdraft
<1>1. TableInv => NoOverdraft
  BY DEF TableInv, CoveredInv, NoOverdraft
<1> QED
  BY <1>1, TableInvariant, PTL

\* When the database does not, an account goes below zero only if another
\* transaction replaced its row between the SELECT and the UPDATE of
\* handle_withdraw.
THEOREM OverdraftsAreRaces == Spec => []OverdraftNeedsRace
<1>1. SessionInv /\ TableInv => OverdraftNeedsRace
  <2> SUFFICES ASSUME SessionInv, TableInv, UniqueUsername,
                      NEW c \in Connections, NEW v \in pending[c], NEW r \in users,
                      v.id = r.id, v.balance < 0, v.balance < r.balance, r \in snapshot[c]
               PROVE  FALSE
    BY DEF OverdraftNeedsRace
  <2>1. r.balance \in Int /\ request[c].amount \in Int
    BY DEF SessionInv, TypeOK, TableTypeOK, Row, Request
  <2>2. ~Inserted(c, v)
    <3> SUFFICES ASSUME Inserted(c, v) PROVE FALSE
      OBVIOUS
    <3>1. c \in committed
      BY DEF Inserted, TableInv, KeyInv
    <3> QED
      BY <3>1 DEF SessionInv, PhaseInv
  <2>3. /\ request[c].target \in MoneyTargets
        /\ r.username = Account(request[c])
        /\ v.balance = r.balance + Delta(request[c])
    BY <2>2 DEF TableInv, VersionInv, Moved, KeyInv
  <2>4. request[c].amount > 0
    BY <2>3 DEF SessionInv, RequestInv
  <2>5. CASE request[c].target = "deposit"
    BY <2>1, <2>3, <2>4, <2>5, DeltaCases
  <2>6. CASE request[c].target = "withdraw"
    <3>1. r.balance >= request[c].amount
      BY <2>3, <2>6 DEF TableInv, CheckedInv
    <3> QED
      BY <2>1, <2>3, <2>6, <3>1, DeltaCases
  <2> QED
    BY <2>3, <2>5, <2>6 DEF MoneyTargets
<1> QED
  BY <1>1, SessionInvariant, TableInvariant, PTL

\* Two rows share a username only if both were inserted after neither SELECT of
\* handle_register could see the other.
THEOREM DuplicatesAreRaces == Spec => []DuplicateNeedsRace
<1>1. SessionInv /\ TableInv => DuplicateNeedsRace
  <2> SUFFICES ASSUME SessionInv, TableInv,
                      NEW c \in Connections, NEW v \in pending[c], NEW r \in users,
                      v.id = c, v.username = r.username, r \in snapshot[c]
               PROVE  FALSE
    BY DEF DuplicateNeedsRace
  <2>1. ~Moved(c, v)
    BY DEF Moved, TableInv, KeyInv, SessionInv, PhaseInv
  <2>2. request[c].target = "register" /\ r.username = request[c].username
    BY <2>1 DEF TableInv, VersionInv, Inserted
  <2>3. r.username = Account(request[c])
    BY <2>2 DEF Account, TokenTargets, MoneyTargets
  <2> QED
    BY <2>2, <2>3 DEF TableInv, CheckedInv
<1> QED
  BY <1>1, SessionInvariant, TableInvariant, PTL

\* Balances move only by whole requests of the account's own user, each by
\* exactly its amount.
THEOREM EffectsAreExact == Spec => ExactEffect
<1>1. ASSUME SessionInv, TableInv, [Next]_vars PROVE [BalanceStep]_vars
  <2> SUFFICES ASSUME Next, NEW r \in users, NEW s \in users',
                      r.id = s.id, r.balance # s.balance
               PROVE  \E c \in committed' \ committed :
                         /\ Account(request[c]) = r.username
                         /\ s.balance = r.balance + Delta(request[c])
    BY <1>1 DEF BalanceStep
  <2>1. s \notin users
    BY <1>1 DEF TableInv, KeyInv
  <2>2. PICK c \in Connections : (Commit(c) \/ CommitInDoubt(c))
    BY <2>1
    DEF Next, SessionStep, Fault, Accept, ReadRequest, ReadFails, WriteResponse, WriteFails,
        Route, Login, Profile, RegisterSelect, RegisterInsert, DepositUpdate, WithdrawUpdate,
        WithdrawSelect, Update, BeginWithSelect, WriteVersions, DatabaseError, Reap, Rollback,
        ServerExits, Restart, RemoveAccount, DeleteUser, Tick, Quiescent, vars, tableVars
  <2>3. s \in pending[c] /\ c \in committed' /\ pc[c] = "commit"
    BY <2>1, <2>2 DEF Commit, CommitInDoubt, CommitTxn
  <2>4. c \notin committed
    BY <1>1, <2>3 DEF SessionInv, PhaseInv, BeforeAnswer
  <2>5. ~Inserted(c, s)
    BY <1>1, <2>4 DEF Inserted, TableInv, KeyInv
  <2> QED
    BY <1>1, <2>3, <2>4, <2>5 DEF TableInv, VersionInv, Moved, KeyInv
<1>2. SessionInv /\ TableInv /\ [Next]_vars => [BalanceStep]_vars
  BY <1>1
<1> QED
  BY <1>2, SessionInvariant, TableInvariant, PTL DEF Spec, ExactEffect

\* What a transaction has written, its end takes away.
OpenInv == \A c \in Connections : pending[c] # {} => c \in inTxn

LEMMA OpenNext ==
    ASSUME TypeOK, OpenInv, [Next]_vars
    PROVE  OpenInv'
<1>1. CASE UNCHANGED <<inTxn, pending>>
  BY <1>1 DEF OpenInv
<1>2. ASSUME NEW c \in Connections, EndTxn(c) PROVE OpenInv'
  BY <1>2 DEF OpenInv, EndTxn, TypeOK, TableTypeOK
<1>3. ASSUME NEW c \in Connections, RegisterSelect(c) \/ WithdrawSelect(c) PROVE OpenInv'
  BY <1>3 DEF RegisterSelect, WithdrawSelect, BeginWithSelect, tableVars, OpenInv
<1>4. ASSUME NEW c \in Connections,
             RegisterInsert(c) \/ DepositUpdate(c) \/ WithdrawUpdate(c)
      PROVE  OpenInv'
  <2>1. CASE Rollback(c)
    BY <1>2, <2>1 DEF Rollback
  <2>2. ASSUME NEW versions, WriteVersions(c, versions) PROVE OpenInv'
    BY <2>2 DEF WriteVersions, OpenInv, TypeOK, TableTypeOK
  <2> QED
    BY <1>4, <2>1, <2>2 DEF RegisterInsert, DepositUpdate, WithdrawUpdate, Update
<1>5. ASSUME NEW c \in Connections,
             Commit(c) \/ CommitInDoubt(c) \/ DatabaseError(c) \/ Reap(c)
      PROVE  OpenInv'
  BY <1>2, <1>5 DEF Commit, CommitInDoubt, DatabaseError, Reap, CommitTxn, Rollback
<1>6. ASSUME NEW c \in Connections,
             \/ Accept(c) \/ ReadRequest(c) \/ ReadFails(c) \/ WriteResponse(c)
             \/ WriteFails(c) \/ Route(c) \/ Login(c) \/ Profile(c)
      PROVE  OpenInv'
  BY <1>1, <1>6
  DEF Accept, ReadRequest, ReadFails, WriteResponse, WriteFails, Route, Login, Profile,
      tableVars
<1>7. CASE ServerExits \/ Restart \/ RemoveAccount \/ Tick \/ Quiescent \/ UNCHANGED vars
  BY <1>1, <1>7
  DEF ServerExits, Restart, RemoveAccount, DeleteUser, Tick, Quiescent, vars, tableVars
<1> QED
  BY <1>3, <1>4, <1>5, <1>6, <1>7 DEF Next, SessionStep, Fault

\* The waits of the threads form no chain: whoever holds a row or a username has
\* only its commit left, or is dead with its transaction still to be dropped.
THEOREM NobodyWaitsInVain == Spec => []WaitsEnd
<1>1. Init => OpenInv
  BY DEF Init, TableInit, OpenInv
<1>2. SessionInv /\ OpenInv /\ [Next]_vars => OpenInv'
  BY OpenNext DEF SessionInv
<1>3. SessionInv /\ OpenInv => WaitsEnd
  BY DEF SessionInv, PhaseInv, OpenInv, WaitsEnd, WaitsFor
<1> QED
  BY <1>1, <1>2, <1>3, SessionInvariant, PTL DEF Spec
===============================================================================
