------------------------------ MODULE LedgerProofs ------------------------------
(***************************************************************************)
(* Proof that AuctionServer implements Ledger, for every number of         *)
(* connections, every set of accounts and amounts, and both isolation      *)
(* levels: with unique usernames that nobody deletes, the transactions of  *)
(* the handlers look to the clients as if each request took effect at one  *)
(* instant, that of its commit.                                            *)
(***************************************************************************)
EXTENDS AuctionServerProofs

\* The schema keeps usernames unique, nobody deletes accounts by hand, and the
\* tokens signed before the server started are those of its accounts.
Wellkept ==
    /\ UniqueUsername
    /\ Removable = {}
    /\ \A k \in InitialTokens :
          k.kind = "signed" => \E r \in InitialUsers : r.username = k.username

Registered(u) == \E r \in users : r.username = u

\* A request is read once and answered once, and only one with a token that
\* verifies gets past the route.
SentInv ==
    \A c \in Connections :
        /\ pc[c] \in BeforeAnswer => response[c] = NoResponse
        /\ pc[c] \in {"idle", "reading"} => request[c] = NoRequest
        /\ pc[c] \in {"route", "query", "modify", "commit"} => request[c] # NoRequest
        /\ pc[c] \in {"query", "modify", "commit"} /\ request[c].target \in TokenTargets
              => request[c].token.kind = "signed"

\* A signed token is that of an account, wherever it is.
KnownInv ==
    /\ \A k \in InitialTokens : k.kind = "signed" => Registered(k.username)
    /\ \A c \in Connections :
          /\ response[c].token.kind = "signed" => Registered(response[c].token.username)
          /\ request[c].token.kind = "signed" => Registered(request[c].token.username)

MovedRow(c, r) == [r EXCEPT !.balance = NewBalance(c, r), !.writer = c]

\* What a transaction is about to commit is the whole effect of its request.
Prepared(c) ==
    /\ At(c, "modify", "withdraw") =>
          \E r \in snapshot[c] : r.username = Account(request[c])
    /\ pc[c] = "commit" =>
          \/ request[c].target = "register" /\ pending[c] = {NewRow(c)}
          \/ /\ request[c].target \in MoneyTargets
             /\ \E r \in users :
                   r.username = Account(request[c]) /\ pending[c] = {MovedRow(c, r)}

WriteInv == \A c \in Connections : Prepared(c)

LedgerInv == SentInv /\ KnownInv /\ WriteInv /\ now <= MaxTime
-------------------------------------------------------------------------------
(***************************************************************************)
(* The invariant.                                                          *)
(***************************************************************************)

LEMMA LedgerInit ==
    ASSUME Wellkept, Init
    PROVE  LedgerInv
<1>1. SentInv
  BY DEF Init, SentInv
<1>2. KnownInv
  BY DEF Init, TableInit, KnownInv, Wellkept, Registered, NoResponse, NoRequest, NoToken
<1>3. WriteInv
  BY DEF Init, WriteInv, Prepared, At
<1>4. now <= MaxTime
  <2>1. MaxTime \in Nat
    BY ServerAssumption
  <2> QED
    BY <2>1 DEF Init
<1> QED
  BY <1>1, <1>2, <1>3, <1>4 DEF LedgerInv

\* Only a commit changes the table.
LEMMA OnlyCommits ==
    ASSUME Wellkept, [Next]_vars
    PROVE  \/ users' = users
           \/ \E c \in Connections :
                 pc[c] = "commit" /\ CommitTxn(c) /\ request' = request
BY DEF Next, SessionStep, Fault, Accept, ReadRequest, ReadFails, WriteResponse, WriteFails,
       Route, Login, Profile, RegisterSelect, RegisterInsert, DepositUpdate, WithdrawUpdate,
       WithdrawSelect, Update, BeginWithSelect, WriteVersions, DatabaseError, Reap, Rollback,
       ServerExits, Restart, RemoveAccount, Tick, Quiescent, vars, tableVars, Wellkept,
       Commit, CommitInDoubt

\* A committed version keeps the username of the row that it replaces.
LEMMA RegisteredKept ==
    ASSUME Wellkept, SessionInv, TableInv, [Next]_vars, NEW u, Registered(u)
    PROVE  Registered(u)'
<1>1. CASE users' = users
  BY <1>1 DEF Registered
<1>2. ASSUME NEW c \in Connections, pc[c] = "commit", CommitTxn(c)
      PROVE  Registered(u)'
  <2>1. users' = (users \ Superseded(c)) \cup pending[c]
    BY <1>2 DEF CommitTxn
  <2>2. PICK r \in users : r.username = u
    BY DEF Registered
  <2>3. ASSUME NEW p \in pending[c], p.id = r.id PROVE p.username = u
    <3>1. ~Inserted(c, p)
      BY <1>2, <2>3 DEF Inserted, TableInv, KeyInv, SessionInv, PhaseInv, BeforeAnswer
    <3> QED
      BY <2>2, <2>3, <3>1 DEF TableInv, VersionInv, Moved, KeyInv
  <2> QED
    BY <2>1, <2>2, <2>3 DEF Registered, Superseded
<1> QED
  BY <1>1, <1>2, OnlyCommits

\* A request is read with a token that some client holds.
LEMMA RequestsSent ==
    ASSUME KnownInv, NEW q \in Requests
    PROVE  /\ q # NoRequest
           /\ q.token.kind = "signed" => Registered(q.token.username)
<1>1. \A k \in KnownTokens : k.kind = "signed" => Registered(k.username)
  BY DEF KnownInv, KnownTokens
<1>2. NoToken.kind # "signed"
  BY DEF NoToken
<1>3. NoRequest.target = "otherMethod" /\ NoRequest.wellFormed = FALSE
  BY DEF NoRequest
<1> QED
  BY <1>1, <1>2, <1>3 DEF Requests, CredentialTargets, MoneyTargets

\* Only a request whose token verifies gets past the route.
LEMMA RouteVerifies ==
    ASSUME NEW q, EarlyStatus(q) = 0, q.target \in TokenTargets
    PROVE  q.token.kind = "signed"
<1>1. q.target \notin UnknownTargets /\ q.target # "otherMethod"
  BY DEF TokenTargets, MoneyTargets, UnknownTargets
<1>2. ~Unauthorized(q)
  BY <1>1, EarlyReturns
<1> QED
  BY <1>2 DEF Unauthorized, verify_jwt_token

LEMMA SentNext ==
    ASSUME SessionInv, KnownInv, SentInv, [Next]_vars
    PROVE  SentInv'
<1> USE DEF SentInv, BeforeTxn, BeforeAnswer
<1>0. TypeOK
  BY DEF SessionInv
<1>1. CASE UNCHANGED vars
  BY <1>1 DEF vars
<1>2. ASSUME NEW c \in Connections,
             Accept(c) \/ ReadFails(c) \/ WriteResponse(c) \/ WriteFails(c)
      PROVE  SentInv'
  BY <1>0, <1>2 DEF Accept, ReadFails, WriteResponse, WriteFails, Goto, TypeOK
<1>3. ASSUME NEW c \in Connections, ReadRequest(c) PROVE SentInv'
  BY <1>0, <1>3, RequestsSent DEF ReadRequest, Goto, TypeOK
<1>4. ASSUME NEW c \in Connections, Route(c) PROVE SentInv'
  BY <1>0, <1>4, RouteVerifies DEF Route, Goto, Answer, TypeOK
<1>5. ASSUME NEW c \in Connections,
             Login(c) \/ Profile(c) \/ RegisterSelect(c) \/ WithdrawSelect(c)
      PROVE  SentInv'
  BY <1>0, <1>5
  DEF Login, Profile, RegisterSelect, WithdrawSelect, Goto, Answer, TypeOK, At
<1>6. ASSUME NEW c \in Connections,
             RegisterInsert(c) \/ DepositUpdate(c) \/ WithdrawUpdate(c)
      PROVE  SentInv'
  BY <1>0, <1>6
  DEF RegisterInsert, DepositUpdate, WithdrawUpdate, Update, Goto, Answer, TypeOK, At
<1>7. ASSUME NEW c \in Connections,
             Commit(c) \/ CommitInDoubt(c) \/ DatabaseError(c) \/ Reap(c)
      PROVE  SentInv'
  BY <1>0, <1>7 DEF Commit, CommitInDoubt, DatabaseError, Reap, Answer, Goto, sessionVars, TypeOK
<1>8. CASE ServerExits
  BY <1>0, <1>8 DEF ServerExits, TypeOK, InFlight
<1>9. CASE Restart \/ Tick \/ RemoveAccount \/ Quiescent
  BY <1>9 DEF Restart, Tick, RemoveAccount, Quiescent, vars, sessionVars
<1> QED
  BY <1>1, <1>2, <1>3, <1>4, <1>5, <1>6, <1>7, <1>8, <1>9 DEF Next, SessionStep, Fault

\* handle_login signs tokens only for the accounts that it has found.
LEMMA ResponseStep ==
    ASSUME TypeOK, [Next]_vars, NEW c \in Connections, response'[c].token.kind = "signed"
    PROVE  \/ response'[c] = response[c]
           \/ Registered(response'[c].token.username)
<1> USE DEF make_response, NoToken
<1>1. CASE UNCHANGED response
  BY <1>1
<1>2. ASSUME NEW d \in Connections, NEW status \in Int, Answer(d, status)
      PROVE  response'[c] = response[c]
  BY <1>2 DEF Answer, TypeOK
<1>3. ASSUME NEW d \in Connections, Route(d) PROVE response'[c] = response[c]
  BY <1>3 DEF Route, Answer, TypeOK
<1>4. ASSUME NEW d \in Connections, Login(d)
      PROVE  response'[c] = response[c] \/ Registered(response'[c].token.username)
  <2>1. CASE Answer(d, 400)
    BY <1>2, <2>1
  <2>2. ASSUME NEW r \in Selected(d),
               response' = [response EXCEPT ![d] =
                  [status |-> 200, balance |-> r.balance,
                   token |-> generate_jwt_token(request[d].username)]]
        PROVE  response'[c] = response[c] \/ Registered(response'[c].token.username)
    <3>1. r \in users /\ r.username = request[d].username
      BY <1>4 DEF Selected, RowsOf, Account, Login, At, TokenTargets, MoneyTargets
    <3> QED
      BY <2>2, <3>1 DEF TypeOK, generate_jwt_token, Registered
  <2> QED
    BY <1>4, <2>1, <2>2 DEF Login
<1>5. ASSUME NEW d \in Connections, Profile(d) PROVE response'[c] = response[c]
  BY <1>2, <1>5 DEF Profile, TypeOK
<1>6. ASSUME NEW d \in Connections,
             \/ RegisterSelect(d) \/ RegisterInsert(d)
             \/ DepositUpdate(d) \/ WithdrawSelect(d) \/ WithdrawUpdate(d)
      PROVE  response'[c] = response[c]
  BY <1>1, <1>2, <1>6
  DEF RegisterSelect, RegisterInsert, DepositUpdate, WithdrawUpdate, WithdrawSelect, Update
<1>7. ASSUME NEW d \in Connections, Commit(d) \/ CommitInDoubt(d) \/ DatabaseError(d)
      PROVE  response'[c] = response[c]
  BY <1>2, <1>7 DEF Commit, CommitInDoubt, DatabaseError
<1>8. ASSUME NEW d \in Connections,
             \/ Accept(d) \/ ReadRequest(d) \/ ReadFails(d)
             \/ WriteResponse(d) \/ WriteFails(d) \/ Reap(d)
      PROVE  response'[c] = response[c]
  BY <1>8 DEF Accept, ReadRequest, ReadFails, WriteResponse, WriteFails, Reap, sessionVars
<1>9. CASE ServerExits \/ Restart \/ RemoveAccount \/ Tick \/ Quiescent \/ UNCHANGED vars
  BY <1>9 DEF ServerExits, Restart, RemoveAccount, Tick, Quiescent, vars, sessionVars
<1> QED
  BY <1>3, <1>4, <1>5, <1>6, <1>7, <1>8, <1>9 DEF Next, SessionStep, Fault

LEMMA RequestStep ==
    ASSUME TypeOK, KnownInv, [Next]_vars, NEW c \in Connections,
           request'[c].token.kind = "signed"
    PROVE  Registered(request'[c].token.username)
<1>1. CASE request' = request
  BY <1>1 DEF KnownInv
<1>2. ASSUME NEW d \in Connections, ReadRequest(d)
      PROVE  Registered(request'[c].token.username)
  BY <1>2, RequestsSent DEF ReadRequest, TypeOK, KnownInv
<1> QED
  BY <1>1, <1>2, ZenonT(60)
  DEF Next, SessionStep, Fault, Accept, ReadFails, WriteResponse, WriteFails, Route, Login,
      Profile, RegisterSelect, RegisterInsert, DepositUpdate, WithdrawUpdate,
      WithdrawSelect, Update, Commit, CommitInDoubt, DatabaseError, Reap, ServerExits,
      Restart, RemoveAccount, Tick, Quiescent, vars, sessionVars

LEMMA KnownNext ==
    ASSUME Wellkept, SessionInv, TableInv, KnownInv, [Next]_vars
    PROVE  KnownInv'
<1>1. \A u : Registered(u) => Registered(u)'
  BY RegisteredKept
<1>2. ASSUME NEW k \in InitialTokens, k.kind = "signed" PROVE Registered(k.username)'
  BY <1>1, <1>2 DEF KnownInv
<1>3. ASSUME NEW c \in Connections, response'[c].token.kind = "signed"
      PROVE  Registered(response[c].token.username)'
  <2>1. Registered(response'[c].token.username)
    BY <1>3, ResponseStep DEF SessionInv, KnownInv
  <2> QED
    BY <2>1, <1>1 DEF Registered
<1>4. ASSUME NEW c \in Connections, request'[c].token.kind = "signed"
      PROVE  Registered(request[c].token.username)'
  <2>1. Registered(request'[c].token.username)
    BY <1>4, RequestStep DEF SessionInv
  <2> QED
    BY <2>1, <1>1 DEF Registered
<1> QED
  BY <1>2, <1>3, <1>4 DEF KnownInv

\* What a transaction has prepared is undisturbed by the others, who cannot
\* replace the row that it has locked.
LEMMA StaysPrepared ==
    ASSUME SessionInv, NEW c \in Connections, Prepared(c),
           pc'[c] = pc[c], request'[c] = request[c],
           snapshot'[c] = snapshot[c], pending'[c] = pending[c],
           \A r \in users : (\E p \in pending[c] : p.id = r.id) => r \in users'
    PROVE  Prepared(c)'
<1>1. Account(request[c])' = Account(request[c]) /\ NewRow(c)' = NewRow(c)
  BY DEF Account, NewRow
<1>2. ASSUME NEW r \in users, pending[c] = {MovedRow(c, r)}
      PROVE  r \in users' /\ pending'[c] = {MovedRow(c, r)'}
  <2>1. MovedRow(c, r)' = MovedRow(c, r)
    BY DEF MovedRow, NewBalance, Delta
  <2>2. r \in Row
    BY DEF SessionInv, TypeOK, TableTypeOK
  <2>3. MovedRow(c, r).id = r.id
    BY <2>2 DEF MovedRow, Row
  <2> QED
    BY <1>2, <2>1, <2>3
<1>3. At(c, "modify", "withdraw")' = At(c, "modify", "withdraw")
  BY DEF At
<1>4. (At(c, "modify", "withdraw") =>
          \E r \in snapshot[c] : r.username = Account(request[c]))'
  BY <1>1, <1>3 DEF Prepared
<1>5. CASE pc[c] = "commit"
  <2>1. CASE request[c].target = "register" /\ pending[c] = {NewRow(c)}
    BY <1>1, <1>4, <2>1 DEF Prepared
  <2>2. CASE request[c].target \in MoneyTargets
    <3>1. PICK r \in users : r.username = Account(request[c]) /\ pending[c] = {MovedRow(c, r)}
      BY <1>5, <2>2 DEF Prepared, MoneyTargets
    <3>2. r \in users' /\ pending'[c] = {MovedRow(c, r)'}
      BY <1>2, <3>1
    <3> QED
      BY <1>1, <1>4, <2>2, <3>1, <3>2 DEF Prepared
  <2> QED
    BY <1>5, <2>1, <2>2 DEF Prepared
<1> QED
  BY <1>4, <1>5 DEF Prepared

\* A thread that is not in a writing handler has prepared nothing.
LEMMA NothingPrepared ==
    ASSUME NEW c \in Connections, pc'[c] \notin {"modify", "commit"}
    PROVE  Prepared(c)'
BY DEF Prepared, At

\* The UPDATE of handle_deposit or handle_withdraw finds the row of its
\* account, and only that.
LEMMA UpdatePrepares ==
    ASSUME Wellkept, SessionInv, TableInv, LedgerInv, NEW c \in Connections,
           DepositUpdate(c) \/ WithdrawUpdate(c),
           ~UpdateRejected(Matched(c), NewVersions(c))
    PROVE  \E r \in users :
              r.username = Account(request[c]) /\ NewVersions(c) = {MovedRow(c, r)}
<1>1. request[c].target \in MoneyTargets
  BY DEF DepositUpdate, WithdrawUpdate, At, MoneyTargets
<1>2. Registered(Account(request[c]))
  <2>1. request[c].token.kind = "signed"
    BY <1>1 DEF DepositUpdate, WithdrawUpdate, At, LedgerInv, SentInv, TokenTargets
  <2> QED
    BY <1>1, <2>1 DEF LedgerInv, KnownInv, Account, TokenTargets
<1>3. \E r \in Matched(c) : TRUE
  <2>1. CASE Visible(c) = users
    BY <1>2, <2>1 DEF Registered, Matched, RowsOf
  <2>2. CASE Visible(c) = snapshot[c] /\ c \in inTxn
    <3>1. WithdrawUpdate(c)
      BY <2>2 DEF DepositUpdate, At, SessionInv, PhaseInv, BeforeTxn
    <3>2. \E r \in snapshot[c] : r.username = Account(request[c])
      BY <3>1 DEF WithdrawUpdate, LedgerInv, WriteInv, Prepared
    <3> QED
      BY <2>2, <3>2 DEF Matched, RowsOf
  <2> QED
    BY <2>1, <2>2 DEF Visible
<1>4. PICK r \in Matched(c) : TRUE
  BY <1>3
<1>5. Matched(c) \subseteq users
  BY DEF UpdateRejected
<1>6. \A s \in Matched(c) : s = r
  BY <1>4, <1>5 DEF Matched, RowsOf, TableInv, UniqueInv, Wellkept
<1>7. NewVersions(c) = {MovedRow(c, r)}
  BY <1>4, <1>6 DEF NewVersions, MovedRow
<1> QED
  BY <1>4, <1>5, <1>7 DEF Matched, RowsOf

LEMMA WriteNext ==
    ASSUME Wellkept, SessionInv, TableInv, LedgerInv, [Next]_vars
    PROVE  WriteInv'
<1> SUFFICES ASSUME NEW c \in Connections PROVE Prepared(c)'
  BY DEF WriteInv
<1>0. TypeOK /\ TableTypeOK /\ Prepared(c)
  BY DEF SessionInv, TypeOK, LedgerInv, WriteInv
<1>1. CASE UNCHANGED <<users, snapshot, pending, pc, request>>
  BY <1>0, <1>1, StaysPrepared
<1>2. ASSUME NEW d \in Connections,
             \/ Accept(d) \/ ReadRequest(d) \/ ReadFails(d) \/ WriteResponse(d)
             \/ WriteFails(d) \/ Route(d) \/ Login(d) \/ Profile(d)
      PROVE  Prepared(c)'
  <2>1. UNCHANGED <<users, snapshot, pending>>
    BY <1>2
    DEF Accept, ReadRequest, ReadFails, WriteResponse, WriteFails, Route, Login, Profile,
        tableVars
  <2>2. pc'[d] \notin {"modify", "commit"}
    BY <1>0, <1>2
    DEF Accept, ReadRequest, ReadFails, WriteResponse, WriteFails, Route, Login, Profile,
        Goto, Answer, TypeOK
  <2>3. c # d => pc'[c] = pc[c] /\ request'[c] = request[c]
    BY <1>0, <1>2
    DEF Accept, ReadRequest, ReadFails, WriteResponse, WriteFails, Route, Login, Profile,
        Goto, Answer, TypeOK
  <2> QED
    BY <1>0, <2>1, <2>2, <2>3, StaysPrepared, NothingPrepared
<1>3. ASSUME NEW d \in Connections, RegisterSelect(d) \/ WithdrawSelect(d)
      PROVE  Prepared(c)'
  <2>1. UNCHANGED <<users, pending, request>>
    BY <1>3 DEF RegisterSelect, WithdrawSelect, BeginWithSelect, tableVars
  <2>2. c # d => pc'[c] = pc[c] /\ snapshot'[c] = snapshot[c]
    BY <1>0, <1>3
    DEF RegisterSelect, WithdrawSelect, BeginWithSelect, tableVars, Goto, Answer, TypeOK,
        TableTypeOK
  <2>3. CASE c # d
    BY <1>0, <2>1, <2>2, <2>3, StaysPrepared
  <2>4. CASE RegisterSelect(c)
    BY <1>0, <2>4 DEF RegisterSelect, Goto, Answer, TypeOK, Prepared, At
  <2>5. CASE WithdrawSelect(c)
    <3>1. CASE pc'[c] \notin {"modify", "commit"}
      BY <3>1, NothingPrepared
    <3>2. CASE \E r \in Selected(c) : BeginWithSelect(c) /\ Goto(c, "modify")
      <4>1. pc'[c] = "modify" /\ snapshot'[c] = users
        BY <1>0, <3>2 DEF BeginWithSelect, Goto, TypeOK, TableTypeOK
      <4>2. \E r \in users : r.username = Account(request[c])
        BY <3>2 DEF Selected, RowsOf
      <4> QED
        BY <2>1, <4>1, <4>2 DEF Prepared, Account
    <3>3. CASE Answer(c, 404) \/ Answer(c, 400)
      BY <1>0, <3>1, <3>3 DEF Answer, Goto, TypeOK
    <3> QED
      BY <2>5, <3>2, <3>3 DEF WithdrawSelect
  <2> QED
    BY <1>3, <2>3, <2>4, <2>5
<1>4. ASSUME NEW d \in Connections,
             RegisterInsert(d) \/ DepositUpdate(d) \/ WithdrawUpdate(d)
      PROVE  Prepared(c)'
  <2>1. UNCHANGED <<users, request>>
    BY <1>4
    DEF RegisterInsert, DepositUpdate, WithdrawUpdate, Update, Rollback, WriteVersions
  <2>2. c # d => /\ pc'[c] = pc[c]
                 /\ snapshot'[c] = snapshot[c] /\ pending'[c] = pending[c]
    BY <1>0, <1>4
    DEF RegisterInsert, DepositUpdate, WithdrawUpdate, Update, Rollback, EndTxn,
        WriteVersions, Goto, Answer, TypeOK, TableTypeOK
  <2>3. CASE c # d
    BY <1>0, <2>1, <2>2, <2>3, StaysPrepared
  <2>4. CASE Answer(c, 500)
    BY <1>0, <2>4, NothingPrepared DEF Answer, Goto, TypeOK
  <2>5. CASE RegisterInsert(c) /\ WriteVersions(c, {NewRow(c)}) /\ Goto(c, "commit")
    <3>1. pc'[c] = "commit" /\ pending'[c] = {NewRow(c)'} /\ request'[c].target = "register"
      BY <1>0, <2>1, <2>5
      DEF RegisterInsert, At, WriteVersions, Goto, TypeOK, TableTypeOK, NewRow
    <3> QED
      BY <3>1 DEF Prepared, At
  <2>6. CASE /\ DepositUpdate(c) \/ WithdrawUpdate(c)
             /\ ~UpdateRejected(Matched(c), NewVersions(c))
             /\ WriteVersions(c, NewVersions(c)) /\ Goto(c, "commit")
    <3>1. PICK r \in users :
             r.username = Account(request[c]) /\ NewVersions(c) = {MovedRow(c, r)}
      BY <2>6, UpdatePrepares
    <3>2. pc'[c] = "commit" /\ pending'[c] = NewVersions(c)
      BY <1>0, <2>6 DEF WriteVersions, Goto, TypeOK, TableTypeOK
    <3>3. request[c].target \in MoneyTargets
      BY <2>6 DEF DepositUpdate, WithdrawUpdate, At, MoneyTargets
    <3>4. MovedRow(c, r)' = MovedRow(c, r) /\ Account(request[c])' = Account(request[c])
      BY <2>1 DEF MovedRow, NewBalance, Delta, Account
    <3> QED
      BY <2>1, <3>1, <3>2, <3>3, <3>4 DEF Prepared, At
  <2>7. CASE DepositUpdate(c) \/ WithdrawUpdate(c)
    BY <2>4, <2>6, <2>7 DEF DepositUpdate, WithdrawUpdate, Update
  <2>8. CASE RegisterInsert(c)
    BY <2>4, <2>5, <2>8 DEF RegisterInsert
  <2> QED
    BY <1>4, <2>3, <2>7, <2>8
<1>5. ASSUME NEW d \in Connections, Commit(d) \/ CommitInDoubt(d) PROVE Prepared(c)'
  <2>1. /\ CommitTxn(d) /\ request' = request
        /\ \E status \in {200, 500} : Answer(d, status)
    BY <1>5 DEF Commit, CommitInDoubt
  <2>2. CASE c = d
    BY <1>0, <2>1, <2>2, NothingPrepared DEF Answer, Goto, TypeOK
  <2>3. CASE c # d
    <3>1. pc'[c] = pc[c] /\ snapshot'[c] = snapshot[c] /\ pending'[c] = pending[c]
      BY <1>0, <2>1, <2>3 DEF CommitTxn, EndTxn, Answer, Goto, TypeOK, TableTypeOK
    <3>2. \A r \in users : (\E p \in pending[c] : p.id = r.id) => r \in users'
      BY <2>1, <2>3 DEF CommitTxn, Superseded, TableInv, LockInv
    <3> QED
      BY <1>0, <2>1, <3>1, <3>2, StaysPrepared
  <2> QED
    BY <2>2, <2>3
<1>6. ASSUME NEW d \in Connections, DatabaseError(d) \/ Reap(d) PROVE Prepared(c)'
  <2>1. UNCHANGED <<users, request>> /\ Rollback(d)
    BY <1>6 DEF DatabaseError, Reap, Rollback, sessionVars
  <2>2. CASE c = d
    BY <1>0, <1>6, <2>2, NothingPrepared
    DEF DatabaseError, Reap, Answer, Goto, sessionVars, TypeOK
  <2>3. CASE c # d
    <3>1. pc'[c] = pc[c] /\ snapshot'[c] = snapshot[c] /\ pending'[c] = pending[c]
      BY <1>0, <1>6, <2>1, <2>3
      DEF DatabaseError, Reap, Rollback, EndTxn, Answer, Goto, sessionVars, TypeOK, TableTypeOK
    <3> QED
      BY <1>0, <2>1, <3>1, StaysPrepared
  <2> QED
    BY <2>2, <2>3
<1>7. CASE ServerExits
  <2>1. UNCHANGED <<users, snapshot, pending, request>>
    BY <1>7 DEF ServerExits, tableVars
  <2>2. pc'[c] \in {pc[c], "lost"}
    BY <1>7 DEF ServerExits
  <2> QED
    BY <1>0, <2>1, <2>2, StaysPrepared, NothingPrepared
<1>8. CASE Restart \/ Tick \/ RemoveAccount \/ Quiescent
  BY <1>1, <1>8 DEF Restart, Tick, RemoveAccount, Quiescent, vars, tableVars, Wellkept
<1> QED
  BY <1>1, <1>2, <1>3, <1>4, <1>5, <1>6, <1>7, <1>8 DEF Next, SessionStep, Fault, vars

LEMMA TimeNext ==
    ASSUME TypeOK, now <= MaxTime, [Next]_vars
    PROVE  now' <= MaxTime
<1>1. now \in Nat /\ MaxTime \in Nat
  BY ServerAssumption DEF TypeOK
<1>2. CASE now' = now
  BY <1>2
<1>3. CASE Tick
  BY <1>1, <1>3 DEF Tick
<1> QED
  BY <1>2, <1>3, ZenonT(60)
  DEF Next, SessionStep, Fault, Accept, ReadRequest, ReadFails, WriteResponse, WriteFails,
      Route, Login, Profile, RegisterSelect, RegisterInsert, DepositUpdate, WithdrawUpdate,
      WithdrawSelect, Update, Commit, CommitInDoubt, DatabaseError, Reap, ServerExits,
      Restart, RemoveAccount, Quiescent, vars, sessionVars

LEMMA LedgerNext ==
    ASSUME Wellkept, SessionInv, TableInv, LedgerInv, [Next]_vars
    PROVE  LedgerInv'
<1>1. TypeOK /\ SentInv /\ KnownInv /\ now <= MaxTime
  BY DEF SessionInv, LedgerInv
<1>2. SentInv' /\ KnownInv'
  BY <1>1, SentNext, KnownNext
<1>3. WriteInv'
  BY WriteNext
<1>4. now' <= MaxTime
  BY <1>1, TimeNext
<1> QED
  BY <1>2, <1>3, <1>4 DEF LedgerInv
-------------------------------------------------------------------------------
(***************************************************************************)
(* The refinement.                                                         *)
(***************************************************************************)

AccountOf(r) == [password |-> r.password, balance |-> r.balance]

UniqueNames(table) == \A r, s \in table : r.username = s.username => r = s

\* With unique usernames the accounts are the rows.
LEMMA AccountsFacts ==
    ASSUME NEW table, UniqueNames(table)
    PROVE  /\ DOMAIN AccountsOf(table) = {r.username : r \in table}
           /\ \A r \in table : AccountsOf(table)[r.username] = AccountOf(r)
<1>1. DOMAIN AccountsOf(table) = {r.username : r \in table}
  BY DEF AccountsOf
<1>2. ASSUME NEW r \in table PROVE AccountsOf(table)[r.username] = AccountOf(r)
  <2>1. (CHOOSE s \in table : s.username = r.username) = r
    BY DEF UniqueNames
  <2> QED
    BY <2>1 DEF AccountsOf, AccountOf
<1> QED
  BY <1>1, <1>2

LEMMA NamesAreUnique ==
    ASSUME Wellkept, TableInv
    PROVE  UniqueNames(users)
BY DEF Wellkept, TableInv, UniqueInv, UniqueNames

LEMMA RegisteredAccounts ==
    ASSUME Wellkept, TableInv, NEW u
    PROVE  Accounts!Registered(u) <=> Registered(u)
<1>1. DOMAIN AccountsOf(users) = {r.username : r \in users}
  BY NamesAreUnique, AccountsFacts
<1>2. (u \in {r.username : r \in users}) <=> Registered(u)
  BY DEF Registered
<1> QED
  BY <1>1, <1>2 DEF Accounts!Registered

\* The labels between reading a request and answering it.
Serving == {"route", "query", "modify", "commit"}

LEMMA Replies ==
    ASSUME LedgerInv, NEW c \in Connections, pc[c] \in Serving, NEW answer,
           response' = [response EXCEPT ![c] = answer]
    PROVE  Accounts!Reply(c, answer)
<1>1. request[c] # NoRequest /\ response[c] = NoResponse
  BY DEF LedgerInv, SentInv, Serving, BeforeAnswer, BeforeTxn
<1> QED
  BY <1>1 DEF Accounts!Reply, Accounts!NoRequest, NoRequest, Accounts!NoResponse, NoResponse,
              Accounts!NoToken, NoToken

LEMMA Refuses ==
    ASSUME SessionInv, LedgerInv, NEW c \in Connections, pc[c] \in Serving,
           NEW status \in Statuses, Answer(c, status),
           Accounts!Justified(request[c], status),
           UNCHANGED <<users, request, committed>>
    PROVE  Accounts!Refuse(c)
<1>1. Accounts!Reply(c, Accounts!make_response(status))
  BY Replies DEF Answer, make_response, Accounts!make_response, NoToken, Accounts!NoToken
<1>2. c \notin committed
  BY DEF SessionInv, PhaseInv, BeforeAnswer, BeforeTxn, Serving
<1>3. status \in Accounts!Statuses
  BY DEF Statuses, Accounts!Statuses
<1>4. UNCHANGED AccountsOf(users)
  BY DEF AccountsOf
<1> QED
  BY <1>1, <1>2, <1>3, <1>4 DEF Accounts!Refuse

LEMMA RefusesWith500 ==
    ASSUME SessionInv, LedgerInv, NEW c \in Connections, pc[c] \in Serving,
           Answer(c, 500), UNCHANGED <<users, request, committed>>
    PROVE  Accounts!Refuse(c)
BY Refuses, StatusesTyped DEF Accounts!Justified

LEMMA SameAccount ==
    ASSUME NEW q
    PROVE  Accounts!Account(q) = Account(q)
BY DEF Account, Accounts!Account, TokenTargets, Accounts!TokenTargets, MoneyTargets,
       Accounts!MoneyTargets

LEMMA SameDelta ==
    ASSUME NEW q
    PROVE  Accounts!Delta(q) = Delta(q)
BY DEF Delta, Accounts!Delta

LEMMA Receives ==
    ASSUME SessionInv, LedgerInv, NEW c \in Connections, ReadRequest(c)
    PROVE  Accounts!Receive(c)
<1>1. request[c] = NoRequest
  BY DEF ReadRequest, LedgerInv, SentInv
<1>2. PICK q \in Requests : request' = [request EXCEPT ![c] = q]
  BY DEF ReadRequest
<1>3. q \in Request /\ request'[c] = q
  BY <1>2, RequestsTyped DEF SessionInv, TypeOK
<1>4. UNCHANGED <<AccountsOf(users), response, committed>>
  BY DEF ReadRequest, tableVars, AccountsOf
<1>5. Request = Accounts!Request
  BY DEF Request, Accounts!Request, AllTargets, Accounts!AllTargets, CredentialTargets,
         Accounts!CredentialTargets, TokenTargets, Accounts!TokenTargets, MoneyTargets,
         Accounts!MoneyTargets, UnknownTargets, Accounts!UnknownTargets, Token, Accounts!Token
<1>6. NoRequest = Accounts!NoRequest
  BY DEF NoRequest, Accounts!NoRequest, NoToken, Accounts!NoToken
<1> QED
  BY <1>1, <1>2, <1>3, <1>4, <1>5, <1>6 DEF Accounts!Receive

\* A status is early for a reason that the request itself gives.
LEMMA EarlyReasons ==
    ASSUME NEW q, EarlyStatus(q) # 0
    PROVE  Accounts!Justified(q, EarlyStatus(q))
<1>1. CASE q.target \in UnknownTargets
  <2>1. EarlyStatus(q) = 404
    BY <1>1
    DEF EarlyStatus, Unauthorized, Malformed, NotPositive,
        UnknownTargets, TokenTargets, MoneyTargets, CredentialTargets
  <2> QED
    BY <1>1, <2>1 DEF Accounts!Justified, UnknownTargets, Accounts!UnknownTargets
<1>2. CASE q.target = "otherMethod"
  <2>1. EarlyStatus(q) = 405
    BY <1>2
    DEF EarlyStatus, Unauthorized, Malformed, NotPositive,
        UnknownTargets, TokenTargets, MoneyTargets, CredentialTargets
  <2> QED
    BY <1>2, <2>1 DEF Accounts!Justified
<1>3. CASE q.target \notin UnknownTargets /\ q.target # "otherMethod"
  <2>1. CASE Unauthorized(q)
    <3>1. EarlyStatus(q) = 401
      BY <1>3, <2>1 DEF EarlyStatus, Unauthorized
    <3>2. q.target \in Accounts!TokenTargets
      BY <2>1 DEF Unauthorized, TokenTargets, Accounts!TokenTargets, MoneyTargets,
                  Accounts!MoneyTargets
    <3> QED
      BY <3>1, <3>2 DEF Accounts!Justified
  <2>2. CASE ~Unauthorized(q) /\ Malformed(q)
    <3>1. EarlyStatus(q) = 500
      BY <1>3, <2>2 DEF EarlyStatus
    <3> QED
      BY <3>1 DEF Accounts!Justified
  <2>3. CASE ~Unauthorized(q) /\ ~Malformed(q) /\ NotPositive(q)
    <3>1. EarlyStatus(q) = 400
      BY <1>3, <2>3 DEF EarlyStatus
    <3>2. Accounts!BadRequest(q)
      BY <2>3 DEF NotPositive, MoneyTargets, Accounts!BadRequest, Accounts!MoneyTargets
    <3> QED
      BY <3>1, <3>2 DEF Accounts!Justified
  <2>4. CASE ~Unauthorized(q) /\ ~Malformed(q) /\ ~NotPositive(q)
    BY <1>3, <2>4 DEF EarlyStatus
  <2> QED
    BY <2>1, <2>2, <2>3, <2>4
<1> QED
  BY <1>1, <1>2, <1>3

\* The early returns of do_session and of the handlers.
LEMMA RouteRefines ==
    ASSUME SessionInv, LedgerInv, NEW c \in Connections, Route(c)
    PROVE  Accounts!Refuse(c) \/ UNCHANGED <<users, request, response, committed>>
<1>1. UNCHANGED <<users, request, committed>> /\ pc[c] \in Serving
  BY DEF Route, tableVars, Serving
<1>2. CASE UNCHANGED response
  BY <1>1, <1>2
<1>3. CASE EarlyStatus(request[c]) # 0 /\ Answer(c, EarlyStatus(request[c]))
  <2>1. EarlyStatus(request[c]) \in Statuses
    BY <1>3 DEF EarlyStatus, Statuses
  <2>2. Accounts!Justified(request[c], EarlyStatus(request[c]))
    BY <1>3, EarlyReasons
  <2> QED
    BY <1>1, <1>3, <2>1, <2>2, Refuses
<1> QED
  BY <1>2, <1>3 DEF Route

LEMMA RegisterRefines ==
    ASSUME Wellkept, SessionInv, TableInv, LedgerInv, NEW c \in Connections,
           RegisterSelect(c) \/ RegisterInsert(c)
    PROVE  Accounts!Refuse(c) \/ UNCHANGED <<users, request, response, committed>>
<1>1. /\ UNCHANGED <<users, request, committed>> /\ pc[c] \in Serving
      /\ request[c].target = "register"
  BY DEF RegisterSelect, RegisterInsert, BeginWithSelect, WriteVersions, Rollback, tableVars,
         Serving, At
<1>2. CASE UNCHANGED response
  BY <1>1, <1>2
<1>3. CASE Selected(c) # {} /\ Answer(c, 400)
  <2>1. Account(request[c]) = request[c].username
    BY <1>1 DEF Account, TokenTargets, MoneyTargets
  <2>2. Accounts!Registered(request[c].username)
    BY <1>3, <2>1, RegisteredAccounts DEF Selected, RowsOf, Registered
  <2>3. Accounts!Justified(request[c], 400)
    BY <1>1, <2>2 DEF Accounts!Justified, Accounts!BadRequest
  <2> QED
    BY <1>1, <1>3, <2>3, Refuses, StatusesTyped
<1>4. CASE Answer(c, 500)
  BY <1>1, <1>4, RefusesWith500
<1> QED
  BY <1>2, <1>3, <1>4 DEF RegisterSelect, RegisterInsert

\* The account of a request whose token has verified is there: the 404 "User
\* not found" of the handlers is never given.
LEMMA AccountIsThere ==
    ASSUME LedgerInv, NEW c \in Connections, pc[c] \in {"query", "modify", "commit"},
           request[c].target \in TokenTargets
    PROVE  Selected(c) # {}
<1>1. request[c].token.kind = "signed"
  BY DEF LedgerInv, SentInv
<1>2. Registered(Account(request[c]))
  BY <1>1 DEF LedgerInv, KnownInv, Account
<1> QED
  BY <1>2 DEF Registered, Selected, RowsOf

\* A row that a SELECT returns is the account of the request.
LEMMA SelectedAccount ==
    ASSUME Wellkept, TableInv, NEW c \in Connections, NEW r \in Selected(c)
    PROVE  /\ Accounts!Registered(Accounts!Account(request[c]))
           /\ AccountsOf(users)[Accounts!Account(request[c])].password = r.password
           /\ AccountsOf(users)[Accounts!Account(request[c])].balance = r.balance
<1>1. r \in users /\ r.username = Account(request[c])
  BY DEF Selected, RowsOf
<1>2. AccountsOf(users)[r.username] = AccountOf(r)
  BY <1>1, NamesAreUnique, AccountsFacts
<1>3. Accounts!Registered(r.username)
  BY <1>1, RegisteredAccounts DEF Registered
<1>4. AccountOf(r).password = r.password /\ AccountOf(r).balance = r.balance
  BY DEF AccountOf
<1>5. Accounts!Account(request[c]) = r.username
  BY <1>1, SameAccount
<1> QED
  BY <1>2, <1>3, <1>4, <1>5

LEMMA LoginRefines ==
    ASSUME Wellkept, SessionInv, TableInv, LedgerInv, NEW c \in Connections, Login(c)
    PROVE  Accounts!Refuse(c) \/ Accounts!Show(c)
<1>1. /\ UNCHANGED <<users, request, committed>> /\ pc[c] \in Serving
      /\ request[c].target = "login"
  BY DEF Login, tableVars, Serving, At
<1>2. Account(request[c]) = request[c].username
  BY <1>1 DEF Account, TokenTargets, MoneyTargets
<1>3. CASE Answer(c, 400) /\ ~Accounts!LoginAccepted(request[c])
  <2>1. Accounts!Justified(request[c], 400)
    BY <1>1, <1>3 DEF Accounts!Justified, Accounts!BadRequest
  <2> QED
    BY <1>1, <1>3, <2>1, Refuses, StatusesTyped
<1>4. CASE Selected(c) = {} /\ Answer(c, 400)
  <2>1. ~Registered(request[c].username)
    BY <1>2, <1>4 DEF Selected, RowsOf, Registered
  <2> QED
    BY <1>3, <1>4, <2>1, RegisteredAccounts DEF Accounts!LoginAccepted
<1>5. ASSUME NEW r \in Selected(c)
      PROVE  /\ Accounts!Registered(request[c].username)
             /\ AccountsOf(users)[request[c].username].password = r.password
             /\ AccountsOf(users)[request[c].username].balance = r.balance
  BY <1>2, SelectedAccount, SameAccount
<1>6. ASSUME NEW r \in Selected(c), r.password # request[c].password, Answer(c, 400)
      PROVE  Accounts!Refuse(c) \/ Accounts!Show(c)
  <2>1. ~Accounts!LoginAccepted(request[c])
    BY <1>5, <1>6 DEF Accounts!LoginAccepted
  <2> QED
    BY <1>3, <1>6, <2>1
<1>7. ASSUME NEW r \in Selected(c), r.password = request[c].password,
             response' = [response EXCEPT ![c] =
                [status |-> 200, balance |-> r.balance,
                 token |-> generate_jwt_token(request[c].username)]]
      PROVE  Accounts!Show(c)
  <2> DEFINE answer == [status |-> 200, balance |-> r.balance,
                        token |-> generate_jwt_token(request[c].username)]
  <2>1. Accounts!Reply(c, answer)
    BY <1>1, <1>7, Replies
  <2>2. now + TokenLife \in 0..(MaxTime + TokenLife)
    <3>1. now \in Nat /\ MaxTime \in Nat /\ TokenLife \in Nat /\ now <= MaxTime
      BY ServerAssumption DEF SessionInv, TypeOK, LedgerInv
    <3> QED
      BY <3>1
  <2>3. answer.token = [kind |-> "signed", username |-> request[c].username,
                        exp |-> now + TokenLife]
    BY DEF generate_jwt_token
  <2>4. Accounts!LoginAccepted(request[c])
    BY <1>5, <1>7 DEF Accounts!LoginAccepted
  <2>5. AccountsOf(users)[request[c].username].balance = r.balance
    BY <1>5
  <2>6. UNCHANGED AccountsOf(users)
    BY <1>1 DEF AccountsOf
  <2>7. Accounts!Account(request[c]) = request[c].username
    BY <1>2, SameAccount
  <2>8. \E exp \in 0..(MaxTime + TokenLife) :
           Accounts!Reply(c, [status |-> 200,
              balance |-> AccountsOf(users)[request[c].username].balance,
              token |-> [kind |-> "signed", username |-> request[c].username,
                         exp |-> exp]])
    BY <2>1, <2>2, <2>3, <2>5
  <2> HIDE DEF answer
  <2> QED
    BY <1>1, <1>5, <2>4, <2>6, <2>7, <2>8 DEF Accounts!Show
<1> QED
  BY <1>4, <1>6, <1>7 DEF Login

LEMMA ProfileRefines ==
    ASSUME Wellkept, SessionInv, TableInv, LedgerInv, NEW c \in Connections, Profile(c)
    PROVE  Accounts!Show(c)
<1>1. /\ UNCHANGED <<users, request, committed>> /\ pc[c] \in Serving
      /\ request[c].target = "profile"
  BY DEF Profile, tableVars, Serving, At
<1>2. Selected(c) # {}
  BY <1>1, AccountIsThere DEF Profile, At, TokenTargets
<1>3. PICK r \in Selected(c) :
         response' = [response EXCEPT ![c] =
            [status |-> 200, balance |-> r.balance, token |-> NoToken]]
  BY <1>2 DEF Profile
<1>4. Accounts!Reply(c, [status |-> 200, balance |-> r.balance, token |-> NoToken])
  BY <1>1, <1>3, Replies
<1>5. /\ Accounts!Registered(Accounts!Account(request[c]))
      /\ AccountsOf(users)[Accounts!Account(request[c])].balance = r.balance
  BY SelectedAccount
<1>6. UNCHANGED AccountsOf(users) /\ NoToken = Accounts!NoToken
  BY <1>1 DEF AccountsOf, NoToken, Accounts!NoToken
<1>7. Accounts!Reply(c, [status |-> 200,
         balance |-> AccountsOf(users)[Accounts!Account(request[c])].balance,
         token |-> Accounts!NoToken])
  BY <1>4, <1>5, <1>6
<1> QED
  BY <1>1, <1>5, <1>6, <1>7 DEF Accounts!Show

LEMMA UpdateRefines ==
    ASSUME SessionInv, LedgerInv, NEW c \in Connections, DepositUpdate(c) \/ WithdrawUpdate(c)
    PROVE  Accounts!Refuse(c) \/ UNCHANGED <<users, request, response, committed>>
<1>1. UNCHANGED <<users, request, committed>> /\ pc[c] \in Serving
  BY DEF DepositUpdate, WithdrawUpdate, Update, WriteVersions, Rollback, Serving, At
<1>2. CASE UNCHANGED response
  BY <1>1, <1>2
<1>3. CASE Answer(c, 500)
  BY <1>1, <1>3, RefusesWith500
<1> QED
  BY <1>2, <1>3 DEF DepositUpdate, WithdrawUpdate, Update

LEMMA WithdrawRefines ==
    ASSUME Wellkept, SessionInv, TableInv, LedgerInv, NEW c \in Connections,
           WithdrawSelect(c)
    PROVE  Accounts!Refuse(c) \/ UNCHANGED <<users, request, response, committed>>
<1>1. /\ UNCHANGED <<users, request, committed>> /\ pc[c] \in Serving
      /\ request[c].target = "withdraw"
  BY DEF WithdrawSelect, BeginWithSelect, tableVars, Serving, At
<1>2. CASE UNCHANGED response
  BY <1>1, <1>2
<1>3. ASSUME NEW r \in Selected(c), InsufficientFunds(request[c], r), Answer(c, 400)
      PROVE  Accounts!Refuse(c)
  <2>1. /\ Accounts!Registered(Accounts!Account(request[c]))
        /\ AccountsOf(users)[Accounts!Account(request[c])].balance = r.balance
    BY SelectedAccount
  <2>2. r.balance \in Int /\ request[c].amount \in Int
    BY DEF Selected, RowsOf, SessionInv, TypeOK, TableTypeOK, Row, Request
  <2>3. request[c].amount > r.balance
    BY <1>3, <2>2 DEF InsufficientFunds
  <2>4. Accounts!Justified(request[c], 400)
    BY <1>1, <2>1, <2>3 DEF Accounts!Justified, Accounts!BadRequest
  <2> QED
    BY <1>1, <1>3, <2>4, Refuses, StatusesTyped
<1>4. Selected(c) # {}
  BY <1>1, AccountIsThere DEF WithdrawSelect, At, TokenTargets, MoneyTargets
<1> QED
  BY <1>2, <1>3, <1>4 DEF WithdrawSelect

\* The commit of handle_register opens one account.
LEMMA RegisterCommits ==
    ASSUME Wellkept, SessionInv, TableInv, UniqueNames(users)', NEW c \in Connections,
           pc[c] = "commit", request[c].target = "register",
           pending[c] = {NewRow(c)}, CommitTxn(c)
    PROVE  Accounts!Register(c)
<1> DEFINE u == request[c].username
           account == [password |-> request[c].password, balance |-> DefaultBalance]
           opened == [v \in DOMAIN AccountsOf(users) \cup {u} |->
                         IF v = u THEN account ELSE AccountsOf(users)[v]]
<1>1. NewRow(c).id = c /\ NewRow(c).username = u /\ AccountOf(NewRow(c)) = account
  BY DEF NewRow, AccountOf
<1>2. c \notin committed
  BY DEF SessionInv, PhaseInv, BeforeAnswer
<1>3. Superseded(c) = {}
  BY <1>1, <1>2 DEF Superseded, TableInv, KeyInv
<1>4. users' = users \cup {NewRow(c)}
  BY <1>3 DEF CommitTxn
<1>5. ~Accounts!Registered(u)
  <2>1. \A r \in users : r.username # u
    BY <1>1 DEF TableInv, UniqueInv, Wellkept
  <2> QED
    BY <2>1, RegisteredAccounts DEF Registered
<1>6. /\ DOMAIN AccountsOf(users) = {r.username : r \in users}
      /\ \A r \in users : AccountsOf(users)[r.username] = AccountOf(r)
  BY NamesAreUnique, AccountsFacts
<1>7. /\ DOMAIN AccountsOf(users') = {r.username : r \in users'}
      /\ \A r \in users' : AccountsOf(users')[r.username] = AccountOf(r)
  BY AccountsFacts DEF UniqueNames
<1>8. AccountsOf(users') = opened
  <2>1. DOMAIN AccountsOf(users') = DOMAIN opened
    <3>1. {r.username : r \in users'} = {r.username : r \in users} \cup {u}
      BY <1>1, <1>4
    <3>2. DOMAIN opened = {r.username : r \in users} \cup {u}
      BY <1>6
    <3> HIDE DEF opened
    <3> QED
      BY <1>7, <3>1, <3>2
  <2>2. ASSUME NEW v \in DOMAIN opened PROVE AccountsOf(users')[v] = opened[v]
    <3>1. CASE v = u
      BY <1>1, <1>4, <1>7, <3>1
    <3>2. CASE v # u
      <4>1. PICK r \in users : r.username = v
        BY <1>6, <3>2
      <4> QED
        BY <1>4, <1>6, <1>7, <3>2, <4>1
    <3> QED
      BY <3>1, <3>2
  <2>3. AccountsOf(users') = [v \in DOMAIN AccountsOf(users') |-> AccountsOf(users')[v]]
    BY DEF AccountsOf
  <2> QED
    BY <2>1, <2>2, <2>3
<1>9. AccountsOf(users)' = AccountsOf(users')
  BY DEF AccountsOf
<1> QED
  BY <1>5, <1>8, <1>9 DEF Accounts!Register

\* The commit of handle_deposit and of handle_withdraw moves one balance.
LEMMA MoneyCommits ==
    ASSUME Wellkept, SessionInv, TableInv, UniqueNames(users)', NEW c \in Connections,
           pc[c] = "commit", request[c].target \in MoneyTargets, NEW r \in users,
           r.username = Account(request[c]), pending[c] = {MovedRow(c, r)}, CommitTxn(c)
    PROVE  Accounts!MoveMoney(c)
<1> DEFINE u == Account(request[c])
           delta == Delta(request[c])
           moved == MovedRow(c, r)
           balanced == [AccountsOf(users) EXCEPT ![u].balance = @ + delta]
<1>1. r \in Row /\ r.balance \in Int /\ request[c].amount \in Int
  BY DEF SessionInv, TypeOK, TableTypeOK, Row, Request
<1>2. /\ moved.id = r.id /\ moved.username = u /\ moved.password = r.password
      /\ moved.balance = r.balance + delta
  BY <1>1 DEF MovedRow, NewBalance, Row
<1>3. AccountOf(moved) = [AccountOf(r) EXCEPT !.balance = @ + delta]
  BY <1>2 DEF AccountOf
<1> HIDE DEF moved
<1>4. Superseded(c) = {r}
  BY <1>2 DEF moved, Superseded, TableInv, KeyInv
<1>5. users' = (users \ {r}) \cup {moved}
  BY <1>4 DEF moved, CommitTxn
<1>6. /\ DOMAIN AccountsOf(users) = {s.username : s \in users}
      /\ \A s \in users : AccountsOf(users)[s.username] = AccountOf(s)
  BY NamesAreUnique, AccountsFacts
<1>7. /\ DOMAIN AccountsOf(users') = {s.username : s \in users'}
      /\ \A s \in users' : AccountsOf(users')[s.username] = AccountOf(s)
  BY AccountsFacts DEF UniqueNames
<1>8. AccountsOf(users') = balanced
  <2>1. DOMAIN AccountsOf(users') = DOMAIN balanced
    <3>1. {s.username : s \in users'} = {s.username : s \in users}
      <4>1. ASSUME NEW s \in users' PROVE \E w \in users : w.username = s.username
        BY <1>2, <1>5
      <4>2. ASSUME NEW s \in users PROVE \E w \in users' : w.username = s.username
        BY <1>2, <1>5
      <4> QED
        BY <4>1, <4>2
    <3>2. DOMAIN balanced = DOMAIN AccountsOf(users)
      OBVIOUS
    <3> HIDE DEF balanced
    <3> QED
      BY <1>6, <1>7, <3>1, <3>2
  <2>2. ASSUME NEW v \in DOMAIN balanced PROVE AccountsOf(users')[v] = balanced[v]
    <3>1. CASE v = u
      <4>1. AccountsOf(users')[u] = AccountOf(moved)
        BY <1>2, <1>5, <1>7
      <4>2. AccountsOf(users)[u] = AccountOf(r) /\ u \in DOMAIN AccountsOf(users)
        BY <1>6
      <4> QED
        BY <1>3, <3>1, <4>1, <4>2
    <3>2. CASE v # u
      <4>1. PICK s \in users : s.username = v
        BY <1>6
      <4>2. s \in users' /\ s # r
        BY <1>5, <3>2, <4>1
      <4> QED
        BY <1>6, <1>7, <3>2, <4>1, <4>2
    <3> QED
      BY <3>1, <3>2
  <2>3. AccountsOf(users') = [v \in DOMAIN AccountsOf(users') |-> AccountsOf(users')[v]]
    BY DEF AccountsOf
  <2>4. balanced = [v \in DOMAIN balanced |-> balanced[v]]
    OBVIOUS
  <2> HIDE DEF balanced
  <2> QED
    BY <2>1, <2>2, <2>3, <2>4
<1>9. AccountsOf(users)' = AccountsOf(users')
  BY DEF AccountsOf
<1>10. Accounts!Registered(u)
  BY RegisteredAccounts DEF Registered
<1>11. request[c].amount > 0
  BY DEF SessionInv, RequestInv
<1>12. Accounts!Covered(request[c], u)
  <2> SUFFICES ASSUME request[c].target = "withdraw", OverdraftGuarded
               PROVE  request[c].amount <= AccountsOf(users)[u].balance
    BY DEF Accounts!Covered
  <2>1. moved.balance >= 0
    BY DEF moved, TableInv, CoveredInv
  <2>2. delta = 0 - request[c].amount
    BY DeltaCases
  <2>3. AccountsOf(users)[u].balance = r.balance
    <3>1. AccountsOf(users)[u] = AccountOf(r)
      BY <1>6
    <3>2. AccountOf(r).balance = r.balance
      BY DEF AccountOf
    <3> QED
      BY <3>1, <3>2
  <2> QED
    BY <1>1, <1>2, <2>1, <2>2, <2>3
<1>13. Accounts!Account(request[c]) = u /\ Accounts!Delta(request[c]) = delta
  BY SameAccount, SameDelta
<1>14. request[c].target \in Accounts!MoneyTargets
  BY DEF MoneyTargets, Accounts!MoneyTargets
<1> HIDE DEF u, delta
<1> QED
  BY <1>8, <1>9, <1>10, <1>11, <1>12, <1>13, <1>14 DEF Accounts!MoveMoney

LEMMA CommitRefines ==
    ASSUME Wellkept, SessionInv, TableInv, LedgerInv, UniqueNames(users)',
           NEW c \in Connections, Commit(c) \/ CommitInDoubt(c)
    PROVE  Accounts!Effect(c)
<1>1. /\ pc[c] = "commit" /\ CommitTxn(c) /\ request' = request
      /\ \E status \in {200, 500} : Answer(c, status)
  BY DEF Commit, CommitInDoubt
<1>2. Accounts!Register(c) \/ Accounts!MoveMoney(c)
  <2>1. CASE request[c].target = "register" /\ pending[c] = {NewRow(c)}
    BY <1>1, <2>1, RegisterCommits
  <2>2. CASE /\ request[c].target \in MoneyTargets
             /\ \E r \in users :
                   r.username = Account(request[c]) /\ pending[c] = {MovedRow(c, r)}
    BY <1>1, <2>2, MoneyCommits
  <2> QED
    BY <1>1, <2>1, <2>2 DEF LedgerInv, WriteInv, Prepared
<1>3. \E status \in {200, 500} : Accounts!Reply(c, Accounts!make_response(status))
  <2>1. PICK status \in {200, 500} : Answer(c, status)
    BY <1>1
  <2>2. response' = [response EXCEPT ![c] = make_response(status)]
    BY <2>1 DEF Answer
  <2>3. pc[c] \in Serving
    BY <1>1 DEF Serving
  <2>4. Accounts!Reply(c, make_response(status))
    BY <2>2, <2>3, Replies
  <2>5. make_response(status) = Accounts!make_response(status)
    BY DEF make_response, Accounts!make_response, NoToken, Accounts!NoToken
  <2> QED
    BY <2>4, <2>5
<1>4. c \notin committed /\ committed' = committed \cup {c}
  BY <1>1 DEF SessionInv, PhaseInv, BeforeAnswer, CommitTxn
<1> QED
  BY <1>1, <1>2, <1>3, <1>4 DEF Accounts!Effect

LEMMA LedgerInitRefines ==
    ASSUME Init
    PROVE  Accounts!Init
BY DEF Init, TableInit, Accounts!Init, NoRequest, Accounts!NoRequest, NoResponse,
       Accounts!NoResponse, NoToken, Accounts!NoToken

LEMMA LedgerStep ==
    ASSUME Wellkept, SessionInv, TableInv, LedgerInv, [Next]_vars
    PROVE  [Accounts!Next]_(Accounts!vars)
<1>0. UniqueNames(users)'
  <2>1. TableInv'
    BY TableNext
  <2> QED
    BY <2>1 DEF TableInv, UniqueInv, UniqueNames, Wellkept
<1>1. CASE UNCHANGED <<users, request, response, committed>>
  <2>1. UNCHANGED AccountsOf(users)
    BY <1>1 DEF AccountsOf
  <2> QED
    BY <1>1, <2>1 DEF Accounts!vars
<1>2. ASSUME NEW c \in Connections,
             \/ Accept(c) \/ ReadFails(c) \/ WriteResponse(c) \/ WriteFails(c) \/ Reap(c)
      PROVE  UNCHANGED <<users, request, response, committed>>
  BY <1>2
  DEF Accept, ReadFails, WriteResponse, WriteFails, Reap, Rollback, tableVars, sessionVars
<1>3. ASSUME NEW c \in Connections, ReadRequest(c) PROVE Accounts!Next
  BY <1>3, Receives DEF Accounts!Next
<1>4. ASSUME NEW c \in Connections,
             \/ Route(c) \/ RegisterSelect(c) \/ RegisterInsert(c)
             \/ DepositUpdate(c) \/ WithdrawSelect(c) \/ WithdrawUpdate(c)
      PROVE  Accounts!Next \/ UNCHANGED <<users, request, response, committed>>
  BY <1>4, RouteRefines, RegisterRefines, UpdateRefines, WithdrawRefines DEF Accounts!Next
<1>5. ASSUME NEW c \in Connections, Login(c) \/ Profile(c) PROVE Accounts!Next
  BY <1>5, LoginRefines, ProfileRefines DEF Accounts!Next
<1>6. ASSUME NEW c \in Connections, Commit(c) \/ CommitInDoubt(c) PROVE Accounts!Next
  BY <1>0, <1>6, CommitRefines DEF Accounts!Next
<1>7. ASSUME NEW c \in Connections, DatabaseError(c) PROVE Accounts!Next
  BY <1>7, RefusesWith500 DEF DatabaseError, Rollback, Serving, Accounts!Next
<1>8. CASE ServerExits \/ Restart \/ RemoveAccount \/ Tick \/ Quiescent \/ UNCHANGED vars
  BY <1>1, <1>8
  DEF ServerExits, Restart, RemoveAccount, Tick, Quiescent, vars, tableVars, sessionVars,
      Wellkept
<1> QED
  BY <1>1, <1>2, <1>3, <1>4, <1>5, <1>6, <1>7, <1>8 DEF Next, SessionStep, Fault

LEMMA LedgerInvariant ==
    ASSUME Wellkept
    PROVE  Spec => []LedgerInv
<1>1. Init => LedgerInv
  BY LedgerInit
<1>2. SessionInv /\ TableInv /\ LedgerInv /\ [Next]_vars => LedgerInv'
  BY LedgerNext
<1> QED
  BY <1>1, <1>2, SessionInvariant, TableInvariant, PTL DEF Spec

\* With unique usernames that nobody deletes, every request to server.cpp looks
\* to the clients as if it took effect at one instant, at most once, and was
\* answered truthfully: the interleaved transactions implement Ledger.
THEOREM LedgerImplemented ==
    ASSUME Wellkept
    PROVE  Spec => ImplementsLedger
<1>1. Init => Accounts!Init
  BY LedgerInitRefines
<1>2. SessionInv /\ TableInv /\ LedgerInv /\ [Next]_vars => [Accounts!Next]_(Accounts!vars)
  BY LedgerStep
<1> QED
  BY <1>1, <1>2, SessionInvariant, TableInvariant, LedgerInvariant, PTL
  DEF Spec, ImplementsLedger, Accounts!Spec

\* Under the same assumptions an amount that handle_deposit or handle_withdraw
\* commits arrives, whole, on a row of its account, although neither looks at
\* how many rows its UPDATE has matched.
THEOREM AmountsArrive ==
    ASSUME Wellkept
    PROVE  Spec => MoneyArrives
<1>1. ASSUME SessionInv, LedgerInv, [Next]_vars PROVE [ArrivalStep]_vars
  <2> SUFFICES ASSUME NEW c \in committed' \ committed, request[c].target \in MoneyTargets
               PROVE  \E r \in users, s \in users' :
                         /\ r.id = s.id /\ r.username = Account(request[c])
                         /\ s.balance = r.balance + Delta(request[c])
    BY DEF ArrivalStep
  <2>1. c \in Connections /\ pc[c] = "commit" /\ CommitTxn(c)
    <3>1. PICK d \in Connections : Commit(d) \/ CommitInDoubt(d)
      BY <1>1
      DEF Next, SessionStep, Fault, Accept, ReadRequest, ReadFails, WriteResponse,
          WriteFails, Route, Login, Profile, RegisterSelect, RegisterInsert, DepositUpdate,
          WithdrawUpdate, WithdrawSelect, Update, BeginWithSelect, WriteVersions,
          DatabaseError, Reap, Rollback, ServerExits, Restart, RemoveAccount, DeleteUser,
          Tick, Quiescent, vars, tableVars
    <3>2. pc[d] = "commit" /\ CommitTxn(d)
      BY <3>1 DEF Commit, CommitInDoubt
    <3>3. c = d
      BY <3>2 DEF CommitTxn
    <3> QED
      BY <3>2, <3>3
  <2>2. PICK r \in users : r.username = Account(request[c]) /\ pending[c] = {MovedRow(c, r)}
    BY <1>1, <2>1 DEF LedgerInv, WriteInv, Prepared, MoneyTargets
  <2>3. r \in Row
    BY <1>1 DEF SessionInv, TypeOK, TableTypeOK
  <2>4. /\ MovedRow(c, r).id = r.id
        /\ MovedRow(c, r).balance = r.balance + Delta(request[c])
    BY <2>3 DEF MovedRow, NewBalance, Row
  <2>5. MovedRow(c, r) \in users'
    BY <2>1, <2>2 DEF CommitTxn
  <2> QED
    BY <2>2, <2>4, <2>5
<1>2. SessionInv /\ LedgerInv /\ [Next]_vars => [ArrivalStep]_vars
  BY <1>1
<1> QED
  BY <1>2, SessionInvariant, LedgerInvariant, PTL DEF Spec, MoneyArrives
-------------------------------------------------------------------------------
(***************************************************************************)
(* Conservation of money, which the server inherits from Ledger.           *)
(***************************************************************************)

Money == INSTANCE LedgerMoneyProofs WITH
    accounts <- AccountsOf(users),
    InitialAccounts <- AccountsOf(InitialUsers),
    MayOverdraw <- ~OverdraftGuarded,
    Instants <- 0..(MaxTime + TokenLife)

\* Accounts and Money are instances of one module, by the same mapping.
LEMMA SameLedger ==
    /\ Accounts!Init <=> Money!Init
    /\ [Accounts!Next]_(Accounts!vars) <=> [Money!Next]_(Money!vars)
<1>1. Accounts!Init <=> Money!Init
  BY DEF Accounts!Init, Accounts!NoRequest, Accounts!NoResponse, Accounts!NoToken,
         Money!Init, Money!NoRequest, Money!NoResponse, Money!NoToken
<1> USE DEF
      Accounts!NoToken, Accounts!NoRequest, Accounts!NoResponse, Accounts!make_response,
      Accounts!Statuses, Accounts!MoneyTargets, Accounts!TokenTargets,
      Accounts!UnknownTargets, Accounts!AllTargets, Accounts!CredentialTargets,
      Accounts!Request, Accounts!Token, Accounts!Account, Accounts!Delta,
      Accounts!Registered, Accounts!Reply,
      Money!NoToken, Money!NoRequest, Money!NoResponse, Money!make_response,
      Money!Statuses, Money!MoneyTargets, Money!TokenTargets,
      Money!UnknownTargets, Money!AllTargets, Money!CredentialTargets,
      Money!Request, Money!Token, Money!Account, Money!Delta,
      Money!Registered, Money!Reply
<1>2. ASSUME NEW c PROVE Accounts!Receive(c) <=> Money!Receive(c)
  BY DEF Accounts!Receive, Money!Receive
<1>3. ASSUME NEW c PROVE Accounts!Effect(c) <=> Money!Effect(c)
  BY DEF Accounts!Effect, Accounts!Register, Accounts!MoveMoney, Accounts!Covered,
         Money!Effect, Money!Register, Money!MoveMoney, Money!Covered
<1>4. ASSUME NEW c PROVE Accounts!Show(c) <=> Money!Show(c)
  BY DEF Accounts!Show, Accounts!LoginAccepted, Money!Show, Money!LoginAccepted
<1>5. ASSUME NEW c PROVE Accounts!Refuse(c) <=> Money!Refuse(c)
  BY DEF Accounts!Refuse, Accounts!Justified, Accounts!BadRequest, Accounts!LoginAccepted,
         Money!Refuse, Money!Justified, Money!BadRequest, Money!LoginAccepted
<1>6. Accounts!Next <=> Money!Next
  BY <1>2, <1>3, <1>4, <1>5 DEF Accounts!Next, Money!Next
<1> QED
  BY <1>1, <1>6 DEF Accounts!vars, Money!vars

LEMMA InitialAccountsOpened == Money!Opened
<1>1. \A r \in InitialUsers : r \in Row
  BY InitialUsersAssumption
<1>2. DefaultBalance \in Int
  BY TableAssumption
<1>3. ASSUME NEW u \in DOMAIN AccountsOf(InitialUsers)
      PROVE  AccountsOf(InitialUsers)[u] \in Money!AccountRecord
  <2>1. PICK r \in InitialUsers : r.username = u
    BY <1>3 DEF AccountsOf
  <2> DEFINE row == CHOOSE s \in InitialUsers : s.username = u
  <2>2. row \in Row
    BY <1>1, <2>1
  <2> HIDE DEF row
  <2>3. [password |-> row.password, balance |-> row.balance] \in Money!AccountRecord
    BY <2>2 DEF Row, Money!AccountRecord
  <2>4. AccountsOf(InitialUsers)[u] = [password |-> row.password, balance |-> row.balance]
    BY <1>3 DEF AccountsOf, row
  <2> QED
    BY <2>3, <2>4
<1>4. AccountsOf(InitialUsers) =
         [u \in DOMAIN AccountsOf(InitialUsers) |-> AccountsOf(InitialUsers)[u]]
  BY DEF AccountsOf
<1> QED
  BY <1>2, <1>3, <1>4 DEF Money!Opened

\* Whatever the interleaving, the failures and the crashes: the balance of every
\* account is what it started with plus the deposits and minus the withdrawals
\* whose transactions have committed, each counted once.
THEOREM MoneyIsConserved ==
    ASSUME Wellkept
    PROVE  Spec => []Conservation
<1>1. Spec => Money!Spec
  BY SameLedger, LedgerImplemented, PTL DEF ImplementsLedger, Accounts!Spec, Money!Spec
<1>2. Money!Spec => []Money!Conserved
  BY InitialAccountsOpened, Money!LedgerConserves
<1>3. Money!Conserved => Conservation
  <2>1. ASSUME NEW f, NEW S
        PROVE  Money!SumFunctionOnSet(f, S) = Accounts!SumFunctionOnSet(f, S)
    BY DEF Money!SumFunctionOnSet, Money!FoldFunctionOnSet, Money!MapThenFoldSet,
           Accounts!SumFunctionOnSet, Accounts!FoldFunctionOnSet, Accounts!MapThenFoldSet
  <2>2. Money!Deltas = Accounts!Deltas
    BY DEF Money!Deltas, Money!Delta, Accounts!Deltas, Accounts!Delta
  <2>3. ASSUME NEW u
        PROVE  Money!Effects(u) = Accounts!Effects(u) /\ Money!Opening(u) = Accounts!Opening(u)
    BY DEF Money!Effects, Money!Account, Money!TokenTargets, Money!MoneyTargets,
           Money!Opening, Accounts!Effects, Accounts!Account, Accounts!TokenTargets,
           Accounts!MoneyTargets, Accounts!Opening
  <2> QED
    BY <2>1, <2>2, <2>3 DEF Conservation, Accounts!Conserved, Money!Conserved
<1> QED
  BY <1>1, <1>2, <1>3, PTL
===============================================================================
