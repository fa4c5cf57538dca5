--------------------------- MODULE LedgerMoneyProofs ---------------------------
(***************************************************************************)
(* Proof that Ledger conserves money.  A commit adds one element to the    *)
(* set of requests that have moved an account, and the lemmas of SumProofs *)
(* say what that does to the sum.                                          *)
(***************************************************************************)
EXTENDS Ledger, SumProofs

AccountRecord == [password : Passwords \cup {Empty}, balance : Int]

\* The accounts that the server starts with.
Opened ==
    /\ DefaultBalance \in Int
    /\ InitialAccounts \in [DOMAIN InitialAccounts -> AccountRecord]

\* A request that has taken effect is complete, and its account exists: the
\* account of a new username has no effects yet.
EffectInv ==
    /\ accounts \in [DOMAIN accounts -> AccountRecord]
    /\ DOMAIN InitialAccounts \subseteq DOMAIN accounts
    /\ request \in [Connections -> Request]
    /\ IsFiniteSet(committed) /\ committed \subseteq Connections
    /\ \A c \in committed : request[c] # NoRequest /\ Registered(Account(request[c]))

MoneyInv == EffectInv /\ Conserved
-------------------------------------------------------------------------------
LEMMA DeltaInt ==
    ASSUME NEW q \in Request
    PROVE  /\ Delta(q) \in Int
           /\ q.target \notin MoneyTargets => Delta(q) = 0
<1>1. q.amount \in Int /\ 0 - q.amount \in Int
  BY DEF Request
<1>2. CASE q.target = "deposit"
  BY <1>1, <1>2 DEF Delta, MoneyTargets
<1>3. CASE q.target = "withdraw"
  BY <1>1, <1>3 DEF Delta, MoneyTargets
<1>4. CASE q.target \notin MoneyTargets
  BY <1>4 DEF Delta, MoneyTargets
<1> QED
  BY <1>2, <1>3, <1>4 DEF MoneyTargets

LEMMA MoneyInit ==
    ASSUME Opened, Init
    PROVE  MoneyInv
<1>1. NoRequest \in Request
  BY DEF NoRequest, Request, AllTargets, CredentialTargets, TokenTargets, MoneyTargets,
         UnknownTargets, NoToken, Token
<1>2. EffectInv
  BY <1>1, FS_EmptySet DEF Init, EffectInv, Opened
<1>3. ASSUME NEW u \in DOMAIN accounts
      PROVE  accounts[u].balance = Opening(u) + SumFunctionOnSet(Deltas, Effects(u))
  <2>1. Effects(u) = {}
    BY DEF Init, Effects
  <2>2. SumFunctionOnSet(Deltas, Effects(u)) = 0
    BY <2>1, SumEmpty
  <2>3. Opening(u) = accounts[u].balance /\ Opening(u) \in Int
    BY DEF Init, Opening, Opened, AccountRecord
  <2> QED
    BY <2>2, <2>3
<1> QED
  BY <1>2, <1>3 DEF MoneyInv, Conserved

\* The sum depends on the requests that have taken effect, and on no others.
LEMMA SameEffects ==
    ASSUME EffectInv, EffectInv', NEW u, Effects(u)' = Effects(u),
           \A c \in committed : request'[c] = request[c]
    PROVE  SumFunctionOnSet(Deltas, Effects(u))' = SumFunctionOnSet(Deltas, Effects(u))
<1>1. IsFiniteSet(Effects(u))
  BY FS_Subset DEF EffectInv, Effects
<1>2. \A c \in Effects(u) : Deltas'[c] = Deltas[c]
  BY DEF EffectInv, Effects, Deltas
<1>3. SumFunctionOnSet(Deltas', Effects(u)) = SumFunctionOnSet(Deltas, Effects(u))
  BY <1>1, <1>2, SumSame
<1> QED
  BY <1>3

LEMMA ReceiveKeeps ==
    ASSUME MoneyInv, NEW c \in Connections, Receive(c)
    PROVE  MoneyInv'
<1>1. c \notin committed
  BY DEF MoneyInv, EffectInv, Receive
<1>2. \A d \in committed : request'[d] = request[d]
  BY <1>1 DEF MoneyInv, EffectInv, Receive
<1>3. UNCHANGED <<accounts, committed>>
  BY DEF Receive
<1>4. EffectInv'
  <2>1. request' \in [Connections -> Request]
    BY DEF MoneyInv, EffectInv, Receive
  <2> QED
    BY <1>2, <1>3, <2>1 DEF MoneyInv, EffectInv, Registered
<1>5. \A u \in DOMAIN accounts : Effects(u)' = Effects(u)
  BY <1>2, <1>3 DEF Effects
<1>6. ASSUME NEW u \in DOMAIN accounts
      PROVE  SumFunctionOnSet(Deltas, Effects(u))' = SumFunctionOnSet(Deltas, Effects(u))
  BY <1>2, <1>4, <1>5, SameEffects DEF MoneyInv
<1>7. \A u : Opening(u)' = Opening(u)
  BY DEF Opening
<1> QED
  BY <1>3, <1>4, <1>6, <1>7 DEF MoneyInv, Conserved

LEMMA AnswerKeeps ==
    ASSUME MoneyInv, UNCHANGED <<accounts, request, committed>>
    PROVE  MoneyInv'
BY DEF MoneyInv, EffectInv, Registered, Conserved, Opening, Effects, Deltas

\* What a commit adds to the sum of each account.
LEMMA OneMoreEffect ==
    ASSUME EffectInv, NEW c \in Connections, c \notin committed, request' = request,
           committed' = committed \cup {c}, NEW u
    PROVE  SumFunctionOnSet(Deltas, Effects(u))' =
              SumFunctionOnSet(Deltas, Effects(u))
                 + (IF Account(request[c]) = u THEN Delta(request[c]) ELSE 0)
<1>1. IsFiniteSet(Effects(u)) /\ c \notin Effects(u)
  BY FS_Subset DEF EffectInv, Effects
<1>2. \A d \in Connections : Deltas[d] \in Int
  BY DeltaInt DEF EffectInv, Deltas
<1>3. SumFunctionOnSet(Deltas, Effects(u)) \in Int
  BY <1>1, <1>2, SumInt DEF EffectInv, Effects
<1>4. Deltas' = Deltas
  BY DEF Deltas
<1>5. CASE Account(request[c]) = u
  <2>1. Effects(u)' = Effects(u) \cup {c}
    BY <1>5 DEF Effects
  <2>2. SumFunctionOnSet(Deltas, Effects(u) \cup {c}) =
           SumFunctionOnSet(Deltas, Effects(u)) + Deltas[c]
    BY <1>1, <1>2, SumAdd DEF EffectInv, Effects
  <2>3. Deltas[c] = Delta(request[c])
    BY DEF Deltas
  <2> QED
    BY <1>4, <1>5, <2>1, <2>2, <2>3
<1>6. CASE Account(request[c]) # u
  <2>1. Effects(u)' = Effects(u)
    BY <1>6 DEF Effects
  <2> QED
    BY <1>3, <1>4, <1>6, <2>1
<1> QED
  BY <1>5, <1>6

\* A registration opens an account that nothing has moved yet.
LEMMA RegisterKeeps ==
    ASSUME Opened, MoneyInv, NEW c \in Connections, c \notin committed,
           request[c] # NoRequest, request' = request,
           committed' = committed \cup {c}, Register(c)
    PROVE  MoneyInv'
<1> DEFINE u == request[c].username
           account == [password |-> request[c].password, balance |-> DefaultBalance]
<1>1. /\ request[c].target = "register" /\ ~Registered(u)
      /\ accounts' = [v \in DOMAIN accounts \cup {u} |->
                         IF v = u THEN account ELSE accounts[v]]
  BY DEF Register
<1>2. account \in AccountRecord
  BY DEF Opened, MoneyInv, EffectInv, Request, AccountRecord
<1>3. Account(request[c]) = u
  BY <1>1 DEF Account, TokenTargets, MoneyTargets
<1>4. request[c] \in Request /\ Delta(request[c]) = 0
  BY <1>1, DeltaInt DEF MoneyInv, EffectInv, MoneyTargets
<1> HIDE DEF account, u
<1>5. /\ DOMAIN accounts' = DOMAIN accounts \cup {u}
      /\ accounts'[u] = account
      /\ \A v \in DOMAIN accounts : accounts'[v] = accounts[v]
  BY <1>1 DEF Registered
<1>6. EffectInv'
  <2>1. accounts' \in [DOMAIN accounts' -> AccountRecord]
    BY <1>1, <1>2, <1>5 DEF MoneyInv, EffectInv
  <2>2. IsFiniteSet(committed')
    BY FS_AddElement DEF MoneyInv, EffectInv
  <2>3. ASSUME NEW d \in committed'
        PROVE  request[d] # NoRequest /\ Account(request[d]) \in DOMAIN accounts'
    BY <1>3, <1>5 DEF MoneyInv, EffectInv, Registered
  <2> QED
    BY <1>5, <2>1, <2>2, <2>3 DEF MoneyInv, EffectInv, Registered
<1>7. ASSUME NEW v \in DOMAIN accounts'
      PROVE  accounts'[v].balance = Opening(v) + SumFunctionOnSet(Deltas, Effects(v))'
  <2>1. SumFunctionOnSet(Deltas, Effects(v))' =
           SumFunctionOnSet(Deltas, Effects(v))
              + (IF Account(request[c]) = v THEN Delta(request[c]) ELSE 0)
    BY OneMoreEffect DEF MoneyInv
  <2>2. SumFunctionOnSet(Deltas, Effects(v)) \in Int
    <3>1. IsFiniteSet(Effects(v))
      BY FS_Subset DEF MoneyInv, EffectInv, Effects
    <3>2. \A d \in Effects(v) : Deltas[d] \in Int
      BY DeltaInt DEF MoneyInv, EffectInv, Deltas, Effects
    <3> QED
      BY <3>1, <3>2, SumInt
  <2>3. SumFunctionOnSet(Deltas, Effects(v))' = SumFunctionOnSet(Deltas, Effects(v))
    BY <1>4, <2>1, <2>2
  <2>4. CASE v = u
    <3>1. Effects(u) = {}
      BY <1>1 DEF Effects, MoneyInv, EffectInv
    <3>2. SumFunctionOnSet(Deltas, Effects(u)) = 0
      BY <3>1, SumEmpty
    <3>3. Opening(u) = DefaultBalance /\ DefaultBalance \in Int
      BY <1>1 DEF Opening, Registered, Opened, MoneyInv, EffectInv
    <3>4. account.balance = DefaultBalance
      BY DEF account
    <3> QED
      BY <1>5, <2>3, <2>4, <3>2, <3>3, <3>4
  <2>5. CASE v # u
    <3>1. v \in DOMAIN accounts
      BY <1>5, <2>5
    <3> QED
      BY <1>5, <2>3, <3>1 DEF MoneyInv, Conserved
  <2> QED
    BY <2>4, <2>5
<1>8. \A v : Opening(v)' = Opening(v)
  BY DEF Opening
<1> QED
  BY <1>6, <1>7, <1>8 DEF MoneyInv, Conserved

LEMMA MoveKeeps ==
    ASSUME Opened, MoneyInv, NEW c \in Connections, c \notin committed,
           request[c] # NoRequest, request' = request,
           committed' = committed \cup {c}, MoveMoney(c)
    PROVE  MoneyInv'
<1> DEFINE u == Account(request[c])
           d == Delta(request[c])
           account == [accounts[u] EXCEPT !.balance = @ + d]
<1>1. u \in DOMAIN accounts /\ accounts' = [accounts EXCEPT ![u] = account]
  BY DEF MoveMoney, Registered
<1>2. accounts[u] \in AccountRecord
  BY <1>1 DEF MoneyInv, EffectInv
<1>3. d \in Int
  BY DeltaInt DEF MoneyInv, EffectInv
<1>4. account \in AccountRecord /\ account.balance = accounts[u].balance + d
  BY <1>2, <1>3 DEF AccountRecord
<1> HIDE DEF u, d, account
<1>5. /\ DOMAIN accounts' = DOMAIN accounts
      /\ accounts'[u] = account
      /\ \A v \in DOMAIN accounts : v # u => accounts'[v] = accounts[v]
  BY <1>1
<1>6. EffectInv'
  <2>1. accounts' \in [DOMAIN accounts' -> AccountRecord]
    BY <1>1, <1>4, <1>5 DEF MoneyInv, EffectInv
  <2>2. IsFiniteSet(committed')
    BY FS_AddElement DEF MoneyInv, EffectInv
  <2>3. ASSUME NEW e \in committed'
        PROVE  request[e] # NoRequest /\ Account(request[e]) \in DOMAIN accounts'
    BY <1>1, <1>5 DEF MoneyInv, EffectInv, Registered, u
  <2> QED
    BY <1>5, <2>1, <2>2, <2>3 DEF MoneyInv, EffectInv, Registered
<1>7. ASSUME NEW v \in DOMAIN accounts'
      PROVE  accounts'[v].balance = Opening(v) + SumFunctionOnSet(Deltas, Effects(v))'
  <2> DEFINE sum == SumFunctionOnSet(Deltas, Effects(v))
  <2>1. sum' = sum + (IF u = v THEN d ELSE 0)
    BY OneMoreEffect DEF MoneyInv, u, d
  <2>2. sum \in Int
    <3>1. IsFiniteSet(Effects(v))
      BY FS_Subset DEF MoneyInv, EffectInv, Effects
    <3>2. \A e \in Effects(v) : Deltas[e] \in Int
      BY DeltaInt DEF MoneyInv, EffectInv, Deltas, Effects
    <3> QED
      BY <3>1, <3>2, SumInt
  <2>3. v \in DOMAIN accounts /\ accounts[v].balance = Opening(v) + sum
    BY <1>5 DEF MoneyInv, Conserved
  <2>4. Opening(v) \in Int
    <3>1. CASE v \in DOMAIN InitialAccounts
      BY <3>1 DEF Opening, Opened, AccountRecord
    <3>2. CASE v \notin DOMAIN InitialAccounts
      BY <3>2 DEF Opening, Opened
    <3> QED
      BY <3>1, <3>2
  <2> HIDE DEF sum
  <2>5. accounts'[v].balance = Opening(v) + sum'
    <3>1. CASE v = u
      BY <1>3, <1>4, <1>5, <2>1, <2>2, <2>3, <2>4, <3>1
    <3>2. CASE v # u
      BY <1>5, <2>1, <2>2, <2>3, <3>2
    <3> QED
      BY <3>1, <3>2
  <2> QED
    BY <2>5 DEF sum
<1>8. \A v : Opening(v)' = Opening(v)
  BY DEF Opening
<1> QED
  BY <1>6, <1>7, <1>8 DEF MoneyInv, Conserved

LEMMA MoneyNext ==
    ASSUME Opened, MoneyInv, [Next]_vars
    PROVE  MoneyInv'
<1>1. CASE UNCHANGED vars
  BY <1>1, AnswerKeeps DEF vars
<1>2. ASSUME NEW c \in Connections, Receive(c) PROVE MoneyInv'
  BY <1>2, ReceiveKeeps
<1>3. ASSUME NEW c \in Connections, Effect(c) PROVE MoneyInv'
  <2>1. request[c] # NoRequest
    BY <1>3 DEF Effect, Reply
  <2> QED
    BY <1>3, <2>1, RegisterKeeps, MoveKeeps DEF Effect
<1>4. ASSUME NEW c \in Connections, Show(c) \/ Refuse(c) PROVE MoneyInv'
  BY <1>4, AnswerKeeps DEF Show, Refuse
<1> QED
  BY <1>1, <1>2, <1>3, <1>4 DEF Next

LEMMA MoneyInvariant ==
    ASSUME Opened
    PROVE  Spec => []MoneyInv
<1>1. Init => MoneyInv
  BY MoneyInit
<1>2. MoneyInv /\ [Next]_vars => MoneyInv'
  BY MoneyNext
<1> QED
  BY <1>1, <1>2, PTL DEF Spec

\* Ledger conserves money: every balance is what its account was opened with
\* plus the committed deposits and minus the committed withdrawals, each once.
THEOREM LedgerConserves ==
    ASSUME Opened
    PROVE  Spec => []Conserved
<1>1. MoneyInv => Conserved
  BY DEF MoneyInv
<1> QED
  BY <1>1, MoneyInvariant, PTL
===============================================================================
