--------------------------- MODULE ClientMoneyProofs ---------------------------
(***************************************************************************)
(* Proofs of what WebClientProps says of money: the client keeps to the    *)
(* interface of Ledger, so that Ledger's conservation of money holds of    *)
(* what it does, and no submission of a form moves money twice.            *)
(***************************************************************************)
EXTENDS WebClientProofs, SumProofs

\* Fetch f sends q on a connection that nothing was sent on before.
Sends(f, q) ==
    /\ request[f] = NoRequest
    /\ request' = [request EXCEPT ![f] = q]
    /\ UNCHANGED <<accounts, response, committed>>

\* What the client does to the server: a call sends its first request, or the
\* refresh that follows a deposit or a withdrawal.
ClientSends ==
    \E k \in Calls, q \in Request :
        \/ Sends(<<k, "request">>, q)
        \/ q.target = "profile" /\ Sends(<<k, "refresh">>, q)

\* A refresh only reads.
RefreshReads ==
    \A k \in Calls :
        /\ request[<<k, "refresh">>].target \in {NoRequest.target, "profile"}
        /\ <<k, "refresh">> \notin committed

SpendInv == committed \subseteq Fetches /\ RefreshReads
-------------------------------------------------------------------------------
(***************************************************************************)
(* The steps of the client, as Ledger sees them.                           *)
(***************************************************************************)

LEMMA StartSends ==
    ASSUME FreshInv(call), NEW others, DOMAIN others = DOMAIN call, NEW k, NEW t,
           NEW q \in Request, Start(others, k, t, q), UNCHANGED <<accounts, response, committed>>
    PROVE  ClientSends
<1>1. k \in Calls /\ k \notin DOMAIN call
      /\ request' = [request EXCEPT ![<<k, "request">>] = q]
  BY DEF Start
<1>2. request[<<k, "request">>] = NoRequest
  BY <1>1 DEF FreshInv
<1> QED
  BY <1>1, <1>2 DEF ClientSends, Sends

LEMMA MountSends ==
    ASSUME FreshInv(call), NEW others, DOMAIN others = DOMAIN call, NEW t, NEW p, NEW s,
           s.token \in Token, Mount(t, p, s, others)
    PROVE  ClientSends \/ UNCHANGED server
<1>1. UNCHANGED <<accounts, response, committed>>
  BY DEF Mount
<1>2. CASE UNCHANGED request
  BY <1>1, <1>2 DEF server
<1>3. CASE \E k \in Calls : Start(others, k, t, ProfileRequest(s.token))
  BY <1>1, <1>3, StartSends, ProfileRequestTyped
<1> QED
  BY <1>2, <1>3 DEF Mount

LEMMA UserSends ==
    ASSUME ClientInv, NEW t \in Tabs, UserStep(t)
    PROVE  ClientSends \/ UNCHANGED server
<1>1. /\ TypeOK /\ FreshInv(call)
      /\ storage.token \in Token /\ user[t].token \in Token /\ LoggedOut.token \in Token
  BY NothingTyped DEF ClientInv, Sound, TypeOK, Session
<1>2. DOMAIN Unmounted(t) = DOMAIN call /\ DOMAIN Discarded(t) = DOMAIN call
  BY DEF Unmounted, Discarded
<1>3. ASSUME NEW p, Load(t, p) PROVE ClientSends \/ UNCHANGED server
  BY <1>1, <1>2, <1>3, MountSends DEF Load
<1>4. ASSUME NEW p, Visit(t, p) \/ Back(t, p) PROVE ClientSends \/ UNCHANGED server
  BY <1>1, <1>2, <1>4, MountSends DEF Visit, Back
<1>5. ASSUME Logout(t) PROVE ClientSends \/ UNCHANGED server
  <2> DEFINE interrupted == [k \in DOMAIN call |->
                [Unmounted(t)[k] EXCEPT !.disturbed = @ \/ call[k].stage \in Fetching]]
  <2>1. Mount(t, "home", LoggedOut, interrupted)
    BY <1>5 DEF Logout
  <2>2. DOMAIN interrupted = DOMAIN call
    OBVIOUS
  <2> HIDE DEF interrupted
  <2> QED
    BY <1>1, <2>1, <2>2, MountSends
<1>6. ASSUME SubmitCredentials(t) \/ SubmitMoney(t) PROVE ClientSends
  <2>1. PICK q \in Request : Submit(t, q)
    BY <1>1, <1>6, SubmittedRequests
  <2> QED
    BY <1>1, <2>1, StartSends DEF Submit
<1> QED
  BY <1>3, <1>4, <1>5, <1>6 DEF UserStep

LEMMA UpdateSends ==
    ASSUME ClientInv, NEW k, Answered(k), UpdateBalance(k),
           UNCHANGED <<accounts, response, committed>>
    PROVE  ClientSends \/ UNCHANGED server
<1> DEFINE t == call[k].tab
           others == [call EXCEPT ![k].stage = "done"]
<1>1. call[k].token \in Token /\ FreshInv(call) /\ DOMAIN others = DOMAIN call
  BY DEF ClientInv, Sound, CallsTyped, CallRecord, Answered, Waiting
<1>2. CASE UNCHANGED request
  BY <1>2 DEF server
<1>3. CASE \E i \in Calls : Start(others, i, t, ProfileRequest(call[k].token))
  BY <1>1, <1>3, StartSends, ProfileRequestTyped
<1> QED
  BY <1>2, <1>3 DEF UpdateBalance

LEMMA CallSends ==
    ASSUME ClientInv, NEW k \in Calls, CallStep(k)
    PROVE  ClientSends \/ UNCHANGED server
<1>1. ASSUME ProfileFetched(k) \/ Refreshed(k) PROVE ClientSends \/ UNCHANGED server
  BY <1>1, UpdateSends DEF ProfileFetched, Refreshed, server
<1>2. ASSUME MoneyAnswered(k) PROVE ClientSends \/ UNCHANGED server
  <2>1. k \in DOMAIN call /\ call[k].stage = "request" /\ call[k].token \in Token
    BY <1>2
    DEF MoneyAnswered, Answered, Waiting, ClientInv, Sound, CallsTyped, CallRecord
  <2>2. request[<<k, "refresh">>] = NoRequest
    BY <2>1 DEF ClientInv, Sound, FreshInv
  <2>3. ProfileRequest(call[k].token) \in Request
        /\ ProfileRequest(call[k].token).target = "profile"
    BY <2>1, ProfileRequestTyped
  <2> QED
    BY <1>2, <2>2, <2>3 DEF MoneyAnswered, ClientSends, Sends, server
<1>3. ASSUME LoginAnswered(k) \/ RegisterAnswered(k) \/ NetworkError(k)
      PROVE  UNCHANGED server
  BY <1>3 DEF LoginAnswered, RegisterAnswered, NetworkError
<1>4. ASSUME TimerFires(k) PROVE ClientSends \/ UNCHANGED server
  <2>1. storage.token \in Token /\ FreshInv(call)
    BY DEF ClientInv, Sound, TypeOK, Session
  <2>2. DOMAIN Discarded(call[k].tab) = DOMAIN call
    BY DEF Discarded
  <2> QED
    BY <1>4, <2>1, <2>2, MountSends DEF TimerFires, Load
<1> QED
  BY <1>1, <1>2, <1>3, <1>4 DEF CallStep

LEMMA ClientActs ==
    ASSUME ClientInv, [Next]_vars
    PROVE  ServerStep \/ ClientSends \/ UNCHANGED server
BY UserSends, CallSends DEF Next, vars, server

\* A step of the client is a step of Ledger, or invisible to it.
LEMMA ClientRefines ==
    ASSUME ClientInv, [Next]_vars
    PROVE  [Server!Next]_(Server!vars)
<1>1. CASE ServerStep
  BY <1>1 DEF ServerStep, Server!Next
<1>2. CASE ClientSends
  <2>1. PICK f \in Fetches, q \in Request : Sends(f, q)
    BY <1>2 DEF ClientSends, Fetches, Fetching
  <2>2. request'[f] = q
    BY <2>1 DEF Sends, ClientInv, ServerInv
  <2>3. q \in Server!Request
    BY DEF Request, AllTargets, CredentialTargets, TokenTargets, MoneyTargets, UnknownTargets,
           Token, Server!Request, Server!AllTargets, Server!CredentialTargets,
           Server!TokenTargets, Server!MoneyTargets, Server!UnknownTargets, Server!Token
  <2>4. request[f] = Server!NoRequest
    BY <2>1 DEF Sends, NoRequest, NoToken, Server!NoRequest, Server!NoToken
  <2>5. Server!Receive(f)
    BY <2>1, <2>2, <2>3, <2>4 DEF Sends, Server!Receive
  <2> QED
    BY <2>5 DEF Server!Next, Fetches
<1>3. CASE UNCHANGED server
  BY <1>3 DEF server, Server!vars
<1> QED
  BY <1>1, <1>2, <1>3, ClientActs

\* WebClient gives every fetch a connection of its own.  What is proved of Ledger
\* therefore holds of what the browser does.
LEMMA ClientUsesLedger == Spec => Server!Spec
<1>1. Init => Server!Init
  BY DEF Init
<1>2. ClientInv /\ [Next]_vars => [Server!Next]_(Server!vars)
  BY ClientRefines
<1> QED
  BY <1>1, <1>2, ClientInvariant, PTL DEF Spec, Server!Spec
-------------------------------------------------------------------------------
(***************************************************************************)
(* What the client inherits from Ledger.                                   *)
(***************************************************************************)

Money == INSTANCE LedgerMoneyProofs WITH
    Connections <- Calls \X Fetching, MayOverdraw <- TRUE, Instants <- {0}

\* Server and Money are instances of one module, by the same mapping.
LEMMA SameServer ==
    /\ Server!Init <=> Money!Init
    /\ [Server!Next]_(Server!vars) <=> [Money!Next]_(Money!vars)
<1>1. Server!Init <=> Money!Init
  BY DEF Server!Init, Server!NoRequest, Server!NoResponse, Server!NoToken,
         Money!Init, Money!NoRequest, Money!NoResponse, Money!NoToken
<1> USE DEF
      Server!NoToken, Server!NoRequest, Server!NoResponse, Server!make_response,
      Server!Statuses, Server!MoneyTargets, Server!TokenTargets,
      Server!UnknownTargets, Server!AllTargets, Server!CredentialTargets,
      Server!Request, Server!Token, Server!Account, Server!Delta,
      Server!Registered, Server!Reply,
      Money!NoToken, Money!NoRequest, Money!NoResponse, Money!make_response,
      Money!Statuses, Money!MoneyTargets, Money!TokenTargets,
      Money!UnknownTargets, Money!AllTargets, Money!CredentialTargets,
      Money!Request, Money!Token, Money!Account, Money!Delta,
      Money!Registered, Money!Reply
<1>2. ASSUME NEW c PROVE Server!Receive(c) <=> Money!Receive(c)
  BY DEF Server!Receive, Money!Receive
<1>3. ASSUME NEW c PROVE Server!Effect(c) <=> Money!Effect(c)
  BY DEF Server!Effect, Server!Register, Server!MoveMoney, Server!Covered,
         Money!Effect, Money!Register, Money!MoveMoney, Money!Covered
<1>4. ASSUME NEW c PROVE Server!Show(c) <=> Money!Show(c)
  BY DEF Server!Show, Server!LoginAccepted, Money!Show, Money!LoginAccepted
<1>5. ASSUME NEW c PROVE Server!Refuse(c) <=> Money!Refuse(c)
  BY DEF Server!Refuse, Server!Justified, Server!BadRequest, Server!LoginAccepted,
         Money!Refuse, Money!Justified, Money!BadRequest, Money!LoginAccepted
<1>6. Server!Next <=> Money!Next
  BY <1>2, <1>3, <1>4, <1>5 DEF Server!Next, Money!Next
<1> QED
  BY <1>1, <1>6 DEF Server!vars, Money!vars

LEMMA ClientMoney == Spec => []Money!MoneyInv
<1>1. Money!Opened
  BY ClientAssumption DEF Money!Opened, Money!AccountRecord
<1>2. Money!Spec => []Money!MoneyInv
  BY <1>1, Money!MoneyInvariant
<1> QED
  BY <1>2, SameServer, ClientUsesLedger, PTL DEF Server!Spec, Money!Spec
-------------------------------------------------------------------------------
(***************************************************************************)
(* Only the first request of a call takes effect.                          *)
(***************************************************************************)

LEMMA SpendInit ==
    ASSUME Init
    PROVE  SpendInv
<1>1. request = [f \in Fetches |-> NoRequest] /\ committed = {}
  BY DEF Init, Server!Init, Server!NoRequest, NoRequest, Server!NoToken, NoToken, Fetches
<1> QED
  BY <1>1 DEF SpendInv, RefreshReads, Fetches, Fetching

LEMMA SpendNext ==
    ASSUME ClientInv, SpendInv, [Next]_vars
    PROVE  SpendInv'
<1>1. CASE ServerStep
  <2>1. request' = request
    BY <1>1, ServerKeeps DEF ClientInv
  <2>2. PICK f \in Fetches : Server!Effect(f) \/ Server!Show(f) \/ Server!Refuse(f)
    BY <1>1 DEF ServerStep, Fetches
  <2>3. CASE Server!Effect(f)
    <3>1. committed' = committed \cup {f}
      BY <2>3 DEF Server!Effect
    <3>2. request[f].target \in {"register"} \cup MoneyTargets
      BY <2>3 DEF Server!Effect, Server!Register, Server!MoveMoney, Server!MoneyTargets,
                  MoneyTargets
    <3>3. \A k \in Calls : f # <<k, "refresh">>
      BY <3>2 DEF SpendInv, RefreshReads, NoRequest, MoneyTargets
    <3> QED
      BY <2>1, <2>2, <3>1, <3>3 DEF SpendInv, RefreshReads
  <2>4. CASE Server!Show(f) \/ Server!Refuse(f)
    BY <2>1, <2>4 DEF Server!Show, Server!Refuse, SpendInv, RefreshReads
  <2> QED
    BY <2>2, <2>3, <2>4
<1>2. CASE ClientSends
  <2>1. PICK k \in Calls, q \in Request :
           \/ Sends(<<k, "request">>, q)
           \/ q.target = "profile" /\ Sends(<<k, "refresh">>, q)
    BY <1>2 DEF ClientSends
  <2>2. committed' = committed /\ request \in [Fetches -> Request]
    BY <2>1 DEF Sends, ClientInv, ServerInv
  <2>3. ASSUME NEW i \in Calls
        PROVE  \/ request'[<<i, "refresh">>] = request[<<i, "refresh">>]
               \/ request'[<<i, "refresh">>].target = "profile"
    BY <2>1, <2>2 DEF Sends, Fetches, Fetching
  <2> QED
    BY <2>2, <2>3 DEF SpendInv, RefreshReads
<1>3. CASE UNCHANGED server
  BY <1>3 DEF server, SpendInv, RefreshReads
<1> QED
  BY <1>1, <1>2, <1>3, ClientActs

\* So the effects on an account are those of the calls, one each.
LEMMA EffectsOfCalls ==
    ASSUME ClientInv, SpendInv, NEW u
    PROVE  {f \in committed : Account(request[f]) = u} =
              {<<k, "request">> : k \in MovedBy(u)}
<1>1. ASSUME NEW f \in committed PROVE \E k \in Calls : f = <<k, "request">>
  BY DEF SpendInv, RefreshReads, Fetches, Fetching
<1> QED
  BY <1>1 DEF MovedBy

LEMMA SumOfCalls ==
    ASSUME ClientInv, SpendInv, NEW u,
           IsFiniteSet({f \in committed : Account(request[f]) = u})
    PROVE  SumFunctionOnSet([f \in Fetches |-> Delta(request[f])],
                            {f \in committed : Account(request[f]) = u})
              = SumFunctionOnSet(Moves, MovedBy(u))
<1> DEFINE E == {f \in committed : Account(request[f]) = u}
           D == [f \in Fetches |-> Delta(request[f])]
           callOf == [f \in Fetches |-> f[1]]
<1>1. E = {<<k, "request">> : k \in MovedBy(u)} /\ MovedBy(u) \subseteq Calls
  BY EffectsOfCalls DEF MovedBy
<1>2. \A k \in MovedBy(u) : <<k, "request">> \in E /\ <<k, "request">> \in Fetches
                            /\ callOf[<<k, "request">>] = k
  BY <1>1 DEF Fetches, Fetching
<1>3. {callOf[f] : f \in E} = MovedBy(u)
  <2>1. ASSUME NEW f \in E PROVE callOf[f] \in MovedBy(u)
    BY <1>1, <1>2
  <2>2. ASSUME NEW k \in MovedBy(u) PROVE \E f \in E : k = callOf[f]
    BY <1>2
  <2> HIDE DEF E, callOf
  <2> QED
    BY <2>1, <2>2
<1>4. \A f, g \in E : callOf[f] = callOf[g] => f = g
  BY <1>1, <1>2
<1>5. ASSUME NEW f \in E PROVE D[f] \in Int /\ Moves[callOf[f]] = D[f]
  <2>1. PICK k \in MovedBy(u) : f = <<k, "request">>
    BY <1>1
  <2>2. k \in Calls /\ f \in Fetches /\ callOf[f] = k
    BY <1>1, <1>2, <2>1
  <2>3. request[f] \in Request
    BY <2>2 DEF ClientInv, ServerInv
  <2>4. Delta(request[f]) \in Int
    BY <2>3 DEF Delta, Request
  <2> QED
    BY <2>1, <2>2, <2>4 DEF Moves
<1> HIDE DEF E, D, callOf
<1>6. SumFunctionOnSet(D, E) = SumFunctionOnSet(Moves, {callOf[f] : f \in E})
  <2>1. IsFiniteSet(E)
    BY DEF E
  <2> QED
    BY <2>1, <1>4, <1>5, SumRenamed
<1> QED
  BY <1>3, <1>6 DEF E, D

\* However often a form is submitted, whatever is answered and whatever fails,
\* handleDeposit and handleWithdraw move the money of a submission once or not at
\* all, and nothing else that the pages do moves any.
THEOREM SubmissionsMoveOnce == Spec => []SubmissionsAddUp
<1>1. Init => SpendInv
  BY SpendInit
<1>2. ClientInv /\ SpendInv /\ [Next]_vars => SpendInv'
  BY SpendNext
<1>3. ClientInv /\ SpendInv /\ Money!MoneyInv => SubmissionsAddUp
  <2> SUFFICES ASSUME ClientInv, SpendInv, Money!MoneyInv, NEW u \in DOMAIN accounts
               PROVE  accounts[u].balance =
                         Server!Opening(u) + SumFunctionOnSet(Moves, MovedBy(u))
    BY DEF SubmissionsAddUp
  <2> DEFINE E == {f \in committed : Account(request[f]) = u}
             D == [f \in Fetches |-> Delta(request[f])]
  <2>1. Money!Effects(u) = E /\ Money!Deltas = D /\ Money!Opening(u) = Server!Opening(u)
    BY DEF Money!Effects, Money!Account, Money!TokenTargets, Money!MoneyTargets, Account,
           TokenTargets, MoneyTargets, Money!Deltas, Money!Delta, Delta, Money!Opening,
           Server!Opening, Fetches
  <2>2. accounts[u].balance =
           Money!Opening(u) + Money!SumFunctionOnSet(Money!Deltas, Money!Effects(u))
    BY DEF Money!MoneyInv, Money!Conserved
  <2>3. IsFiniteSet(committed)
    BY DEF Money!MoneyInv, Money!EffectInv, Money!IsFiniteSet, IsFiniteSet
  <2>4. IsFiniteSet(E)
    BY <2>3, FS_Subset
  <2>5. SumFunctionOnSet(D, E) = SumFunctionOnSet(Moves, MovedBy(u))
    BY <2>4, SumOfCalls
  <2> HIDE DEF E, D
  <2>6. Money!SumFunctionOnSet(D, E) = SumFunctionOnSet(D, E)
    BY DEF Money!SumFunctionOnSet, Money!FoldFunctionOnSet, Money!MapThenFoldSet,
           SumFunctionOnSet, FoldFunctionOnSet, MapThenFoldSet
  <2> QED
    BY <2>1, <2>2, <2>5, <2>6
<1> QED
  BY <1>1, <1>2, <1>3, ClientInvariant, ClientMoney, PTL DEF Spec
===============================================================================
