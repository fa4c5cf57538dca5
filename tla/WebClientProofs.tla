----------------------------- MODULE WebClientProofs -----------------------------
(***************************************************************************)
(* Proofs of the safety properties of WebClientProps, for every number of  *)
(* tabs, calls, accounts and amounts.                                      *)
(*                                                                         *)
(* ServerInv is what the client relies on of the server.  ClientInv ties   *)
(* the calls to the requests they have sent and to the pages they belong   *)
(* to: it is what an answer that arrives late can still be trusted for.    *)
(* The parts that speak of calls take them as a parameter, for Mount and   *)
(* Start work on what has become of the calls of a page that is left.      *)
(***************************************************************************)
EXTENDS WebClientProps, SequenceTheorems, TLAPS

Fetches == Calls \X Fetching

AccountRecord == [password : Passwords \cup {Empty}, balance : Int]

\* The accounts and answers have their types, a fetch that was not sent has no
\* answer, and a 200 is the answer to what was asked.
ServerInv ==
    /\ DOMAIN accounts \subseteq Usernames \cup {Empty}
    /\ accounts \in [DOMAIN accounts -> AccountRecord]
    /\ request \in [Fetches -> Request]
    /\ response \in [Fetches -> Response]
    /\ \A f \in Fetches :
          /\ request[f] = NoRequest => response[f] = NoResponse
          /\ response[f].status = 200 =>
                /\ request[f].target = "login" =>
                      response[f].token.username = request[f].username
                /\ request[f].target \in MoneyTargets => f \in committed

HomePage(kind) == IF kind \in CredentialTargets THEN kind ELSE "profile"

CallsTyped(calls) ==
    DOMAIN calls \subseteq Calls /\ \A k \in DOMAIN calls : calls[k] \in CallRecord

\* A call has sent what its stage says, with the token of its closure, and is
\* mounted only on the page that it was started from.
CallInv(calls, pages) ==
    \A k \in DOMAIN calls :
        /\ calls[k].stage = "request" =>
              /\ request[<<k, "request">>].target = calls[k].kind
              /\ calls[k].kind \in TokenTargets =>
                    request[<<k, "request">>].token = calls[k].token
        /\ calls[k].stage = "refresh" =>
              /\ request[<<k, "refresh">>] = ProfileRequest(calls[k].token)
              /\ calls[k].kind \in MoneyTargets
        /\ calls[k].mounted => pages[calls[k].tab] = HomePage(calls[k].kind)

\* Nothing is sent before its time.
FreshInv(calls) ==
    \A k \in Calls :
        /\ k \notin DOMAIN calls => request[<<k, "request">>] = NoRequest
        /\ k \notin DOMAIN calls \/ calls[k].stage = "request" =>
              request[<<k, "refresh">>] = NoRequest

\* SuccessIsTrue, of these calls.
SuccessInv(calls, pages, msgs) ==
    \A t \in Tabs :
        pages[t] = "profile" /\ msgs[t] = "success" =>
            \E k \in DOMAIN calls :
                /\ calls[k].tab = t /\ calls[k].mounted /\ calls[k].kind \in MoneyTargets
                /\ <<k, "request">> \in committed

\* What is true of the calls and of what they have sent.
Sound(calls, pages, msgs) ==
    /\ CallsTyped(calls)
    /\ CallInv(calls, pages)
    /\ FreshInv(calls)
    /\ SuccessInv(calls, pages, msgs)

ClientInv == TypeOK /\ ServerInv /\ Sound(call, page, msg) /\ SessionsCoherent
-------------------------------------------------------------------------------
(***************************************************************************)
(* Types, the initial state and the server.                                *)
(***************************************************************************)

LEMMA NothingTyped ==
    /\ NoToken \in Token
    /\ NoRequest \in Request
    /\ NoResponse \in Response
    /\ NoResponse.status = 0
    /\ LoggedOut \in Session /\ LoggedOut.token.username = LoggedOut.username
BY DEF NoToken, Token, NoRequest, Request, AllTargets, NoResponse, Response, LoggedOut, Session

LEMMA ProfileRequestTyped ==
    ASSUME NEW token \in Token
    PROVE  /\ ProfileRequest(token) \in Request
           /\ ProfileRequest(token).target = "profile"
           /\ ProfileRequest(token).token = token
           /\ Account(ProfileRequest(token)) = token.username
BY DEF ProfileRequest, Request, AllTargets, TokenTargets, Account

LEMMA NoCallYet == Init => DOMAIN call = {}
<1>1. Init => call \in Seq({}) /\ Len(call) = 0
  BY EmptySeq DEF Init
<1> QED
  BY <1>1

LEMMA ClientInit == Init => ClientInv
<1> SUFFICES ASSUME Init PROVE ClientInv
  OBVIOUS
<1>1. DOMAIN accounts \subseteq Usernames \cup {Empty}
      /\ accounts \in [DOMAIN accounts -> AccountRecord]
  BY ClientAssumption DEF Init, Server!Init, AccountRecord
<1>2. ASSUME NEW u \in DOMAIN accounts
      PROVE  SessionOf(u) \in Session /\ SessionOf(u).token.username = SessionOf(u).username
  BY <1>1 DEF SessionOf, Session, Token, AccountRecord
<1>3. storage \in Session /\ storage.token.username = storage.username
  BY <1>2, NothingTyped DEF Init
<1>9. DOMAIN call = {}
  BY NoCallYet
<1>4. TypeOK
  <2>1. Shown(LoggedOut) \in Details
    BY DEF Shown, LoggedOut, Details
  <2> QED
    BY <1>3, <1>9, <2>1 DEF Init, TypeOK
<1>5. SessionsCoherent
  BY <1>3 DEF Init, SessionsCoherent
<1>6. /\ request = [f \in Fetches |-> NoRequest]
      /\ response = [f \in Fetches |-> NoResponse]
  BY DEF Init, Server!Init, Server!NoRequest, NoRequest, Server!NoToken, NoToken,
         Server!NoResponse, NoResponse, Fetches
<1>7. ServerInv
  BY <1>1, <1>6, NothingTyped DEF ServerInv
<1>8. Sound(call, page, msg)
  <2>1. CallsTyped(call) /\ CallInv(call, page)
    BY <1>9 DEF CallsTyped, CallInv
  <2>2. FreshInv(call)
    BY <1>6 DEF FreshInv, Fetches, Fetching
  <2>3. SuccessInv(call, page, msg)
    BY DEF Init, SuccessInv
  <2> QED
    BY <2>1, <2>2, <2>3 DEF Sound
<1> QED
  BY <1>4, <1>5, <1>7, <1>8 DEF ClientInv

\* Each step of the server is one answer, to a request that has none yet.
LEMMA RepliesOnce ==
    ASSUME NEW f, NEW answer, Server!Reply(f, answer)
    PROVE  /\ request[f] # NoRequest
           /\ response[f] = NoResponse
           /\ response' = [response EXCEPT ![f] = answer]
<1>1. Server!NoRequest = NoRequest /\ Server!NoResponse = NoResponse
  BY DEF Server!NoRequest, NoRequest, Server!NoResponse, NoResponse, Server!NoToken, NoToken
<1>2. /\ request[f] # Server!NoRequest
      /\ response[f] = Server!NoResponse
      /\ response' = [response EXCEPT ![f] = answer]
  BY Zenon DEF Server!Reply
<1> QED
  BY <1>1, <1>2

LEMMA ServerAnswers ==
    ASSUME NEW f, Server!Effect(f) \/ Server!Show(f) \/ Server!Refuse(f)
    PROVE  \E answer : Server!Reply(f, answer)
<1>1. Server!Effect(f) => \E answer : Server!Reply(f, answer)
  BY Zenon DEF Server!Effect
<1>2. Server!Show(f) => \E answer : Server!Reply(f, answer)
  BY Zenon DEF Server!Show
<1>3. Server!Refuse(f) => \E answer : Server!Reply(f, answer)
  BY Zenon DEF Server!Refuse
<1> QED
  BY <1>1, <1>2, <1>3

\* The server answers a fetch that was sent, and keeps its promises.
LEMMA ServerKeeps ==
    ASSUME ServerInv, ServerStep
    PROVE  ServerInv' /\ request' = request /\ committed \subseteq committed'
<1>0. ASSUME NEW f \in Fetches, Server!Effect(f)
      PROVE  \E status \in {200, 500} : Server!Reply(f, Server!make_response(status))
  BY <1>0, Zenon DEF Server!Effect
<1>1. PICK f \in Fetches : Server!Effect(f) \/ Server!Show(f) \/ Server!Refuse(f)
  BY DEF ServerStep, Fetches
<1>2. CASE Server!Effect(f)
  <2>1. request' = request /\ committed' = committed \cup {f}
    BY <1>2 DEF Server!Effect
  <2>0. PICK status \in {200, 500} : Server!Reply(f, Server!make_response(status))
    BY <1>0, <1>2, Zenon
  <2>2. /\ request[f] # NoRequest
        /\ response' = [response EXCEPT ![f] = make_response(status)]
    <3>1. Server!make_response(status) = make_response(status)
      BY DEF Server!make_response, make_response, Server!NoToken, NoToken
    <3>2. request[f] # NoRequest
      BY <2>0, RepliesOnce
    <3>3. response' = [response EXCEPT ![f] = Server!make_response(status)]
      BY <2>0, RepliesOnce
    <3> QED
      BY <3>1, <3>2, <3>3
  <2>3. make_response(status) \in Response
    BY NothingTyped DEF make_response, Response, Statuses
  <2>4. CASE Server!Register(f)
    <3>1. request[f].target = "register"
      BY <2>4 DEF Server!Register
    <3>2. DOMAIN accounts' \subseteq Usernames \cup {Empty}
          /\ accounts' \in [DOMAIN accounts' -> AccountRecord]
      <4> DEFINE u == request[f].username
                 account == [password |-> request[f].password, balance |-> DefaultBalance]
      <4>1. u \in Usernames \cup {Empty} /\ account \in AccountRecord
        BY ClientAssumption DEF ServerInv, AccountRecord, Request
      <4>2. accounts' = [v \in DOMAIN accounts \cup {u} |->
                            IF v = u THEN account ELSE accounts[v]]
        BY <2>4 DEF Server!Register
      <4>3. DOMAIN accounts' = DOMAIN accounts \cup {u}
        BY <4>2
      <4>4. \A v \in DOMAIN accounts' : accounts'[v] \in AccountRecord
        BY <4>1, <4>2, <4>3 DEF ServerInv
      <4> QED
        BY <4>1, <4>2, <4>3, <4>4 DEF ServerInv
    <3> QED
      BY <2>1, <2>2, <2>3, <3>1, <3>2 DEF ServerInv, MoneyTargets
  <2>5. CASE Server!MoveMoney(f)
    <3>1. request[f].target \in MoneyTargets
      BY <2>5 DEF Server!MoveMoney, Server!MoneyTargets, MoneyTargets
    <3>2. DOMAIN accounts' \subseteq Usernames \cup {Empty}
          /\ accounts' \in [DOMAIN accounts' -> AccountRecord]
      <4>1. request[f].amount \in Int
        BY DEF ServerInv, Request
      <4>2. Server!Delta(request[f]) \in Int
        BY <3>1, <4>1 DEF Server!Delta, MoneyTargets
      <4> DEFINE u == Server!Account(request[f])
                 d == Server!Delta(request[f])
                 account == [accounts[u] EXCEPT !.balance = @ + d]
      <4>3. u \in DOMAIN accounts /\ accounts' = [accounts EXCEPT ![u] = account]
        BY <2>5 DEF Server!MoveMoney, Server!Registered
      <4>4. accounts[u] \in AccountRecord
        BY <4>3 DEF ServerInv
      <4>5. account \in AccountRecord
        BY <4>2, <4>4 DEF AccountRecord
      <4> HIDE DEF u, d, account
      <4>6. DOMAIN accounts' = DOMAIN accounts
        BY <4>3
      <4> QED
        BY <4>3, <4>5, <4>6 DEF ServerInv
    <3> QED
      BY <2>1, <2>2, <2>3, <3>1, <3>2 DEF ServerInv, MoneyTargets
  <2> QED
    BY <1>2, <2>1, <2>4, <2>5 DEF Server!Effect
<1> USE DEF Server!Reply, Server!make_response, Server!NoToken, Server!NoResponse,
            Server!NoRequest
<1>3. CASE Server!Show(f)
  <2>1. UNCHANGED <<accounts, request, committed>> /\ request[f] # NoRequest
    BY <1>3 DEF Server!Show, NoRequest, NoToken
  <2>2. PICK r :
           /\ response' = [response EXCEPT ![f] = r]
           /\ r \in Response
           /\ request[f].target \in {"login", "profile"}
           /\ request[f].target = "login" => r.token.username = request[f].username
    <3>1. Server!Account(request[f]) \in DOMAIN accounts
      BY <1>3 DEF Server!Show, Server!Registered
    <3>2. Server!Account(request[f]) \in Usernames \cup {Empty}
          /\ accounts[Server!Account(request[f])].balance \in Int
      BY <3>1 DEF ServerInv, AccountRecord
    <3>3. CASE request[f].target = "login"
      <4>1. Server!Account(request[f]) = request[f].username
        BY <3>3 DEF Server!Account, Server!TokenTargets, Server!MoneyTargets
      <4>2. PICK exp \in {0} : response' = [response EXCEPT ![f] =
               [status |-> 200, balance |-> accounts[Server!Account(request[f])].balance,
                token |-> [kind |-> "signed", username |-> Server!Account(request[f]),
                           exp |-> exp]]]
        BY <1>3, <3>3 DEF Server!Show
      <4> DEFINE r == [status |-> 200,
                       balance |-> accounts[Server!Account(request[f])].balance,
                       token |-> [kind |-> "signed",
                                  username |-> Server!Account(request[f]), exp |-> 0]]
      <4>3. r.token \in Token
        BY <3>2 DEF Token
      <4>4. r \in Response
        BY <3>2, <4>3 DEF Response, Statuses
      <4>5. response' = [response EXCEPT ![f] = r]
        BY <4>2
      <4>6. r.token.username = request[f].username
        BY <4>1
      <4> HIDE DEF r
      <4> QED
        BY <3>3, <4>4, <4>5, <4>6
    <3>4. CASE request[f].target = "profile"
      <4>1. response' = [response EXCEPT ![f] =
               [status |-> 200, balance |-> accounts[Server!Account(request[f])].balance,
                token |-> NoToken]]
        BY <1>3, <3>4 DEF Server!Show, NoToken
      <4>2. [status |-> 200, balance |-> accounts[Server!Account(request[f])].balance,
             token |-> NoToken] \in Response
        BY <3>2, NothingTyped DEF Response, Statuses
      <4> QED
        BY <3>2, <3>4, <4>1, <4>2
    <3>5. request[f].target \in {"login", "profile"}
      BY <1>3 DEF Server!Show
    <3> QED
      BY <3>3, <3>4, <3>5
  <2> QED
    BY <2>1, <2>2 DEF ServerInv, MoneyTargets
<1>4. CASE Server!Refuse(f)
  <2>1. UNCHANGED <<accounts, request, committed>> /\ request[f] # NoRequest
    BY <1>4 DEF Server!Refuse, NoRequest, NoToken
  <2>2. PICK status \in Server!Statuses :
           /\ Server!Justified(request[f], status)
           /\ response' = [response EXCEPT ![f] = make_response(status)]
    BY <1>4 DEF Server!Refuse, make_response, NoToken
  <2>3. status \in Statuses \ {200}
    BY <2>2 DEF Server!Justified, Server!Statuses, Statuses
  <2>4. make_response(status) \in Response /\ make_response(status).status # 200
    BY <2>3, NothingTyped DEF make_response, Response
  <2> QED
    BY <2>1, <2>2, <2>4 DEF ServerInv
<1> QED
  BY <1>1, <1>2, <1>3, <1>4
-------------------------------------------------------------------------------
(***************************************************************************)
(* Starting a call, and leaving a page.                                    *)
(***************************************************************************)

Kinds == CredentialTargets \cup TokenTargets

\* What Start makes of the calls: it adds k, and leaves the others alone but for
\* what is recorded of their history.
Started(others, k, t, q) ==
    /\ k \in Calls /\ k \notin DOMAIN others
    /\ DOMAIN call' = DOMAIN others \cup {k}
    /\ call'[k] \in CallRecord
    /\ call'[k].kind = q.target /\ call'[k].tab = t /\ call'[k].token = q.token
    /\ call'[k].stage = "request" /\ call'[k].mounted
    /\ \A i \in DOMAIN others :
          /\ call'[i] \in CallRecord
          /\ call'[i].kind = others[i].kind /\ call'[i].tab = others[i].tab
          /\ call'[i].token = others[i].token /\ call'[i].stage = others[i].stage
          /\ call'[i].mounted <=> others[i].mounted
    /\ request' = [request EXCEPT ![<<k, "request">>] = q]

LEMMA StartFacts ==
    ASSUME NEW others, NEW k, NEW t \in Tabs, NEW q \in Request, q.target \in Kinds,
           CallsTyped(others), Start(others, k, t, q)
    PROVE  Started(others, k, t, q)
<1> DEFINE crowd == {i \in DOMAIN others : others[i].tab = t /\ others[i].stage \in Fetching}
           foreign == q.target \in TokenTargets /\ q.token # storage.token
           started == [kind |-> q.target, tab |-> t, token |-> q.token, stage |-> "request",
                       mounted |-> TRUE, disturbed |-> crowd # {} \/ foreign]
<1>1. /\ k \in Calls \ DOMAIN others
      /\ call' = [i \in DOMAIN others \cup {k} |->
                     IF i = k THEN started
                     ELSE [others[i] EXCEPT !.disturbed = @ \/ i \in crowd]]
      /\ request' = [request EXCEPT ![<<k, "request">>] = q]
  BY DEF Start
<1>2. started \in CallRecord
  BY DEF CallRecord, Kinds, CredentialTargets, TokenTargets, MoneyTargets, Request, Fetching
<1>3. ASSUME NEW i \in DOMAIN others
      PROVE  /\ call'[i] \in CallRecord
             /\ call'[i].kind = others[i].kind /\ call'[i].tab = others[i].tab
             /\ call'[i].token = others[i].token /\ call'[i].stage = others[i].stage
             /\ call'[i].mounted <=> others[i].mounted
  <2>1. call'[i] = [others[i] EXCEPT !.disturbed = @ \/ i \in crowd]
    BY <1>1
  <2>2. others[i] \in CallRecord
    BY DEF CallsTyped
  <2>3. (others[i].disturbed \/ i \in crowd) \in BOOLEAN
    OBVIOUS
  <2> HIDE DEF crowd
  <2> QED
    BY <2>1, <2>2, <2>3 DEF CallRecord
<1>4. call'[k] = started /\ DOMAIN call' = DOMAIN others \cup {k}
  BY <1>1
<1> QED
  BY <1>1, <1>2, <1>3, <1>4 DEF Started

\* A new call spoils nothing, on the page that it belongs to.
LEMMA StartKeeps ==
    ASSUME ServerInv, NEW others, NEW k, NEW t \in Tabs, NEW q \in Request,
           q.target \in Kinds, page'[t] = HomePage(q.target),
           Sound(others, page', msg'), Start(others, k, t, q),
           UNCHANGED <<accounts, response, committed>>
    PROVE  ServerInv' /\ Sound(call, page, msg)'
<1>1. CallsTyped(others) /\ CallInv(others, page') /\ FreshInv(others)
      /\ SuccessInv(others, page', msg')
  BY DEF Sound
<1>2. Started(others, k, t, q)
  BY <1>1, StartFacts
<1> USE DEF Started
<1>3. request[<<k, "request">>] = NoRequest /\ <<k, "request">> \in Fetches
  BY <1>1, <1>2 DEF FreshInv, Fetches, Fetching
<1>4. ServerInv'
  BY <1>2, <1>3, NothingTyped DEF ServerInv
<1>5. CallsTyped(call')
  BY <1>1, <1>2 DEF CallsTyped
<1>6. request'[<<k, "request">>] = q
      /\ \A f \in Fetches : f # <<k, "request">> => request'[f] = request[f]
  BY <1>2, <1>3 DEF ServerInv
<1>7. CallInv(call, page)'
  <2> SUFFICES ASSUME NEW i \in DOMAIN call'
               PROVE  /\ call'[i].stage = "request" =>
                            /\ request'[<<i, "request">>].target = call'[i].kind
                            /\ call'[i].kind \in TokenTargets =>
                                  request'[<<i, "request">>].token = call'[i].token
                      /\ call'[i].stage = "refresh" =>
                            /\ request'[<<i, "refresh">>] = ProfileRequest(call'[i].token)
                            /\ call'[i].kind \in MoneyTargets
                      /\ call'[i].mounted => page'[call'[i].tab] = HomePage(call'[i].kind)
    BY DEF CallInv
  <2>1. CASE i = k
    BY <1>2, <1>6, <2>1
  <2>2. CASE i # k
    <3>1. i \in DOMAIN others /\ i \in Calls
      BY <1>1, <1>2, <2>2 DEF CallsTyped
    <3>2. request'[<<i, "request">>] = request[<<i, "request">>]
          /\ request'[<<i, "refresh">>] = request[<<i, "refresh">>]
      BY <1>6, <2>2, <3>1 DEF Fetches, Fetching
    <3> QED
      BY <1>1, <1>2, <3>1, <3>2 DEF CallInv
  <2> QED
    BY <2>1, <2>2
<1>8. FreshInv(call)'
  BY <1>1, <1>2, <1>6 DEF FreshInv, Fetches, Fetching
<1>9. SuccessInv(call, page, msg)'
  BY <1>1, <1>2, ZenonT(60) DEF SuccessInv
<1> QED
  BY <1>4, <1>5, <1>7, <1>8, <1>9 DEF Sound

\* What becomes of the calls when the page of t is left: those of t are mounted
\* no more, and may be over.
Left(t, others) ==
    /\ DOMAIN others = DOMAIN call
    /\ \A k \in DOMAIN call :
          /\ others[k] \in CallRecord
          /\ others[k].kind = call[k].kind /\ others[k].tab = call[k].tab
          /\ others[k].token = call[k].token
          /\ others[k].stage \in {call[k].stage, "done"}
          /\ others[k].mounted <=> call[k].mounted /\ call[k].tab # t

LEMMA LeavingIsLeft ==
    ASSUME NEW t \in Tabs, CallsTyped(call)
    PROVE  /\ Left(t, Unmounted(t))
           /\ Left(t, Discarded(t))
           /\ Left(t, [k \in DOMAIN call |->
                 [Unmounted(t)[k] EXCEPT !.disturbed = @ \/ call[k].stage \in Fetching]])
<1> DEFINE Interrupted == [k \in DOMAIN call |->
                 [Unmounted(t)[k] EXCEPT !.disturbed = @ \/ call[k].stage \in Fetching]]
<1>1. ASSUME NEW k \in DOMAIN call
      PROVE  /\ call[k] \in CallRecord
             /\ (call[k].mounted /\ call[k].tab # t) \in BOOLEAN
             /\ (call[k].disturbed \/ call[k].stage \in Fetching) \in BOOLEAN
  BY DEF CallsTyped
<1>2. Left(t, Unmounted(t))
  BY <1>1 DEF Left, Unmounted, CallRecord
<1>3. Left(t, Discarded(t))
  BY <1>1 DEF Left, Discarded, CallRecord
<1>4. Left(t, Interrupted)
  <2>1. ASSUME NEW k \in DOMAIN call
        PROVE  /\ Interrupted[k] \in CallRecord
               /\ Interrupted[k].kind = call[k].kind /\ Interrupted[k].tab = call[k].tab
               /\ Interrupted[k].token = call[k].token
               /\ Interrupted[k].stage = call[k].stage
               /\ Interrupted[k].mounted <=> call[k].mounted /\ call[k].tab # t
    <3>1. /\ Unmounted(t)[k] \in CallRecord
          /\ Unmounted(t)[k].kind = call[k].kind /\ Unmounted(t)[k].tab = call[k].tab
          /\ Unmounted(t)[k].token = call[k].token
          /\ Unmounted(t)[k].stage = call[k].stage
          /\ Unmounted(t)[k].mounted <=> call[k].mounted /\ call[k].tab # t
      BY <1>1, <1>2 DEF Left, Unmounted, CallRecord
    <3>2. Interrupted[k] =
            [Unmounted(t)[k] EXCEPT !.disturbed = @ \/ call[k].stage \in Fetching]
      OBVIOUS
    <3>3. (Unmounted(t)[k].disturbed \/ call[k].stage \in Fetching) \in BOOLEAN
      OBVIOUS
    <3> HIDE DEF Interrupted
    <3> QED
      BY <3>1, <3>2, <3>3 DEF CallRecord
  <2>2. DOMAIN Interrupted = DOMAIN call
    OBVIOUS
  <2> HIDE DEF Interrupted
  <2> QED
    BY <2>1, <2>2 DEF Left
<1> QED
  BY <1>2, <1>3, <1>4

\* The calls that a left page leaves behind are still sound.
LEMMA LeftIsSound ==
    ASSUME ClientInv, NEW t \in Tabs, NEW others, Left(t, others), NEW p,
           page' = [page EXCEPT ![t] = p], msg' = [msg EXCEPT ![t] = ""]
    PROVE  Sound(others, page', msg')
<1> USE DEF Left
<1>1. CallsTyped(call) /\ CallInv(call, page) /\ FreshInv(call) /\ SuccessInv(call, page, msg)
  BY DEF ClientInv, Sound
<1>2. CallsTyped(others)
  BY <1>1 DEF CallsTyped
<1>3. CallInv(others, page')
  <2> SUFFICES ASSUME NEW k \in DOMAIN call
               PROVE  /\ others[k].stage = "request" =>
                            /\ request[<<k, "request">>].target = others[k].kind
                            /\ others[k].kind \in TokenTargets =>
                                  request[<<k, "request">>].token = others[k].token
                      /\ others[k].stage = "refresh" =>
                            /\ request[<<k, "refresh">>] = ProfileRequest(others[k].token)
                            /\ others[k].kind \in MoneyTargets
                      /\ others[k].mounted => page'[others[k].tab] = HomePage(others[k].kind)
    BY DEF CallInv
  <2>1. others[k].stage \in {"request", "refresh"} => others[k].stage = call[k].stage
    OBVIOUS
  <2>2. others[k].mounted => page'[others[k].tab] = page[call[k].tab]
    <3>1. call[k].tab \in Tabs /\ page \in [Tabs -> {"home", "login", "register", "profile"}]
      BY <1>1 DEF CallsTyped, CallRecord, ClientInv, TypeOK
    <3> QED
      BY <3>1
  <2> QED
    BY <1>1, <2>1, <2>2, ZenonT(60) DEF CallInv
<1>4. FreshInv(others)
  BY <1>1 DEF FreshInv
<1>5. SuccessInv(others, page', msg')
  <2> SUFFICES ASSUME NEW u \in Tabs, page'[u] = "profile", msg'[u] = "success"
               PROVE  \E k \in DOMAIN others :
                         /\ others[k].tab = u /\ others[k].mounted
                         /\ others[k].kind \in MoneyTargets
                         /\ <<k, "request">> \in committed
    BY DEF SuccessInv
  <2>1. u # t /\ page[u] = "profile" /\ msg[u] = "success"
    BY DEF ClientInv, TypeOK
  <2>2. PICK k \in DOMAIN call :
           /\ call[k].tab = u /\ call[k].mounted /\ call[k].kind \in MoneyTargets
           /\ <<k, "request">> \in committed
    BY <1>1, <2>1 DEF SuccessInv
  <2>3. k \in DOMAIN others /\ others[k].tab = u /\ others[k].mounted
        /\ others[k].kind \in MoneyTargets
    BY <2>1, <2>2
  <2> QED
    BY <2>2, <2>3
<1> QED
  BY <1>2, <1>3, <1>4, <1>5 DEF Sound

LEMMA MountKeeps ==
    ASSUME ClientInv, NEW t \in Tabs, NEW others, Left(t, others),
           NEW p \in {"home", "login", "register", "profile"}, NEW s \in Session,
           Mount(t, p, s, others), storage' \in Session, user' \in [Tabs -> Session]
    PROVE  TypeOK' /\ ServerInv' /\ Sound(call, page, msg)'
<1>1. /\ page' = [page EXCEPT ![t] = p] /\ msg' = [msg EXCEPT ![t] = ""]
      /\ profile' = [profile EXCEPT ![t] = Shown(IF p = "profile" THEN s ELSE LoggedOut)]
      /\ UNCHANGED <<accounts, response, committed>>
  BY DEF Mount
<1>2. Sound(others, page', msg')
  BY <1>1, LeftIsSound
<1>3. ServerInv' /\ Sound(call, page, msg)'
  <2>1. CASE call' = others /\ request' = request
    <3>1. ServerInv'
      BY <1>1, <2>1 DEF ClientInv, ServerInv
    <3>2. CallsTyped(call')
      BY <1>2, <2>1 DEF Sound
    <3>3. CallInv(call, page)'
      BY <1>2, <2>1 DEF Sound, CallInv
    <3>4. FreshInv(call)'
      BY <1>2, <2>1 DEF Sound, FreshInv
    <3>5. SuccessInv(call, page, msg)'
      BY <1>1, <1>2, <2>1 DEF Sound, SuccessInv
    <3> QED
      BY <3>1, <3>2, <3>3, <3>4, <3>5 DEF Sound
  <2>2. ASSUME p = "profile", NEW k \in Calls, Start(others, k, t, ProfileRequest(s.token))
        PROVE  ServerInv' /\ Sound(call, page, msg)'
    <3> DEFINE q == ProfileRequest(s.token)
    <3>1. q \in Request /\ q.target = "profile"
      BY ProfileRequestTyped DEF Session
    <3>2. q.target \in Kinds /\ HomePage(q.target) = "profile"
      BY <3>1 DEF Kinds, TokenTargets, CredentialTargets, HomePage
    <3>3. page'[t] = HomePage(q.target)
      BY <1>1, <2>2, <3>2 DEF ClientInv, TypeOK
    <3> HIDE DEF q
    <3>4. Start(others, k, t, q)
      BY <2>2 DEF q
    <3>5. ServerInv
      BY DEF ClientInv
    <3> QED
      BY <1>1, <1>2, <3>1, <3>2, <3>3, <3>4, <3>5, StartKeeps
  <2> QED
    BY <2>1, <2>2 DEF Mount
<1>4. TypeOK'
  <2>1. Shown(IF p = "profile" THEN s ELSE LoggedOut) \in Details
    BY NothingTyped DEF Shown, Session, Details
  <2>2. /\ page' \in [Tabs -> {"home", "login", "register", "profile"}]
        /\ msg' \in [Tabs -> {"", "success", "error"}]
        /\ profile' \in [Tabs -> Details]
    BY <1>1, <2>1 DEF ClientInv, TypeOK
  <2> QED
    BY <1>3, <2>2 DEF TypeOK, Sound, CallsTyped
<1> QED
  BY <1>3, <1>4

\* /profile answers about the account of the token that the call holds.
LEMMA AnswerIsOwn ==
    ASSUME ClientInv, NEW k, Answered(k), call[k].kind \in TokenTargets
    PROVE  /\ k \in Calls /\ k \in DOMAIN call /\ call[k] \in CallRecord
           /\ Fetch(k) \in Fetches
           /\ call[k].stage = "request" \/ call[k].stage = "refresh"
           /\ Account(request[Fetch(k)]) = call[k].token.username
<1>1. k \in Calls /\ k \in DOMAIN call /\ call[k] \in CallRecord
  BY DEF ClientInv, Sound, CallsTyped, Answered, Waiting
<1>2. call[k].stage = "request" \/ call[k].stage = "refresh"
  BY DEF Answered, Waiting, Fetching
<1>3. CallInv(call, page)
  BY DEF ClientInv, Sound
<1>4. CASE call[k].stage = "request"
  BY <1>1, <1>3, <1>4 DEF CallInv, Fetch, Fetches, Fetching, Account
<1>5. CASE call[k].stage = "refresh"
  <2>1. call[k].token \in Token
    BY <1>1 DEF CallRecord
  <2> QED
    BY <1>1, <1>3, <1>5, <2>1, ProfileRequestTyped, ZenonT(60)
    DEF CallInv, Fetch, Fetches, Fetching
<1> QED
  BY <1>1, <1>2, <1>4, <1>5
-------------------------------------------------------------------------------
(***************************************************************************)
(* The handlers after an await.                                            *)
(***************************************************************************)

\* A call that awaits no further answer.
Carried(others) ==
    /\ DOMAIN others = DOMAIN call
    /\ \A k \in DOMAIN call :
          /\ others[k] \in CallRecord
          /\ others[k].kind = call[k].kind /\ others[k].tab = call[k].tab
          /\ others[k].token = call[k].token
          /\ others[k].stage \in {call[k].stage, "timer", "done"}
          /\ others[k].mounted <=> call[k].mounted

\* No message says success on Profile that did not say so before.
NoNewSuccess ==
    \A t \in Tabs : page[t] = "profile" /\ msg'[t] = "success" => msg[t] = "success"

LEMMA GotoCarries ==
    ASSUME ClientInv, NEW k \in DOMAIN call, NEW stage \in {"timer", "done"}
    PROVE  /\ Carried([call EXCEPT ![k].stage = stage])
           /\ Carried([call EXCEPT ![k].stage = "done", ![k].disturbed = TRUE])
<1>1. \A i \in DOMAIN call : call[i] \in CallRecord
  BY DEF ClientInv, Sound, CallsTyped
<1> DEFINE gone == [call[k] EXCEPT !.stage = stage]
           failed == [call[k] EXCEPT !.stage = "done", !.disturbed = TRUE]
<1>2. /\ gone \in CallRecord /\ failed \in CallRecord
      /\ gone.kind = call[k].kind /\ gone.tab = call[k].tab /\ gone.token = call[k].token
      /\ gone.stage = stage /\ (gone.mounted <=> call[k].mounted)
      /\ failed.kind = call[k].kind /\ failed.tab = call[k].tab
      /\ failed.token = call[k].token
      /\ failed.stage = "done" /\ (failed.mounted <=> call[k].mounted)
  BY <1>1 DEF CallRecord
<1>3. /\ [call EXCEPT ![k].stage = stage] = [call EXCEPT ![k] = gone]
      /\ [call EXCEPT ![k].stage = "done", ![k].disturbed = TRUE] = [call EXCEPT ![k] = failed]
  OBVIOUS
<1> HIDE DEF gone, failed
<1>4. Carried([call EXCEPT ![k] = gone]) /\ Carried([call EXCEPT ![k] = failed])
  BY <1>1, <1>2 DEF Carried
<1> QED
  BY <1>3, <1>4

LEMMA CarriedIsSound ==
    ASSUME ClientInv, NEW others, Carried(others), NoNewSuccess
    PROVE  Sound(others, page, msg')
<1> USE DEF Carried
<1>1. CallsTyped(call) /\ CallInv(call, page) /\ FreshInv(call) /\ SuccessInv(call, page, msg)
  BY DEF ClientInv, Sound
<1>2. CallsTyped(others)
  BY <1>1 DEF CallsTyped
<1>3. CallInv(others, page)
  BY <1>1, ZenonT(60) DEF CallInv
<1>4. FreshInv(others)
  BY <1>1 DEF FreshInv
<1>5. SuccessInv(others, page, msg')
  BY <1>1 DEF SuccessInv, NoNewSuccess
<1> QED
  BY <1>2, <1>3, <1>4, <1>5 DEF Sound

\* Sound says the same of equal states.
LEMMA SoundNext ==
    ASSUME NEW others, Sound(others, page, msg'), call' = others,
           UNCHANGED <<request, page>>, committed \subseteq committed'
    PROVE  Sound(call, page, msg)'
<1>1. CallsTyped(call')
  BY DEF Sound
<1>2. CallInv(call, page)'
  BY DEF Sound, CallInv
<1>3. FreshInv(call)'
  BY DEF Sound, FreshInv
<1>4. SuccessInv(call, page, msg)'
  BY DEF Sound, SuccessInv
<1> QED
  BY <1>1, <1>2, <1>3, <1>4 DEF Sound

LEMMA SayFacts ==
    ASSUME ClientInv, NEW k \in DOMAIN call, NEW type \in {"success", "error"}, Say(k, type)
    PROVE  /\ msg' \in [Tabs -> {"", "success", "error"}]
           /\ type = "error" \/ call[k].kind \in CredentialTargets => NoNewSuccess
<1>1. call[k] \in CallRecord
      /\ (call[k].mounted => page[call[k].tab] = HomePage(call[k].kind))
  BY DEF ClientInv, Sound, CallsTyped, CallInv
<1>2. msg \in [Tabs -> {"", "success", "error"}] /\ call[k].tab \in Tabs
  BY <1>1 DEF ClientInv, TypeOK, CallRecord
<1>3. msg' \in [Tabs -> {"", "success", "error"}]
  BY <1>2 DEF Say
<1>4. ASSUME type = "error" PROVE NoNewSuccess
  BY <1>2, <1>4 DEF Say, NoNewSuccess
<1>5. ASSUME call[k].kind \in CredentialTargets PROVE NoNewSuccess
  <2>1. call[k].mounted => page[call[k].tab] # "profile"
    BY <1>1, <1>5 DEF HomePage, CredentialTargets
  <2> QED
    BY <1>2, <2>1 DEF Say, NoNewSuccess
<1> QED
  BY <1>3, <1>4, <1>5

\* A handler that fails changes nothing but its page.
LEMMA FailKeeps ==
    ASSUME ClientInv, NEW k \in DOMAIN call, Fail(k), Say(k, "error") \/ msg' = msg,
           UNCHANGED <<accounts, request, response, committed, storage, user, page, profile>>
    PROVE  ClientInv'
<1>1. msg' \in [Tabs -> {"", "success", "error"}] /\ NoNewSuccess
  <2>1. CASE Say(k, "error")
    BY <2>1, SayFacts
  <2>2. CASE msg' = msg
    BY <2>2 DEF ClientInv, TypeOK, NoNewSuccess
  <2> QED
    BY <2>1, <2>2
<1>2. Carried(call') /\ call' = [call EXCEPT ![k].stage = "done", ![k].disturbed = TRUE]
  BY GotoCarries DEF Fail
<1>3. Sound(call, page, msg)'
  BY <1>1, <1>2, CarriedIsSound, SoundNext
<1>4. TypeOK'
  BY <1>1, <1>3 DEF ClientInv, TypeOK, Sound, CallsTyped
<1>5. ServerInv' /\ SessionsCoherent'
  BY DEF ClientInv, ServerInv, SessionsCoherent
<1> QED
  BY <1>3, <1>4, <1>5 DEF ClientInv

LEMMA UpdateKeepsClient ==
    ASSUME ClientInv, NEW k, Answered(k), call[k].kind \in TokenTargets, UpdateBalance(k),
           UNCHANGED <<accounts, response, committed, page, msg>>
    PROVE  ClientInv'
<1> DEFINE t == call[k].tab
           fresh == [token |-> call[k].token,
                     username |-> Account(request[Fetch(k)]),
                     balance |-> response[Fetch(k)].balance]
           others == [call EXCEPT ![k].stage = "done"]
<1>1. /\ k \in DOMAIN call /\ call[k] \in CallRecord /\ Fetch(k) \in Fetches
      /\ fresh.username = fresh.token.username
  BY AnswerIsOwn
<1>2. t \in Tabs /\ call[k].token \in Token
  BY <1>1 DEF CallRecord
<1>3. fresh \in Session
  <2>1. call[k].token.username \in Usernames \cup {Empty}
    BY <1>2 DEF Token
  <2>2. response[Fetch(k)].balance \in Int
    BY <1>1 DEF ClientInv, ServerInv, Response
  <2> QED
    BY <1>1, <1>2, <2>1, <2>2 DEF Session
<1>4. /\ user' = [user EXCEPT ![t] = fresh]
      /\ storage' = [storage EXCEPT !.balance = fresh.balance]
      /\ profile' = IF call[k].mounted THEN [profile EXCEPT ![t] = Shown(fresh)] ELSE profile
      /\ \/ /\ page[t] = "profile"
            /\ \E i \in Calls : Start(others, i, t, ProfileRequest(fresh.token))
         \/ call' = others /\ UNCHANGED request
  BY DEF UpdateBalance
<1>5. ServerInv' /\ Sound(call, page, msg)'
  <2>1. Sound(others, page, msg') /\ page' = page
    BY <1>1, GotoCarries, CarriedIsSound DEF NoNewSuccess
  <2>2. CASE call' = others /\ UNCHANGED request
    BY <2>1, <2>2, SoundNext DEF ClientInv, ServerInv
  <2>3. ASSUME page[t] = "profile", NEW i \in Calls,
               Start(others, i, t, ProfileRequest(fresh.token))
        PROVE  ServerInv' /\ Sound(call, page, msg)'
    <3> DEFINE q == ProfileRequest(fresh.token)
    <3>1. q \in Request /\ q.target = "profile"
      BY <1>2, ProfileRequestTyped
    <3>2. q.target \in Kinds /\ page'[t] = HomePage(q.target)
      BY <2>3, <3>1 DEF Kinds, TokenTargets, CredentialTargets, HomePage
    <3>3. Sound(others, page', msg') /\ ServerInv
      BY <2>1 DEF ClientInv
    <3>4. Start(others, i, t, q)
      BY <2>3
    <3> HIDE DEF q, others, t
    <3> QED
      BY <1>2, <3>1, <3>2, <3>3, <3>4, StartKeeps
  <2> QED
    BY <1>4, <2>2, <2>3
<1> HIDE DEF fresh, t
<1>6. storage' \in Session /\ user' \in [Tabs -> Session]
      /\ storage'.token = storage.token /\ storage'.username = storage.username
  BY <1>2, <1>3, <1>4 DEF ClientInv, TypeOK, Session
<1>7. TypeOK'
  <2>1. Shown(fresh) \in Details
    BY <1>3 DEF Shown, Session, Details
  <2>2. profile' \in [Tabs -> Details]
    BY <1>2, <1>4, <2>1 DEF ClientInv, TypeOK
  <2> QED
    BY <1>5, <1>6, <2>2 DEF ClientInv, TypeOK, Sound, CallsTyped
<1>8. SessionsCoherent'
  <2>1. fresh.token.username = fresh.username
    BY <1>1 DEF fresh
  <2>2. \A u \in Tabs : user[u].token.username = user[u].username
    BY DEF ClientInv, SessionsCoherent
  <2>3. \A u \in Tabs : user'[u].token.username = user'[u].username
    BY <1>2, <1>4, <2>1, <2>2 DEF ClientInv, TypeOK
  <2>4. storage'.token.username = storage'.username
    BY <1>6 DEF ClientInv, SessionsCoherent
  <2> QED
    BY <2>3, <2>4 DEF SessionsCoherent
<1> QED
  BY <1>5, <1>7, <1>8 DEF ClientInv

\* What the forms send.
LEMMA SubmittedRequests ==
    ASSUME TypeOK, NEW t \in Tabs, SubmitCredentials(t) \/ SubmitMoney(t)
    PROVE  \E q \in Request :
              q.target \in Kinds /\ page[t] = HomePage(q.target) /\ Submit(t, q)
<1>1. CASE SubmitCredentials(t)
  <2>1. PICK u \in Usernames, w \in Passwords :
           Submit(t, [target |-> page[t], token |-> NoToken, username |-> u, password |-> w,
                      amount |-> 0, wellFormed |-> TRUE])
    BY <1>1 DEF SubmitCredentials
  <2> DEFINE q == [target |-> page[t], token |-> NoToken, username |-> u, password |-> w,
                   amount |-> 0, wellFormed |-> TRUE]
  <2>2. page[t] \in CredentialTargets
    BY <1>1 DEF SubmitCredentials
  <2>3. q \in Request /\ q.target \in Kinds /\ page[t] = HomePage(q.target)
    BY <2>2, NothingTyped DEF Request, AllTargets, Kinds, HomePage
  <2> HIDE DEF q
  <2>4. Submit(t, q)
    BY <2>1 DEF q
  <2> QED
    BY <2>3, <2>4
<1>2. CASE SubmitMoney(t)
  <2>1. PICK target \in MoneyTargets, amount \in Amounts :
           Submit(t, [target |-> target, token |-> user[t].token, username |-> Empty,
                      password |-> Empty, amount |-> amount, wellFormed |-> TRUE])
    BY <1>2 DEF SubmitMoney
  <2> DEFINE q == [target |-> target, token |-> user[t].token, username |-> Empty,
                   password |-> Empty, amount |-> amount, wellFormed |-> TRUE]
  <2>2. page[t] = "profile" /\ user[t].token \in Token /\ amount \in Int
    BY <1>2, ClientAssumption DEF SubmitMoney, TypeOK, Session
  <2>3. q \in Request /\ q.target \in Kinds /\ page[t] = HomePage(q.target)
    BY <2>2 DEF Request, AllTargets, TokenTargets, Kinds, HomePage, MoneyTargets,
                CredentialTargets
  <2> HIDE DEF q
  <2>4. Submit(t, q)
    BY <2>1 DEF q
  <2> QED
    BY <2>3, <2>4
<1> QED
  BY <1>1, <1>2

\* What users do.
LEMMA UserKeeps ==
    ASSUME ClientInv, NEW t \in Tabs, UserStep(t)
    PROVE  ClientInv'
<1> USE DEF ClientInv
<1>1. storage \in Session /\ user \in [Tabs -> Session] /\ CallsTyped(call)
      /\ LoggedOut \in Session /\ LoggedOut.token.username = LoggedOut.username
  BY NothingTyped DEF TypeOK, CallsTyped
<1>2. Left(t, Unmounted(t)) /\ Left(t, Discarded(t))
  BY <1>1, LeavingIsLeft
<1>3. ASSUME NEW p \in {"home", "login", "register", "profile"}, Load(t, p)
      PROVE  ClientInv'
  <2>1. storage' = storage /\ user' = [user EXCEPT ![t] = storage]
        /\ Mount(t, p, storage, Discarded(t))
    BY <1>3 DEF Load
  <2>2. TypeOK' /\ ServerInv' /\ Sound(call, page, msg)'
    BY <1>1, <1>2, <2>1, MountKeeps
  <2>3. SessionsCoherent'
    BY <1>1, <2>1 DEF SessionsCoherent
  <2> QED
    BY <2>2, <2>3
<1>4. ASSUME NEW p \in {"home", "login", "register", "profile"}, Visit(t, p) \/ Back(t, p)
      PROVE  ClientInv'
  <2>1. UNCHANGED <<storage, user>> /\ Mount(t, p, user[t], Unmounted(t))
    BY <1>4 DEF Visit, Back
  <2>2. TypeOK' /\ ServerInv' /\ Sound(call, page, msg)'
    BY <1>1, <1>2, <2>1, MountKeeps
  <2>3. SessionsCoherent'
    BY <1>1, <2>1 DEF SessionsCoherent
  <2> QED
    BY <2>2, <2>3
<1>5. ASSUME Logout(t) PROVE ClientInv'
  <2> DEFINE interrupted == [k \in DOMAIN call |->
                 [Unmounted(t)[k] EXCEPT !.disturbed = @ \/ call[k].stage \in Fetching]]
  <2>1. storage' = LoggedOut /\ user' = [user EXCEPT ![t] = LoggedOut]
        /\ Mount(t, "home", LoggedOut, interrupted)
    BY <1>5 DEF Logout
  <2>2. Left(t, interrupted)
    BY <1>1, LeavingIsLeft
  <2> HIDE DEF interrupted
  <2>3. TypeOK' /\ ServerInv' /\ Sound(call, page, msg)'
    BY <1>1, <2>1, <2>2, MountKeeps
  <2>4. SessionsCoherent'
    BY <1>1, <2>1 DEF SessionsCoherent
  <2> QED
    BY <2>3, <2>4
<1>6. ASSUME NEW q \in Request, q.target \in Kinds, page[t] = HomePage(q.target), Submit(t, q)
      PROVE  ClientInv'
  <2>1. UNCHANGED <<accounts, response, committed, storage, user, page, profile>>
        /\ msg' = [msg EXCEPT ![t] = ""]
    BY <1>6 DEF Submit
  <2>2. PICK k \in Calls : Start(call, k, t, q)
    BY <1>6 DEF Submit
  <2>3. msg' \in [Tabs -> {"", "success", "error"}] /\ NoNewSuccess
    BY <2>1 DEF TypeOK, NoNewSuccess
  <2>4. Carried(call)
    BY <1>1 DEF Carried, CallsTyped
  <2>5. Sound(call, page', msg')
    BY <2>1, <2>3, <2>4, CarriedIsSound
  <2>6. page'[t] = HomePage(q.target)
    BY <1>6, <2>1
  <2>7. ServerInv' /\ Sound(call, page, msg)'
    BY <1>6, <2>1, <2>2, <2>5, <2>6, StartKeeps
  <2>8. TypeOK'
    BY <2>1, <2>3, <2>7 DEF TypeOK, Sound, CallsTyped
  <2>9. SessionsCoherent'
    BY <2>1 DEF SessionsCoherent
  <2> QED
    BY <2>7, <2>8, <2>9
<1>7. ASSUME SubmitCredentials(t) \/ SubmitMoney(t) PROVE ClientInv'
  BY <1>6, <1>7, SubmittedRequests
<1> QED
  BY <1>3, <1>4, <1>5, <1>7 DEF UserStep

\* After a deposit or withdrawal: a 200 was the answer to this call, and only
\* now is its second fetch sent.
LEMMA MoneyKeeps ==
    ASSUME ClientInv, NEW k, MoneyAnswered(k), Ok(k), Say(k, "success"), Goto(k, "refresh"),
           request' = [request EXCEPT ![<<k, "refresh">>] = ProfileRequest(call[k].token)]
    PROVE  ClientInv'
<1> USE DEF ClientInv
<1>1. /\ k \in DOMAIN call /\ k \in Calls /\ call[k] \in CallRecord
      /\ call[k].kind \in MoneyTargets /\ call[k].stage = "request"
      /\ Fetch(k) = <<k, "request">> /\ Fetch(k) \in Fetches
      /\ <<k, "refresh">> \in Fetches
      /\ UNCHANGED <<accounts, response, committed, storage, user, page, profile>>
  BY DEF MoneyAnswered, Answered, Waiting, Fetch, Fetches, Fetching, Sound, CallsTyped
<1>2. /\ CallsTyped(call) /\ CallInv(call, page) /\ FreshInv(call)
      /\ SuccessInv(call, page, msg)
  BY DEF Sound
<1>3. request[Fetch(k)].target \in MoneyTargets /\ response[Fetch(k)].status = 200
  BY <1>1, <1>2 DEF CallInv, Ok
<1>4. <<k, "request">> \in committed
  BY <1>1, <1>3 DEF ServerInv
<1>5. ProfileRequest(call[k].token) \in Request /\ request[<<k, "refresh">>] = NoRequest
  BY <1>1, <1>2, ProfileRequestTyped DEF CallRecord, FreshInv
<1>6. ServerInv'
  BY <1>1, <1>5, NothingTyped DEF ServerInv
<1>7. /\ request'[<<k, "refresh">>] = ProfileRequest(call[k].token)
      /\ \A f \in Fetches : f # <<k, "refresh">> => request'[f] = request[f]
  BY <1>1 DEF ServerInv
<1>8. /\ DOMAIN call' = DOMAIN call
      /\ \A i \in DOMAIN call :
            /\ call'[i] \in CallRecord
            /\ call'[i].kind = call[i].kind /\ call'[i].tab = call[i].tab
            /\ call'[i].token = call[i].token
            /\ call'[i].stage = IF i = k THEN "refresh" ELSE call[i].stage
            /\ call'[i].mounted <=> call[i].mounted
  <2> DEFINE gone == [call[k] EXCEPT !.stage = "refresh"]
  <2>1. /\ gone \in CallRecord
        /\ gone.kind = call[k].kind /\ gone.tab = call[k].tab /\ gone.token = call[k].token
        /\ gone.stage = "refresh" /\ (gone.mounted <=> call[k].mounted)
    BY <1>1 DEF CallRecord, Fetching
  <2>2. call' = [call EXCEPT ![k] = gone]
    BY DEF Goto
  <2> HIDE DEF gone
  <2> QED
    BY <1>1, <1>2, <2>1, <2>2 DEF CallsTyped
<1>9. CallsTyped(call')
  BY <1>2, <1>8 DEF CallsTyped
<1>10. CallInv(call, page)'
  <2> SUFFICES ASSUME NEW i \in DOMAIN call
               PROVE  /\ call'[i].stage = "request" =>
                            /\ request'[<<i, "request">>].target = call'[i].kind
                            /\ call'[i].kind \in TokenTargets =>
                                  request'[<<i, "request">>].token = call'[i].token
                      /\ call'[i].stage = "refresh" =>
                            /\ request'[<<i, "refresh">>] = ProfileRequest(call'[i].token)
                            /\ call'[i].kind \in MoneyTargets
                      /\ call'[i].mounted => page'[call'[i].tab] = HomePage(call'[i].kind)
    BY <1>8 DEF CallInv
  <2>1. CASE i = k
    BY <1>1, <1>2, <1>7, <1>8, <2>1 DEF CallInv
  <2>2. CASE i # k
    <3>1. request'[<<i, "request">>] = request[<<i, "request">>]
          /\ request'[<<i, "refresh">>] = request[<<i, "refresh">>]
      BY <1>2, <1>7, <2>2 DEF Fetches, Fetching, CallsTyped
    <3> QED
      BY <1>1, <1>2, <1>8, <2>2, <3>1 DEF CallInv
  <2> QED
    BY <2>1, <2>2
<1>11. FreshInv(call)'
  <2> SUFFICES ASSUME NEW i \in Calls
               PROVE  /\ i \notin DOMAIN call => request'[<<i, "request">>] = NoRequest
                      /\ i \notin DOMAIN call \/ call'[i].stage = "request" =>
                            request'[<<i, "refresh">>] = NoRequest
    BY <1>8 DEF FreshInv
  <2>1. CASE i = k
    BY <1>1, <1>8, <2>1
  <2>2. CASE i # k
    <3>1. request'[<<i, "request">>] = request[<<i, "request">>]
          /\ request'[<<i, "refresh">>] = request[<<i, "refresh">>]
      BY <1>7, <2>2 DEF Fetches, Fetching
    <3> QED
      BY <1>2, <1>8, <2>2, <3>1 DEF FreshInv
  <2> QED
    BY <2>1, <2>2
<1>12. SuccessInv(call, page, msg)'
  <2> SUFFICES ASSUME NEW u \in Tabs, page[u] = "profile", msg'[u] = "success"
               PROVE  \E i \in DOMAIN call :
                         /\ call[i].tab = u /\ call[i].mounted /\ call[i].kind \in MoneyTargets
                         /\ <<i, "request">> \in committed
    BY <1>1, <1>8 DEF SuccessInv
  <2>1. CASE call[k].mounted /\ call[k].tab = u
    BY <1>1, <1>4, <2>1
  <2>2. CASE ~(call[k].mounted /\ call[k].tab = u)
    <3>1. msg[u] = "success"
      BY <2>2 DEF Say, TypeOK
    <3> QED
      BY <1>2, <3>1 DEF SuccessInv
  <2> QED
    BY <2>1, <2>2
<1>13. TypeOK'
  BY <1>1, <1>9, SayFacts DEF TypeOK, CallsTyped
<1>14. SessionsCoherent'
  BY <1>1 DEF SessionsCoherent
<1> QED
  BY <1>6, <1>9, <1>10, <1>11, <1>12, <1>13, <1>14 DEF Sound

\* After a login or a registration.
LEMMA CredentialsKeep ==
    ASSUME ClientInv, NEW k \in DOMAIN call, call[k].kind \in CredentialTargets,
           Say(k, "success"), Goto(k, "timer"),
           storage' \in Session, storage'.token.username = storage'.username,
           UNCHANGED <<accounts, request, response, committed, user, page, profile>>
    PROVE  ClientInv'
<1>1. msg' \in [Tabs -> {"", "success", "error"}] /\ NoNewSuccess
  BY SayFacts
<1>2. Carried(call')
  BY GotoCarries DEF Goto
<1>3. Sound(call, page, msg)'
  BY <1>1, <1>2, CarriedIsSound, SoundNext
<1>4. TypeOK'
  BY <1>1, <1>3 DEF ClientInv, TypeOK, Sound, CallsTyped
<1>5. ServerInv' /\ SessionsCoherent'
  BY DEF ClientInv, ServerInv, SessionsCoherent
<1> QED
  BY <1>3, <1>4, <1>5 DEF ClientInv

LEMMA CallKeeps ==
    ASSUME ClientInv, NEW k \in Calls, CallStep(k)
    PROVE  ClientInv'
<1>1. ASSUME ProfileFetched(k) PROVE ClientInv'
  <2>1. k \in DOMAIN call /\ UNCHANGED <<accounts, response, committed, page>>
    BY <1>1 DEF ProfileFetched, Answered, Waiting
  <2>2. CASE Ok(k)
    <3>1. Answered(k) /\ call[k].kind \in TokenTargets /\ UpdateBalance(k) /\ UNCHANGED msg
      BY <1>1, <2>2 DEF ProfileFetched, TokenTargets
    <3> QED
      BY <2>1, <3>1, UpdateKeepsClient
  <2>3. CASE ~Ok(k)
    <3>1. Say(k, "error") /\ Fail(k) /\ UNCHANGED <<request, storage, user, profile>>
      BY <1>1, <2>3 DEF ProfileFetched
    <3> QED
      BY <2>1, <3>1, FailKeeps
  <2> QED
    BY <2>2, <2>3
<1>2. ASSUME MoneyAnswered(k) PROVE ClientInv'
  <2>1. CASE ~Ok(k)
    BY <1>2, <2>1, FailKeeps DEF MoneyAnswered, Answered, Waiting
  <2>2. CASE Ok(k)
    BY <1>2, <2>2, MoneyKeeps DEF MoneyAnswered
  <2> QED
    BY <2>1, <2>2
<1>3. ASSUME Refreshed(k) PROVE ClientInv'
  <2>1. CASE UpdateBalance(k)
    BY <1>3, <2>1, UpdateKeepsClient DEF Refreshed, TokenTargets
  <2>2. CASE Fail(k) /\ UNCHANGED <<request, storage, user, profile>>
    <3>1. k \in DOMAIN call /\ UNCHANGED <<accounts, response, committed, page, msg>>
      BY <1>3 DEF Refreshed, Answered, Waiting
    <3> QED
      BY <2>2, <3>1, FailKeeps
  <2> QED
    BY <1>3, <2>1, <2>2 DEF Refreshed
<1>4. ASSUME LoginAnswered(k) PROVE ClientInv'
  <2>1. /\ k \in DOMAIN call /\ call[k].kind = "login" /\ Answered(k)
        /\ UNCHANGED <<accounts, request, response, committed, user, page, profile>>
    BY <1>4 DEF LoginAnswered, Answered, Waiting, server
  <2>2. CASE ~Ok(k)
    BY <1>4, <2>1, <2>2, FailKeeps DEF LoginAnswered
  <2>3. CASE Ok(k)
    <3>1. /\ Say(k, "success") /\ Goto(k, "timer")
          /\ storage' = [token |-> response[Fetch(k)].token,
                         username |-> Account(request[Fetch(k)]),
                         balance |-> response[Fetch(k)].balance]
      BY <1>4, <2>3 DEF LoginAnswered
    <3>2. call[k].stage = "request"
      BY <2>1 DEF Answered, Waiting, Fetching, ClientInv, Sound, CallInv, MoneyTargets
    <3>3. Fetch(k) = <<k, "request">> /\ Fetch(k) \in Fetches
      BY <3>2 DEF Fetch, Fetches, Fetching
    <3>4. request[Fetch(k)].target = "login"
      BY <2>1, <3>2, <3>3 DEF ClientInv, Sound, CallInv
    <3>5. Account(request[Fetch(k)]) = request[Fetch(k)].username
      BY <3>4 DEF Account, TokenTargets, MoneyTargets
    <3>6. /\ response[Fetch(k)] \in Response /\ request[Fetch(k)] \in Request
          /\ response[Fetch(k)].token.username = request[Fetch(k)].username
      BY <2>3, <3>3, <3>4 DEF ClientInv, ServerInv, Ok
    <3>7. response[Fetch(k)].token \in Token /\ response[Fetch(k)].balance \in Int
          /\ request[Fetch(k)].username \in Usernames \cup {Empty}
      BY <3>6 DEF Response, Request
    <3>8. storage' \in Session /\ storage'.token.username = storage'.username
      BY <3>1, <3>5, <3>6, <3>7 DEF Session
    <3> QED
      BY <2>1, <3>1, <3>8, CredentialsKeep DEF CredentialTargets
  <2> QED
    BY <2>2, <2>3
<1>5. ASSUME RegisterAnswered(k) PROVE ClientInv'
  <2>1. /\ k \in DOMAIN call /\ call[k].kind \in CredentialTargets
        /\ UNCHANGED <<accounts, request, response, committed, storage, user, page, profile>>
    BY <1>5 DEF RegisterAnswered, Answered, Waiting, server, CredentialTargets
  <2>2. CASE ~Ok(k)
    BY <1>5, <2>1, <2>2, FailKeeps DEF RegisterAnswered
  <2>3. CASE Ok(k)
    <3>1. storage' \in Session /\ storage'.token.username = storage'.username
      BY <2>1 DEF ClientInv, TypeOK, SessionsCoherent
    <3>2. Say(k, "success") /\ Goto(k, "timer")
      BY <1>5, <2>3 DEF RegisterAnswered
    <3> QED
      BY <2>1, <3>1, <3>2, CredentialsKeep
  <2> QED
    BY <2>2, <2>3
<1>6. ASSUME NetworkError(k) PROVE ClientInv'
  BY <1>6, FailKeeps DEF NetworkError, Waiting, server
<1>7. ASSUME TimerFires(k) PROVE ClientInv'
  <2>1. call[k].tab \in Tabs /\ Load(call[k].tab, "home")
    BY <1>7 DEF TimerFires, ClientInv, Sound, CallsTyped, CallRecord
  <2>2. UserStep(call[k].tab)
    BY <2>1 DEF UserStep
  <2> QED
    BY <2>1, <2>2, UserKeeps
<1> QED
  BY <1>1, <1>2, <1>3, <1>4, <1>5, <1>6, <1>7 DEF CallStep

LEMMA ClientNext ==
    ASSUME ClientInv, [Next]_vars
    PROVE  ClientInv'
<1>1. CASE UNCHANGED vars
  <2>1. Sound(call, page, msg') /\ UNCHANGED <<request, page, committed, call>>
    BY <1>1 DEF vars, ClientInv
  <2>2. Sound(call, page, msg)'
    BY <2>1, SoundNext
  <2>3. TypeOK'
    BY <1>1 DEF vars, ClientInv, TypeOK
  <2>4. ServerInv' /\ SessionsCoherent'
    BY <1>1 DEF vars, ClientInv, ServerInv, SessionsCoherent
  <2> QED
    BY <2>2, <2>3, <2>4 DEF ClientInv
<1>2. CASE ServerStep
  <2>1. /\ ServerInv' /\ request' = request /\ committed \subseteq committed'
        /\ UNCHANGED <<storage, user, page, profile, msg, call>>
    BY <1>2, ServerKeeps DEF ClientInv, ServerStep
  <2>2. TypeOK' /\ SessionsCoherent'
    BY <2>1 DEF ClientInv, TypeOK, SessionsCoherent
  <2>3. Sound(call, page, msg')
    BY <2>1 DEF ClientInv
  <2>4. Sound(call, page, msg)'
    BY <2>1, <2>3, SoundNext
  <2> QED
    BY <2>1, <2>2, <2>4 DEF ClientInv
<1> QED
  BY <1>1, <1>2, UserKeeps, CallKeeps DEF Next
-------------------------------------------------------------------------------
LEMMA ClientInvariant == Spec => []ClientInv
<1>1. ClientInv /\ [Next]_vars => ClientInv'
  BY ClientNext
<1> QED
  BY ClientInit, <1>1, PTL DEF Spec

\* The state of the client has its types, whatever is on its way.
THEOREM ClientTypeCorrect == Spec => []TypeOK
<1>1. ClientInv => TypeOK
  BY DEF ClientInv
<1> QED
  BY <1>1, ClientInvariant, PTL

\* In any number of tabs, no late answer of login and no late refresh of a
\* balance puts the name of one user beside the token of another.
THEOREM NamesBelongToTokens == Spec => []SessionsCoherent
<1>1. ClientInv => SessionsCoherent
  BY DEF ClientInv
<1> QED
  BY <1>1, ClientInvariant, PTL

\* In any number of tabs, no answer that comes after a logout puts the session
\* back into localStorage: only an accepted login does, once, for its own user.
THEOREM LogoutIsFinal == Spec => LogoutHolds
<1>1. ASSUME ClientInv, [Next]_vars PROVE [SessionStep]_vars
  <2> SUFFICES ASSUME storage'.token # storage.token, storage' # LoggedOut
               PROVE  \E k \in DOMAIN call :
                         /\ Answered(k) /\ Ok(k) /\ call[k].kind = "login"
                         /\ call'[k].stage \notin Fetching
                         /\ storage'.token.username = request[<<k, "request">>].username
    BY DEF SessionStep
  <2>1. storage \in Session
    BY <1>1 DEF ClientInv, TypeOK
  <2>2. ~ServerStep /\ ~UNCHANGED vars
    BY DEF ServerStep, vars
  <2>3. ASSUME NEW t \in Tabs PROVE ~UserStep(t)
    BY DEF UserStep, Load, Visit, Back, Logout, SubmitCredentials, SubmitMoney, Submit
  <2>4. ASSUME NEW k, UpdateBalance(k) PROVE FALSE
    BY <2>1, <2>4 DEF UpdateBalance, Session
  <2>5. PICK k \in Calls : LoginAnswered(k)
    BY <1>1, <2>2, <2>3, <2>4
    DEF Next, CallStep, ProfileFetched, MoneyAnswered, Refreshed, RegisterAnswered,
        NetworkError, TimerFires, Load
  <2>6. /\ Answered(k) /\ Ok(k) /\ call[k].kind = "login" /\ Goto(k, "timer")
        /\ storage'.token = response[Fetch(k)].token
    BY <2>5 DEF LoginAnswered
  <2>7. k \in DOMAIN call /\ call[k] \in CallRecord /\ call[k].stage \in Fetching
    BY <1>1, <2>6 DEF Answered, Waiting, ClientInv, TypeOK
  <2>8. call[k].stage = "request" /\ request[<<k, "request">>].target = "login"
    BY <1>1, <2>6, <2>7 DEF ClientInv, Sound, CallInv, Fetching, MoneyTargets
  <2>9. storage'.token.username = request[<<k, "request">>].username
    BY <1>1, <2>5, <2>6, <2>8 DEF ClientInv, ServerInv, Fetch, Ok, Fetches, Fetching
  <2>10. call'[k].stage \notin Fetching
    BY <2>6, <2>7 DEF Goto, CallRecord, Fetching
  <2> QED
    BY <2>6, <2>7, <2>9, <2>10
<1>2. ClientInv /\ [Next]_vars => [SessionStep]_vars
  BY <1>1
<1> QED
  BY <1>2, ClientInvariant, PTL DEF Spec, LogoutHolds

\* However many deposits and withdrawals are on their way, Profile reports a
\* success only for one that the server has committed.
THEOREM ReportedSuccessIsTrue == Spec => []SuccessIsTrue
<1>1. ClientInv => SuccessIsTrue
  BY DEF ClientInv, Sound, SuccessInv, SuccessIsTrue
<1> QED
  BY <1>1, ClientInvariant, PTL
===============================================================================
