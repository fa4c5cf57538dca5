------------------------------ MODULE OneTabProofs ------------------------------
(***************************************************************************)
(* Proofs of the properties of WebClientProps that speak of an only tab:   *)
(* the session it shows, and the balance.                                  *)
(***************************************************************************)
EXTENDS WebClientProofs

\* As long as no call is disturbed, only one is waiting for an answer at a time,
\* and it is about the session that localStorage holds.
Calm(calls) == \A k \in DOMAIN calls : ~calls[k].disturbed

Due(calls) == \E k \in DOMAIN calls : calls[k].kind = "login" /\ calls[k].stage = "timer"

Orderly(calls, token) ==
    /\ \A i, j \in DOMAIN calls :
          calls[i].stage \in Fetching /\ calls[j].stage \in Fetching => i = j
    /\ \A k \in DOMAIN calls :
          calls[k].stage \in Fetching /\ calls[k].kind \in TokenTargets
              => calls[k].token = token

StoredInv(t) ==
    Calm(call) =>
        /\ Orderly(call, storage.token)
        /\ user[t].token = storage.token \/ Due(call)
-------------------------------------------------------------------------------
(***************************************************************************)
(* The session.                                                            *)
(***************************************************************************)

\* A call that is not disturbed is started when nothing is waiting.
LEMMA StartIsOrderly ==
    ASSUME NEW others, NEW k, NEW t \in Tabs, Tabs = {t}, NEW q \in Request,
           q.target \in Kinds, CallsTyped(others), Start(others, k, t, q), Calm(call')
    PROVE  /\ Calm(others)
           /\ Orderly(call', storage.token)
           /\ Due(others) => Due(call')
           /\ \A i \in DOMAIN others : others[i].stage \notin Fetching
<1> DEFINE crowd == {i \in DOMAIN others : others[i].tab = t /\ others[i].stage \in Fetching}
           foreign == q.target \in TokenTargets /\ q.token # storage.token
           started == [kind |-> q.target, tab |-> t, token |-> q.token, stage |-> "request",
                       mounted |-> TRUE, disturbed |-> crowd # {} \/ foreign]
<1>1. Started(others, k, t, q)
  BY StartFacts
<1>2. call' = [i \in DOMAIN others \cup {k} |->
                  IF i = k THEN started
                  ELSE [others[i] EXCEPT !.disturbed = @ \/ i \in crowd]]
  BY DEF Start
<1>3. ASSUME NEW i \in DOMAIN others PROVE ~others[i].disturbed /\ i \notin crowd
  <2>1. i # k /\ i \in DOMAIN call'
    BY <1>1 DEF Started
  <2>2. call'[i] = [others[i] EXCEPT !.disturbed = @ \/ i \in crowd]
    BY <1>2, <2>1
  <2>3. others[i] \in CallRecord /\ ~call'[i].disturbed
    BY <2>1 DEF CallsTyped, Calm
  <2> HIDE DEF crowd
  <2> QED
    BY <2>2, <2>3 DEF CallRecord
<1>4. \A i \in DOMAIN others : others[i].stage \notin Fetching
  BY <1>3 DEF CallsTyped, CallRecord
<1>5. q.target \in TokenTargets => q.token = storage.token
  <2>1. call'[k] = started /\ ~call'[k].disturbed
    BY <1>1, <1>2 DEF Started, Calm
  <2>2. started.disturbed <=> crowd # {} \/ foreign
    OBVIOUS
  <2>3. ~foreign
    <3> HIDE DEF started, crowd, foreign
    <3> QED
      BY <2>1, <2>2
  <2> QED
    BY <2>3
<1>6. Orderly(call', storage.token)
  <2>1. \A i \in DOMAIN call' : call'[i].stage \in Fetching => i = k
    BY <1>1, <1>4 DEF Started
  <2>2. call'[k].kind \in TokenTargets => call'[k].token = storage.token
    BY <1>1, <1>5 DEF Started
  <2> QED
    BY <2>1, <2>2 DEF Orderly
<1>7. Due(others) => Due(call')
  BY <1>1 DEF Started, Due
<1> QED
  BY <1>3, <1>4, <1>6, <1>7 DEF Calm

\* Leaving the page of t loses no reload, unless the document is discarded.
LEMMA MountIsOrderly ==
    ASSUME ClientInv, NEW t \in Tabs, Tabs = {t}, StoredInv(t), NEW others, Left(t, others),
           \A k \in DOMAIN call : call[k].disturbed => others[k].disturbed,
           NEW p, NEW s \in Session, Mount(t, p, s, others), Calm(call')
    PROVE  /\ Calm(others) /\ Calm(call)
           /\ Orderly(call', storage.token)
           /\ Due(others) => Due(call')
<1>1. CallsTyped(others)
  BY DEF Left, CallsTyped, ClientInv, Sound
<1>2. Calm(others) => Calm(call) /\ Orderly(others, storage.token)
  <2>1. Calm(others) => Calm(call)
    BY DEF Calm, Left
  <2>2. Orderly(call, storage.token) => Orderly(others, storage.token)
    BY DEF Orderly, Left, Fetching
  <2> QED
    BY <2>1, <2>2 DEF StoredInv
<1>3. CASE call' = others
  BY <1>2, <1>3 DEF Calm
<1>4. ASSUME NEW k \in Calls, Start(others, k, t, ProfileRequest(s.token))
      PROVE  /\ Calm(others) /\ Calm(call)
             /\ Orderly(call', storage.token)
             /\ Due(others) => Due(call')
  <2> DEFINE q == ProfileRequest(s.token)
  <2>1. q \in Request /\ q.target \in Kinds
    BY ProfileRequestTyped DEF Session, Kinds, TokenTargets
  <2>2. Start(others, k, t, q)
    BY <1>4
  <2> HIDE DEF q
  <2> QED
    BY <1>1, <1>2, <2>1, <2>2, StartIsOrderly
<1> QED
  BY <1>3, <1>4 DEF Mount

LEMMA DisturbanceLasts ==
    ASSUME NEW t \in Tabs, CallsTyped(call), NEW k \in DOMAIN call
    PROVE  /\ Unmounted(t)[k].disturbed <=> call[k].disturbed
           /\ Unmounted(t)[k].stage = call[k].stage /\ Unmounted(t)[k].kind = call[k].kind
           /\ call[k].disturbed \/ (call[k].tab = t /\ call[k].stage \in Fetching)
                 => Discarded(t)[k].disturbed
<1>1. call[k] \in CallRecord
  BY DEF CallsTyped
<1>2. Unmounted(t)[k] = [call[k] EXCEPT !.mounted = @ /\ call[k].tab # t]
  BY DEF Unmounted
<1>3. Discarded(t)[k] =
        IF call[k].tab # t THEN call[k]
        ELSE [call[k] EXCEPT !.mounted = FALSE, !.stage = "done",
                             !.disturbed = @ \/ call[k].stage \in Fetching]
  BY DEF Discarded
<1> QED
  BY <1>1, <1>2, <1>3 DEF CallRecord

\* What Goto makes of the calls.
MovedOn(others, k, stage) == others = [call EXCEPT ![k].stage = stage]

\* The only waiting call moves on.
LEMMA GotoIsOrderly ==
    ASSUME CallsTyped(call), NEW k \in DOMAIN call, call[k].stage \in Fetching,
           NEW stage \in {"refresh", "timer", "done"}, NEW token, Orderly(call, token),
           NEW others, MovedOn(others, k, stage)
    PROVE  /\ Calm(others) <=> Calm(call)
           /\ Orderly(others, token)
           /\ Due(call) => Due(others)
           /\ stage # "refresh" => \A i \in DOMAIN others : others[i].stage \notin Fetching
           /\ CallsTyped(others)
           /\ DOMAIN others = DOMAIN call
           /\ others[k].kind = call[k].kind /\ others[k].stage = stage
           /\ \A i \in DOMAIN call \ {k} : others[i] = call[i]
<1> DEFINE gone == [call[k] EXCEPT !.stage = stage]
<1>1. call[k] \in CallRecord /\ others = [call EXCEPT ![k] = gone]
  BY DEF CallsTyped, MovedOn
<1>2. /\ gone \in CallRecord
      /\ gone.kind = call[k].kind /\ gone.token = call[k].token
      /\ gone.stage = stage /\ (gone.disturbed <=> call[k].disturbed)
  BY <1>1 DEF CallRecord, Fetching
<1> HIDE DEF gone
<1>3. others[k] = gone /\ DOMAIN others = DOMAIN call
      /\ \A i \in DOMAIN call \ {k} : others[i] = call[i]
  BY <1>1
<1>4. CallsTyped(others)
  BY <1>2, <1>3 DEF CallsTyped
<1>5. Calm(others) <=> Calm(call)
  BY <1>2, <1>3 DEF Calm
<1>6. Orderly(others, token)
  BY <1>2, <1>3 DEF Orderly
<1>7. Due(call) => Due(others)
  BY <1>2, <1>3 DEF Due, Fetching
<1>8. stage # "refresh" => \A i \in DOMAIN others : others[i].stage \notin Fetching
  BY <1>2, <1>3 DEF Orderly, Fetching
<1> QED
  BY <1>2, <1>3, <1>4, <1>5, <1>6, <1>7, <1>8

\* A failed call is disturbed.
LEMMA FailDisturbs ==
    ASSUME CallsTyped(call), NEW k \in DOMAIN call, Fail(k)
    PROVE  ~Calm(call')
<1>1. call[k] \in CallRecord
  BY DEF CallsTyped
<1>2. call' = [call EXCEPT ![k] = [call[k] EXCEPT !.stage = "done", !.disturbed = TRUE]]
  BY DEF Fail
<1>3. [call[k] EXCEPT !.stage = "done", !.disturbed = TRUE].disturbed
  BY <1>1 DEF CallRecord
<1> QED
  BY <1>2, <1>3 DEF Calm

LEMMA StoredUser ==
    ASSUME ClientInv, NEW t \in Tabs, Tabs = {t}, StoredInv(t), UserStep(t)
    PROVE  StoredInv(t)'
<1> SUFFICES ASSUME Calm(call')
             PROVE  /\ Orderly(call', storage'.token)
                    /\ user'[t].token = storage'.token \/ Due(call')
  BY DEF StoredInv
<1>1. storage \in Session /\ user \in [Tabs -> Session] /\ CallsTyped(call) /\ TypeOK
      /\ LoggedOut \in Session
  BY NothingTyped DEF ClientInv, TypeOK, CallsTyped
<1>2. /\ Left(t, Unmounted(t)) /\ Left(t, Discarded(t))
      /\ Due(call) => Due(Unmounted(t))
      /\ \A k \in DOMAIN call : call[k].disturbed =>
            Unmounted(t)[k].disturbed /\ Discarded(t)[k].disturbed
  BY <1>1, LeavingIsLeft, DisturbanceLasts DEF Due, Left
<1>3. ASSUME NEW p, Load(t, p)
      PROVE  /\ Orderly(call', storage'.token)
             /\ user'[t].token = storage'.token \/ Due(call')
  <2>1. storage' = storage /\ user' = [user EXCEPT ![t] = storage]
        /\ Mount(t, p, storage, Discarded(t))
    BY <1>3 DEF Load
  <2>2. Orderly(call', storage.token)
    BY <1>1, <1>2, <2>1, MountIsOrderly
  <2> QED
    BY <1>1, <2>1, <2>2
<1>4. ASSUME NEW p, Visit(t, p) \/ Back(t, p)
      PROVE  /\ Orderly(call', storage'.token)
             /\ user'[t].token = storage'.token \/ Due(call')
  <2>1. UNCHANGED <<storage, user>> /\ Mount(t, p, user[t], Unmounted(t))
    BY <1>4 DEF Visit, Back
  <2>2. user[t] \in Session
    BY <1>1
  <2>3. Calm(call) /\ Orderly(call', storage.token) /\ (Due(Unmounted(t)) => Due(call'))
    BY <1>2, <2>1, <2>2, MountIsOrderly
  <2> QED
    BY <1>2, <2>1, <2>3 DEF StoredInv
<1>5. ASSUME Logout(t)
      PROVE  /\ Orderly(call', storage'.token)
             /\ user'[t].token = storage'.token \/ Due(call')
  <2> DEFINE interrupted == [k \in DOMAIN call |->
                 [Unmounted(t)[k] EXCEPT !.disturbed = @ \/ call[k].stage \in Fetching]]
  <2>1. storage' = LoggedOut /\ user' = [user EXCEPT ![t] = LoggedOut]
        /\ Mount(t, "home", LoggedOut, interrupted)
    BY <1>5 DEF Logout
  <2>2. call' = interrupted
    BY <2>1 DEF Mount
  <2>3. ASSUME NEW k \in DOMAIN call PROVE interrupted[k].stage \notin Fetching
    <3>1. Unmounted(t)[k] \in CallRecord /\ Unmounted(t)[k].stage = call[k].stage
      BY <1>1, <1>2, DisturbanceLasts DEF Left
    <3>2. interrupted[k] =
            [Unmounted(t)[k] EXCEPT !.disturbed = @ \/ call[k].stage \in Fetching]
      OBVIOUS
    <3>3. ~interrupted[k].disturbed
      BY <2>2 DEF Calm
    <3> HIDE DEF interrupted
    <3> QED
      BY <3>1, <3>2, <3>3 DEF CallRecord
  <2>4. Orderly(call', storage'.token)
    BY <2>2, <2>3 DEF Orderly
  <2> QED
    BY <1>1, <2>1, <2>4
<1>6. ASSUME NEW q \in Request, q.target \in Kinds, Submit(t, q)
      PROVE  /\ Orderly(call', storage'.token)
             /\ user'[t].token = storage'.token \/ Due(call')
  <2>1. PICK k \in Calls : Start(call, k, t, q)
    BY <1>6 DEF Submit
  <2>2. Calm(call) /\ Orderly(call', storage.token) /\ (Due(call) => Due(call'))
    BY <1>1, <1>6, <2>1, StartIsOrderly
  <2>3. UNCHANGED <<storage, user>>
    BY <1>6 DEF Submit
  <2> QED
    BY <2>2, <2>3 DEF StoredInv
<1>7. SubmitCredentials(t) \/ SubmitMoney(t) =>
         \E q \in Request : q.target \in Kinds /\ Submit(t, q)
  BY <1>1, SubmittedRequests
<1> QED
  BY <1>3, <1>4, <1>5, <1>6, <1>7 DEF UserStep

LEMMA StoredUpdate ==
    ASSUME ClientInv, NEW t \in Tabs, Tabs = {t}, StoredInv(t),
           NEW k, Answered(k), call[k].kind \in TokenTargets, UpdateBalance(k)
    PROVE  StoredInv(t)'
<1> SUFFICES ASSUME Calm(call')
             PROVE  /\ Orderly(call', storage'.token)
                    /\ user'[t].token = storage'.token \/ Due(call')
  BY DEF StoredInv
<1> DEFINE fresh == [token |-> call[k].token,
                     username |-> Account(request[Fetch(k)]),
                     balance |-> response[Fetch(k)].balance]
           others == [call EXCEPT ![k].stage = "done"]
<1>1. /\ k \in DOMAIN call /\ call[k].tab = t /\ call[k].token \in Token
      /\ call[k].stage \in Fetching /\ CallsTyped(call)
  BY AnswerIsOwn DEF CallRecord, Answered, Waiting, ClientInv, Sound
<1>2. /\ user' = [user EXCEPT ![t] = fresh]
      /\ storage' = [storage EXCEPT !.balance = fresh.balance]
      /\ \/ \E i \in Calls : Start(others, i, t, ProfileRequest(call[k].token))
         \/ call' = others
  BY <1>1 DEF UpdateBalance
<1>3. storage'.token = storage.token /\ user'[t].token = call[k].token
  BY <1>1, <1>2 DEF ClientInv, TypeOK, Session
<1>4. /\ Calm(call) => Orderly(others, storage.token)
      /\ Calm(others) <=> Calm(call)
      /\ CallsTyped(others)
  <2>1. \A i \in DOMAIN call : call[i] \in CallRecord
    BY <1>1 DEF CallsTyped
  <2>2. Carried(others)
    BY <1>1, GotoCarries
  <2>3. CallsTyped(others)
    BY <1>1, <2>2 DEF Carried, CallsTyped
  <2>4. Calm(others) <=> Calm(call)
    <3> DEFINE gone == [call[k] EXCEPT !.stage = "done"]
    <3>1. others = [call EXCEPT ![k] = gone] /\ (gone.disturbed <=> call[k].disturbed)
      BY <1>1, <2>1 DEF CallRecord
    <3> HIDE DEF gone, others
    <3> QED
      BY <1>1, <3>1 DEF Calm
  <2> HIDE DEF others
  <2>5. Orderly(call, storage.token) => Orderly(others, storage.token)
    BY <2>2 DEF Orderly, Carried, Fetching
  <2> QED
    BY <2>3, <2>4, <2>5 DEF StoredInv
<1> HIDE DEF fresh, others
<1>5. Calm(others) /\ Orderly(call', storage.token)
  <2>1. CASE call' = others
    BY <1>4, <2>1
  <2>2. ASSUME NEW i \in Calls, Start(others, i, t, ProfileRequest(call[k].token))
        PROVE  Calm(others) /\ Orderly(call', storage.token)
    <3> DEFINE q == ProfileRequest(call[k].token)
    <3>1. q \in Request /\ q.target \in Kinds
      BY <1>1, ProfileRequestTyped DEF Kinds, TokenTargets
    <3>2. Start(others, i, t, q)
      BY <2>2
    <3> HIDE DEF q
    <3> QED
      BY <1>4, <3>1, <3>2, StartIsOrderly
  <2> QED
    BY <1>2, <2>1, <2>2
<1>6. call[k].token = storage.token
  BY <1>1, <1>4, <1>5 DEF StoredInv, Orderly
<1> QED
  BY <1>3, <1>5, <1>6

LEMMA StoredCall ==
    ASSUME ClientInv, NEW t \in Tabs, Tabs = {t}, StoredInv(t), NEW k \in Calls, CallStep(k)
    PROVE  StoredInv(t)'
<1>1. CallsTyped(call)
  BY DEF ClientInv, Sound
<1>2. ASSUME k \in DOMAIN call, Fail(k) PROVE StoredInv(t)'
  BY <1>1, <1>2, FailDisturbs DEF StoredInv
<1>3. ASSUME k \in DOMAIN call, call[k].stage \in Fetching,
             NEW stage \in {"refresh", "timer"}, Goto(k, stage), user' = user,
             storage' = storage \/ (stage = "timer" /\ call[k].kind = "login")
      PROVE  StoredInv(t)'
  <2> SUFFICES ASSUME Calm(call')
               PROVE  /\ Orderly(call', storage'.token)
                      /\ user'[t].token = storage'.token \/ Due(call')
    BY DEF StoredInv
  <2> DEFINE others == [call EXCEPT ![k].stage = stage]
  <2>1. call' = others
    BY <1>3 DEF Goto
  <2>2. Calm(call) /\ Orderly(call, storage.token)
    <3>1. call[k] \in CallRecord
      BY <1>1, <1>3 DEF CallsTyped
    <3> DEFINE gone == [call[k] EXCEPT !.stage = stage]
    <3>2. others = [call EXCEPT ![k] = gone] /\ (gone.disturbed <=> call[k].disturbed)
      BY <1>3, <3>1 DEF CallRecord
    <3> HIDE DEF gone, others
    <3>3. Calm(call)
      BY <1>3, <2>1, <3>2 DEF Calm
    <3> QED
      BY <3>3 DEF StoredInv
  <2> HIDE DEF others
  <2>3. /\ Orderly(others, storage.token)
        /\ Due(call) => Due(others)
        /\ stage # "refresh" => \A i \in DOMAIN others : others[i].stage \notin Fetching
        /\ DOMAIN others = DOMAIN call
        /\ others[k].kind = call[k].kind /\ others[k].stage = stage
    BY <1>1, <1>3, <2>2, GotoIsOrderly DEF others, MovedOn
  <2>4. CASE storage' = storage
    BY <1>3, <2>1, <2>2, <2>3, <2>4 DEF StoredInv
  <2>5. CASE stage = "timer" /\ call[k].kind = "login"
    <3>1. Due(others)
      BY <1>3, <2>3, <2>5 DEF Due
    <3>2. Orderly(others, storage'.token)
      BY <2>3, <2>5 DEF Orderly
    <3> QED
      BY <2>1, <3>1, <3>2
  <2> QED
    BY <1>3, <2>4, <2>5
<1>4. Answered(k) \/ Waiting(k) => k \in DOMAIN call /\ call[k].stage \in Fetching
  BY DEF Answered, Waiting
<1>5. ASSUME ProfileFetched(k) PROVE StoredInv(t)'
  <2>1. CASE Ok(k)
    BY <1>5, <2>1, StoredUpdate DEF ProfileFetched, TokenTargets
  <2>2. CASE ~Ok(k)
    BY <1>2, <1>4, <1>5, <2>2 DEF ProfileFetched
  <2> QED
    BY <2>1, <2>2
<1>6. ASSUME MoneyAnswered(k) PROVE StoredInv(t)'
  <2>1. CASE Ok(k)
    BY <1>3, <1>4, <1>6, <2>1 DEF MoneyAnswered
  <2>2. CASE ~Ok(k)
    BY <1>2, <1>4, <1>6, <2>2 DEF MoneyAnswered
  <2> QED
    BY <2>1, <2>2
<1>7. ASSUME Refreshed(k) PROVE StoredInv(t)'
  <2>1. CASE Ok(k)
    BY <1>7, <2>1, StoredUpdate DEF Refreshed, TokenTargets
  <2>2. CASE ~Ok(k)
    BY <1>2, <1>4, <1>7, <2>2 DEF Refreshed
  <2> QED
    BY <2>1, <2>2
<1>8. ASSUME LoginAnswered(k) \/ RegisterAnswered(k) PROVE StoredInv(t)'
  <2>1. CASE Ok(k)
    <3>1. Answered(k) /\ Goto(k, "timer") /\ user' = user
          /\ (storage' = storage \/ call[k].kind = "login")
      BY <1>8, <2>1 DEF LoginAnswered, RegisterAnswered
    <3> QED
      BY <1>3, <1>4, <3>1
  <2>2. CASE ~Ok(k)
    BY <1>2, <1>4, <1>8, <2>2 DEF LoginAnswered, RegisterAnswered
  <2> QED
    BY <2>1, <2>2
<1>9. ASSUME NetworkError(k) PROVE StoredInv(t)'
  BY <1>2, <1>4, <1>9 DEF NetworkError
<1>10. ASSUME TimerFires(k) PROVE StoredInv(t)'
  <2>1. call[k].tab = t /\ Load(call[k].tab, "home")
    BY <1>1, <1>10 DEF TimerFires, CallsTyped, CallRecord
  <2> QED
    BY <2>1, StoredUser DEF UserStep
<1> QED
  BY <1>5, <1>6, <1>7, <1>8, <1>9, <1>10 DEF CallStep

LEMMA StoredNext ==
    ASSUME ClientInv, NEW t \in Tabs, Tabs = {t}, StoredInv(t), [Next]_vars
    PROVE  StoredInv(t)'
<1>1. CASE ServerStep \/ UNCHANGED vars
  BY <1>1 DEF ServerStep, vars, StoredInv, Calm, Orderly, Due
<1> QED
  BY <1>1, StoredUser, StoredCall DEF Next

-------------------------------------------------------------------------------
(***************************************************************************)
(* The balances of an only tab.  As long as no call is disturbed, a        *)
(* session is out of date only while the call that will refresh it waits.  *)
(***************************************************************************)

\* A fetch without an answer is one that somebody waits for.
Accounted(calls) ==
    \A k \in Calls, stage \in Fetching :
        request[<<k, stage>>] # NoRequest /\ response[<<k, stage>>] = NoResponse
            => k \in DOMAIN calls /\ calls[k].stage = stage

\* A session or profile that has been answered, and not yet been looked at, is
\* still what the server would answer.
Timely(calls) ==
    \A k \in DOMAIN calls :
        LET f == <<k, calls[k].stage>>
        IN  /\ calls[k].stage \in Fetching
            /\ response[f].status = 200
            /\ request[f].target \in {"login", "profile"}
            => /\ Account(request[f]) \in DOMAIN accounts
               /\ response[f].balance = accounts[Account(request[f])].balance

\* A deposit or withdrawal has taken effect, and its refresh is to come.
RefreshDue(calls) ==
    \E k \in DOMAIN calls :
        \/ calls[k].stage = "refresh"
        \/ /\ calls[k].stage = "request" /\ calls[k].kind \in MoneyTargets
           /\ <<k, "request">> \in committed

Current(s, calls) ==
    s.token # NoToken =>
        /\ s.username \in DOMAIN accounts
        /\ s.balance = accounts[s.username].balance \/ RefreshDue(calls)

BalanceInv(t) ==
    Calm(call) =>
        /\ Accounted(call)
        /\ Timely(call)
        /\ Current(storage, call)
        /\ Current(user[t], call)

LEMMA StartIsCurrent ==
    ASSUME ClientInv, NEW others, DOMAIN others = DOMAIN call, CallsTyped(others),
           NEW k, NEW t \in Tabs, NEW q \in Request, q.target \in Kinds,
           Start(others, k, t, q), UNCHANGED <<accounts, response, committed>>,
           Accounted(others), Timely(others)
    PROVE  /\ Accounted(call)' /\ Timely(call)'
           /\ RefreshDue(others) => RefreshDue(call)'
<1>1. Started(others, k, t, q)
  BY StartFacts
<1>2. <<k, "request">> \in Fetches /\ response[<<k, "request">>] = NoResponse
  BY <1>1 DEF Started, ClientInv, Sound, FreshInv, ServerInv, Fetches, Fetching
<1>3. \A f \in Fetches : f # <<k, "request">> => request'[f] = request[f]
  BY <1>1, <1>2 DEF Started, ClientInv, ServerInv
<1>4. Accounted(call)'
  <2> SUFFICES ASSUME NEW i \in Calls, NEW stage \in Fetching,
                      request'[<<i, stage>>] # NoRequest, response[<<i, stage>>] = NoResponse
               PROVE  i \in DOMAIN call' /\ call'[i].stage = stage
    BY DEF Accounted
  <2>1. CASE i = k /\ stage = "request"
    BY <1>1, <2>1 DEF Started
  <2>2. CASE ~(i = k /\ stage = "request")
    <3>1. request'[<<i, stage>>] = request[<<i, stage>>]
      BY <1>3, <2>2 DEF Fetches
    <3>2. i \in DOMAIN others /\ others[i].stage = stage
      BY <3>1 DEF Accounted
    <3> QED
      BY <1>1, <3>2 DEF Started
  <2> QED
    BY <2>1, <2>2
<1>5. Timely(call)'
  <2> SUFFICES ASSUME NEW i \in DOMAIN call', call'[i].stage \in Fetching,
                      response[<<i, call'[i].stage>>].status = 200,
                      request'[<<i, call'[i].stage>>].target \in {"login", "profile"}
               PROVE  LET f == <<i, call'[i].stage>>
                      IN  /\ Account(request'[f]) \in DOMAIN accounts
                          /\ response[f].balance = accounts[Account(request'[f])].balance
    BY DEF Timely
  <2>1. i # k
    BY <1>1, <1>2, NothingTyped DEF Started
  <2>2. i \in DOMAIN others /\ i \in Calls /\ call'[i].stage = others[i].stage
    BY <1>1, <2>1 DEF Started, CallsTyped
  <2>3. request'[<<i, others[i].stage>>] = request[<<i, others[i].stage>>]
    BY <1>3, <2>1, <2>2 DEF Fetches
  <2> QED
    BY <2>2, <2>3 DEF Timely
<1>6. RefreshDue(others) => RefreshDue(call)'
  BY <1>1 DEF Started, RefreshDue
<1> QED
  BY <1>4, <1>5, <1>6

LEMMA MountIsCurrent ==
    ASSUME ClientInv, NEW t \in Tabs, Tabs = {t}, StoredInv(t), BalanceInv(t),
           NEW others, Left(t, others),
           \A k \in DOMAIN call : call[k].disturbed => others[k].disturbed,
           Calm(others) => \A k \in DOMAIN call :
              call[k].stage \in Fetching => others[k].stage = call[k].stage,
           NEW p, NEW s \in Session, Mount(t, p, s, others), Calm(call')
    PROVE  /\ Calm(call)
           /\ Accounted(call)' /\ Timely(call)'
           /\ RefreshDue(call) => RefreshDue(call)'
           /\ UNCHANGED <<accounts, committed>>
<1>1. Calm(others) /\ Calm(call)
  BY MountIsOrderly
<1>2. CallsTyped(others) /\ DOMAIN others = DOMAIN call
  BY DEF Left, CallsTyped, ClientInv, Sound
<1>3. \A k \in DOMAIN call : /\ others[k].stage \in Fetching <=> call[k].stage \in Fetching
                             /\ call[k].stage \in Fetching => others[k].stage = call[k].stage
                             /\ others[k].kind = call[k].kind
  BY <1>1 DEF Left, Fetching
<1>4. Accounted(others) /\ Timely(others) /\ (RefreshDue(call) => RefreshDue(others))
  <2>1. Accounted(others)
    BY <1>1, <1>2, <1>3 DEF BalanceInv, Accounted
  <2>2. Timely(others)
    BY <1>1, <1>2, <1>3 DEF BalanceInv, Timely
  <2>3. RefreshDue(call) => RefreshDue(others)
    BY <1>2, <1>3 DEF RefreshDue, Fetching
  <2> QED
    BY <2>1, <2>2, <2>3
<1>5. UNCHANGED <<accounts, response, committed>>
  BY DEF Mount
<1>6. CASE call' = others /\ UNCHANGED request
  BY <1>1, <1>4, <1>5, <1>6 DEF Accounted, Timely, RefreshDue
<1>7. ASSUME NEW k \in Calls, Start(others, k, t, ProfileRequest(s.token))
      PROVE  /\ Calm(call)
             /\ Accounted(call)' /\ Timely(call)'
             /\ RefreshDue(call) => RefreshDue(call)'
             /\ UNCHANGED <<accounts, committed>>
  <2> DEFINE q == ProfileRequest(s.token)
  <2>1. q \in Request /\ q.target \in Kinds
    BY ProfileRequestTyped DEF Session, Kinds, TokenTargets
  <2>2. Start(others, k, t, q)
    BY <1>7
  <2> HIDE DEF q
  <2> QED
    BY <1>1, <1>2, <1>4, <1>5, <2>1, <2>2, StartIsCurrent
<1> QED
  BY <1>6, <1>7 DEF Mount

LEMMA BalanceUser ==
    ASSUME ClientInv, NEW t \in Tabs, Tabs = {t}, StoredInv(t), BalanceInv(t), UserStep(t)
    PROVE  BalanceInv(t)'
<1> SUFFICES ASSUME Calm(call')
             PROVE  /\ Accounted(call)' /\ Timely(call)'
                    /\ Current(storage, call)' /\ Current(user[t], call)'
  BY DEF BalanceInv
<1>1. /\ storage \in Session /\ user \in [Tabs -> Session] /\ CallsTyped(call) /\ TypeOK
      /\ LoggedOut \in Session /\ LoggedOut.token = NoToken
  BY NothingTyped DEF ClientInv, TypeOK, CallsTyped, LoggedOut
<1>2. /\ Left(t, Unmounted(t)) /\ Left(t, Discarded(t))
      /\ \A k \in DOMAIN call : call[k].tab = t
      /\ \A k \in DOMAIN call :
            /\ call[k].disturbed => Unmounted(t)[k].disturbed /\ Discarded(t)[k].disturbed
            /\ Unmounted(t)[k].stage = call[k].stage
            /\ call[k].stage \in Fetching => Discarded(t)[k].disturbed
  <2>1. \A k \in DOMAIN call : call[k].tab = t
    BY <1>1 DEF CallsTyped, CallRecord
  <2> QED
    BY <1>1, <2>1, LeavingIsLeft, DisturbanceLasts
<1>3. ASSUME NEW p, Load(t, p)
      PROVE  /\ Accounted(call)' /\ Timely(call)'
             /\ Current(storage, call)' /\ Current(user[t], call)'
  <2>1. storage' = storage /\ user' = [user EXCEPT ![t] = storage]
        /\ Mount(t, p, storage, Discarded(t))
    BY <1>3 DEF Load
  <2>2. Calm(Discarded(t)) => \A k \in DOMAIN call : call[k].stage \notin Fetching
    BY <1>2 DEF Calm, Left
  <2>3. /\ Calm(call)
        /\ Accounted(call)' /\ Timely(call)'
        /\ RefreshDue(call) => RefreshDue(call)'
        /\ UNCHANGED <<accounts, committed>>
    BY <1>1, <1>2, <2>1, <2>2, MountIsCurrent
  <2>4. Current(storage, call)'
    BY <2>1, <2>3 DEF BalanceInv, Current
  <2>5. user'[t] = storage'
    BY <1>1, <2>1
  <2> QED
    BY <2>3, <2>4, <2>5 DEF Current
<1>4. ASSUME NEW p, Visit(t, p) \/ Back(t, p)
      PROVE  /\ Accounted(call)' /\ Timely(call)'
             /\ Current(storage, call)' /\ Current(user[t], call)'
  <2>1. UNCHANGED <<storage, user>> /\ Mount(t, p, user[t], Unmounted(t))
    BY <1>4 DEF Visit, Back
  <2>2. user[t] \in Session
    BY <1>1
  <2>3. /\ Calm(call)
        /\ Accounted(call)' /\ Timely(call)'
        /\ RefreshDue(call) => RefreshDue(call)'
        /\ UNCHANGED <<accounts, committed>>
    BY <1>2, <2>1, <2>2, MountIsCurrent
  <2> QED
    BY <2>1, <2>3 DEF BalanceInv, Current
<1>5. ASSUME Logout(t)
      PROVE  /\ Accounted(call)' /\ Timely(call)'
             /\ Current(storage, call)' /\ Current(user[t], call)'
  <2> DEFINE interrupted == [k \in DOMAIN call |->
                 [Unmounted(t)[k] EXCEPT !.disturbed = @ \/ call[k].stage \in Fetching]]
  <2>1. storage' = LoggedOut /\ user' = [user EXCEPT ![t] = LoggedOut]
        /\ Mount(t, "home", LoggedOut, interrupted)
    BY <1>5 DEF Logout
  <2>2. ASSUME NEW k \in DOMAIN call
        PROVE  /\ interrupted[k].stage = call[k].stage
               /\ call[k].disturbed => interrupted[k].disturbed
    <3>1. Unmounted(t)[k] \in CallRecord
      BY <1>2 DEF Left
    <3>2. interrupted[k] =
            [Unmounted(t)[k] EXCEPT !.disturbed = @ \/ call[k].stage \in Fetching]
      OBVIOUS
    <3> HIDE DEF interrupted
    <3> QED
      BY <1>2, <3>1, <3>2 DEF CallRecord
  <2>3. Left(t, interrupted)
    BY <1>1, LeavingIsLeft
  <2> HIDE DEF interrupted
  <2>4. Accounted(call)' /\ Timely(call)'
    BY <1>1, <2>1, <2>2, <2>3, MountIsCurrent
  <2>5. storage'.token = NoToken /\ user'[t].token = NoToken
    BY <1>1, <2>1
  <2> QED
    BY <2>4, <2>5 DEF Current
<1>6. ASSUME NEW q \in Request, q.target \in Kinds, Submit(t, q)
      PROVE  /\ Accounted(call)' /\ Timely(call)'
             /\ Current(storage, call)' /\ Current(user[t], call)'
  <2>1. PICK k \in Calls : Start(call, k, t, q)
    BY <1>6 DEF Submit
  <2>2. Calm(call)
    BY <1>1, <1>6, <2>1, StartIsOrderly
  <2>3. UNCHANGED <<accounts, response, committed, storage, user>>
    BY <1>6 DEF Submit
  <2>4. Accounted(call)' /\ Timely(call)' /\ (RefreshDue(call) => RefreshDue(call)')
    BY <1>1, <1>6, <2>1, <2>2, <2>3, StartIsCurrent DEF BalanceInv
  <2> QED
    BY <2>2, <2>3, <2>4 DEF BalanceInv, Current
<1>7. SubmitCredentials(t) \/ SubmitMoney(t) =>
         \E q \in Request : q.target \in Kinds /\ Submit(t, q)
  BY <1>1, SubmittedRequests
<1> QED
  BY <1>3, <1>4, <1>5, <1>6, <1>7 DEF UserStep

\* The server shows the balance of the moment, and moves it only for a call that
\* is waiting.
LEMMA BalanceServer ==
    ASSUME ClientInv, NEW t \in Tabs, Tabs = {t}, StoredInv(t), BalanceInv(t), ServerStep
    PROVE  BalanceInv(t)'
<1>1. UNCHANGED <<storage, user, call>> /\ request' = request /\ committed \subseteq committed'
  BY ServerKeeps DEF ServerStep, ClientInv
<1> SUFFICES ASSUME Calm(call)
             PROVE  /\ Accounted(call)' /\ Timely(call)'
                    /\ Current(storage, call)' /\ Current(user[t], call)'
  BY <1>1 DEF BalanceInv
<1>2. /\ Accounted(call) /\ Timely(call) /\ Current(storage, call) /\ Current(user[t], call)
      /\ Orderly(call, storage.token)
  BY DEF BalanceInv, StoredInv
<1>3. PICK f \in Fetches : Server!Effect(f) \/ Server!Show(f) \/ Server!Refuse(f)
  BY DEF ServerStep, Fetches
<1>4. PICK r : /\ response' = [response EXCEPT ![f] = r] /\ response[f] = NoResponse
               /\ request[f] # NoRequest
  <2>1. PICK r : Server!Reply(f, r)
    BY <1>3, ServerAnswers
  <2> QED
    BY <2>1, RepliesOnce
<1> USE DEF Server!Reply, Server!make_response
<1>5. PICK k \in Calls, stage \in Fetching :
         f = <<k, stage>> /\ k \in DOMAIN call /\ call[k].stage = stage
  BY <1>2, <1>4 DEF Accounted, Fetches
<1>6. \A i \in DOMAIN call : call[i].stage \in Fetching => i = k
  BY <1>2, <1>5 DEF Orderly
<1>7. Accounted(call)'
  <2> SUFFICES ASSUME NEW i \in Calls, NEW s \in Fetching,
                      request[<<i, s>>] # NoRequest, response'[<<i, s>>] = NoResponse
               PROVE  i \in DOMAIN call /\ call[i].stage = s
    BY <1>1 DEF Accounted
  <2>1. CASE <<i, s>> = f
    BY <1>5, <2>1
  <2>2. CASE <<i, s>> # f
    <3>1. response'[<<i, s>>] = response[<<i, s>>]
      BY <1>4, <2>2 DEF ClientInv, ServerInv, Fetches
    <3> QED
      BY <1>2, <3>1 DEF Accounted
  <2> QED
    BY <2>1, <2>2
<1>8. RefreshDue(call) => RefreshDue(call)'
  BY <1>1 DEF RefreshDue
<1>9. CallInv(call, page) /\ ServerInv
  BY DEF ClientInv, Sound
<1>10. CASE Server!Effect(f)
  <2>1. committed' = committed \cup {f}
    BY <1>10 DEF Server!Effect
  <2>2. CASE Server!Register(f)
    <3>1. /\ DOMAIN accounts \subseteq DOMAIN accounts'
          /\ \A u \in DOMAIN accounts : accounts'[u] = accounts[u]
          /\ request[f].target = "register"
      BY <2>2 DEF Server!Register, Server!Registered
    <3>2. Timely(call)'
      BY <1>1, <1>5, <1>6, <3>1 DEF Timely
    <3>3. Current(storage, call)' /\ Current(user[t], call)'
      BY <1>1, <1>2, <1>8, <3>1 DEF Current
    <3> QED
      BY <1>7, <3>2, <3>3
  <2>3. CASE Server!MoveMoney(f)
    <3>1. DOMAIN accounts' = DOMAIN accounts /\ request[f].target \in MoneyTargets
      BY <2>3 DEF Server!MoveMoney, Server!MoneyTargets, MoneyTargets
    <3>2. stage = "request" /\ call[k].kind \in MoneyTargets
      <4>1. stage # "refresh"
        <5> SUFFICES ASSUME stage = "refresh" PROVE FALSE
          OBVIOUS
        <5>1. request[<<k, "refresh">>] = ProfileRequest(call[k].token)
          BY <1>5, <1>9 DEF CallInv
        <5>2. request[f].target = "profile"
          BY <1>5, <5>1 DEF ProfileRequest
        <5> QED
          BY <3>1, <5>2 DEF MoneyTargets
      <4>2. stage = "request"
        BY <4>1 DEF Fetching
      <4>3. request[f].target = call[k].kind
        BY <1>5, <1>9, <4>2 DEF CallInv
      <4> QED
        BY <3>1, <4>2, <4>3
    <3>3. RefreshDue(call)'
      BY <1>1, <1>5, <2>1, <3>2 DEF RefreshDue
    <3>4. Timely(call)'
      BY <1>1, <1>5, <1>6, <3>1 DEF Timely, MoneyTargets
    <3>5. Current(storage, call)' /\ Current(user[t], call)'
      BY <1>1, <1>2, <3>1, <3>3 DEF Current
    <3> QED
      BY <1>7, <3>4, <3>5
  <2> QED
    BY <1>10, <2>2, <2>3 DEF Server!Effect
<1>11. CASE Server!Show(f)
  <2>1. accounts' = accounts
    BY <1>11 DEF Server!Show
  <2>2. /\ Account(request[f]) \in DOMAIN accounts
        /\ response'[f].balance = accounts[Account(request[f])].balance
    <3>1. Server!Account(request[f]) = Account(request[f])
      BY DEF Server!Account, Account, Server!TokenTargets, TokenTargets, Server!MoneyTargets,
             MoneyTargets
    <3>2. Account(request[f]) \in DOMAIN accounts
      BY <1>11, <3>1 DEF Server!Show, Server!Registered
    <3>3. PICK answer :
             /\ response' = [response EXCEPT ![f] = answer]
             /\ answer.balance = accounts[Account(request[f])].balance
      BY <1>11, <3>1 DEF Server!Show
    <3>4. response'[f] = answer
      BY <1>9, <3>3 DEF ServerInv
    <3> QED
      BY <3>2, <3>3, <3>4
  <2>3. Timely(call)'
    BY <1>1, <1>5, <1>6, <2>1, <2>2 DEF Timely
  <2>4. Current(storage, call)' /\ Current(user[t], call)'
    BY <1>1, <1>2, <1>8, <2>1 DEF Current
  <2> QED
    BY <1>7, <2>3, <2>4
<1>12. CASE Server!Refuse(f)
  <2>1. accounts' = accounts
    BY <1>12 DEF Server!Refuse
  <2>2. response'[f].status # 200
    <3>1. PICK status \in Server!Statuses :
             /\ Server!Justified(request[f], status)
             /\ response' = [response EXCEPT ![f] = make_response(status)]
      BY <1>12 DEF Server!Refuse, Server!NoToken, make_response, NoToken
    <3>2. status # 200
      BY <3>1 DEF Server!Justified
    <3>3. response'[f] = make_response(status)
      BY <1>9, <3>1 DEF ServerInv
    <3> QED
      BY <3>2, <3>3 DEF make_response
  <2>3. Timely(call)'
    BY <1>1, <1>5, <1>6, <2>2 DEF Timely
  <2>4. Current(storage, call)' /\ Current(user[t], call)'
    BY <1>1, <1>2, <1>8, <2>1 DEF Current
  <2> QED
    BY <1>7, <2>3, <2>4
<1> QED
  BY <1>3, <1>10, <1>11, <1>12

\* The only waiting call gets its answer, and sends at most one more request.
LEMMA GotoIsCurrent ==
    ASSUME ClientInv, NEW t \in Tabs, Tabs = {t}, StoredInv(t), BalanceInv(t), Calm(call),
           NEW k, Answered(k),
           NEW stage \in {"refresh", "timer", "done"},
           NEW others, MovedOn(others, k, stage),
           UNCHANGED <<accounts, response, committed>>,
           \/ stage # "refresh"
           \/ /\ stage = "refresh" /\ call[k].stage = "request"
              /\ request' = [request EXCEPT ![<<k, "refresh">>] = ProfileRequest(call[k].token)]
    PROVE  /\ stage # "refresh" => Accounted(others) /\ Timely(others)
           /\ stage = "refresh" => RefreshDue(others)
           /\ call' = others /\ (stage = "refresh" \/ request' = request)
                 => Accounted(call)' /\ Timely(call)'
           /\ call[k].stage = "request" /\ call[k].kind \notin MoneyTargets => ~RefreshDue(call)
<1>1. /\ k \in DOMAIN call /\ k \in Calls /\ call[k].stage \in Fetching /\ CallsTyped(call)
      /\ response[<<k, call[k].stage>>] # NoResponse
      /\ Accounted(call) /\ Timely(call) /\ Orderly(call, storage.token)
      /\ FreshInv(call) /\ ServerInv
  BY DEF Answered, Waiting, Fetch, ClientInv, Sound, CallsTyped, BalanceInv, StoredInv
<1>2. /\ Orderly(others, storage.token)
      /\ DOMAIN others = DOMAIN call
      /\ others[k].stage = stage
      /\ \A i \in DOMAIN call \ {k} : others[i] = call[i]
      /\ stage # "refresh" => \A i \in DOMAIN others : others[i].stage \notin Fetching
  <2>1. /\ Orderly(others, storage.token)
        /\ DOMAIN others = DOMAIN call
        /\ others[k].stage = stage
    BY <1>1, GotoIsOrderly
  <2>2. stage # "refresh" => \A i \in DOMAIN others : others[i].stage \notin Fetching
    BY <1>1, GotoIsOrderly
  <2>3. \A i \in DOMAIN call \ {k} : others[i] = call[i]
    BY DEF MovedOn
  <2> QED
    BY <2>1, <2>2, <2>3
<1>3. \A i \in DOMAIN call : call[i].stage \in Fetching => i = k
  BY <1>1 DEF Orderly
<1>4. \A i \in DOMAIN others : others[i].stage \in Fetching => i = k
  BY <1>2, <1>3
<1>5. \A i \in Calls, s \in Fetching :
         request[<<i, s>>] # NoRequest => response[<<i, s>>] # NoResponse
  BY <1>1, <1>3 DEF Accounted
<1>6. stage # "refresh" => Accounted(others) /\ Timely(others)
  BY <1>2, <1>5 DEF Accounted, Timely
<1>7. stage = "refresh" => RefreshDue(others)
  BY <1>1, <1>2 DEF RefreshDue
<1>8. ASSUME call' = others, stage = "refresh" \/ request' = request
      PROVE  Accounted(call)' /\ Timely(call)'
  <2>1. CASE stage # "refresh"
    BY <1>6, <1>8, <2>1 DEF Accounted, Timely
  <2>2. CASE /\ stage = "refresh" /\ call[k].stage = "request"
             /\ request' = [request EXCEPT ![<<k, "refresh">>] = ProfileRequest(call[k].token)]
    <3>1. <<k, "refresh">> \in Fetches /\ response[<<k, "refresh">>] = NoResponse
      BY <1>1, <2>2 DEF FreshInv, ServerInv, Fetches, Fetching
    <3>2. \A f \in Fetches : f # <<k, "refresh">> => request'[f] = request[f]
      BY <1>1, <2>2 DEF ServerInv
    <3>3. Accounted(call)'
      BY <1>1, <1>2, <1>5, <1>8, <2>2, <3>2 DEF Accounted, Fetches
    <3>4. Timely(call)'
      BY <1>2, <1>4, <1>8, <2>2, <3>1, NothingTyped DEF Timely
    <3> QED
      BY <3>3, <3>4
  <2> QED
    BY <2>1, <2>2
<1>9. call[k].stage = "request" /\ call[k].kind \notin MoneyTargets => ~RefreshDue(call)
  BY <1>1, <1>3 DEF RefreshDue, Fetching
<1> QED
  BY <1>6, <1>7, <1>8, <1>9

\* What GotoIsCurrent assumes of calm is what StoredCall has shown of the step.
LEMMA GotoWasCalm ==
    ASSUME CallsTyped(call), NEW k \in DOMAIN call, NEW stage, NEW others,
           MovedOn(others, k, stage), Calm(others)
    PROVE  Calm(call)
<1> DEFINE gone == [call[k] EXCEPT !.stage = stage]
<1>1. call[k] \in CallRecord /\ others = [call EXCEPT ![k] = gone]
  BY DEF CallsTyped, MovedOn
<1>2. gone.disturbed <=> call[k].disturbed
  BY <1>1 DEF CallRecord
<1> HIDE DEF gone
<1> QED
  BY <1>1, <1>2 DEF Calm

LEMMA BalanceUpdate ==
    ASSUME ClientInv, NEW t \in Tabs, Tabs = {t}, StoredInv(t), BalanceInv(t),
           NEW k, Answered(k), Ok(k), call[k].kind \in TokenTargets,
           request[Fetch(k)].target = "profile", UpdateBalance(k),
           UNCHANGED <<accounts, response, committed>>
    PROVE  BalanceInv(t)'
<1> SUFFICES ASSUME Calm(call')
             PROVE  /\ Accounted(call)' /\ Timely(call)'
                    /\ Current(storage, call)' /\ Current(user[t], call)'
  BY DEF BalanceInv
<1> DEFINE fresh == [token |-> call[k].token,
                     username |-> Account(request[Fetch(k)]),
                     balance |-> response[Fetch(k)].balance]
           others == [call EXCEPT ![k].stage = "done"]
<1>1. /\ k \in DOMAIN call /\ call[k].tab = t /\ call[k].token \in Token
      /\ call[k].stage \in Fetching /\ CallsTyped(call)
      /\ Account(request[Fetch(k)]) = call[k].token.username
  BY AnswerIsOwn DEF CallRecord, Answered, Waiting, ClientInv, Sound
<1>2. /\ user' = [user EXCEPT ![t] = fresh]
      /\ storage' = [storage EXCEPT !.balance = fresh.balance]
      /\ \/ \E i \in Calls : Start(others, i, t, ProfileRequest(call[k].token))
         \/ call' = others /\ UNCHANGED request
  BY <1>1 DEF UpdateBalance
<1>3. /\ storage'.token = storage.token /\ storage'.username = storage.username
      /\ storage'.balance = response[Fetch(k)].balance
      /\ user'[t] = fresh
  BY <1>1, <1>2 DEF ClientInv, TypeOK, Session
<1>4. MovedOn(others, k, "done")
  BY DEF MovedOn
<1>5. Carried(others) /\ CallsTyped(others) /\ DOMAIN others = DOMAIN call
  BY <1>1, GotoCarries DEF Carried, CallsTyped
<1> HIDE DEF others
<1>6. Calm(others)
  <2>1. ASSUME NEW i \in Calls, Start(others, i, t, ProfileRequest(call[k].token))
        PROVE  Calm(others)
    <3> DEFINE q == ProfileRequest(call[k].token)
    <3>1. q \in Request /\ q.target \in Kinds
      BY <1>1, ProfileRequestTyped DEF Kinds, TokenTargets
    <3>2. Start(others, i, t, q)
      BY <2>1
    <3> HIDE DEF q
    <3> QED
      BY <1>5, <3>1, <3>2, StartIsOrderly
  <2> QED
    BY <1>2, <2>1
<1>7. Calm(call)
  BY <1>1, <1>4, <1>6, GotoWasCalm
<1>8. Accounted(others) /\ Timely(others)
  BY <1>4, <1>7, GotoIsCurrent
<1>9. Accounted(call)' /\ Timely(call)'
  <2>1. CASE call' = others /\ UNCHANGED request
    BY <1>8, <2>1 DEF Accounted, Timely
  <2>2. ASSUME NEW i \in Calls, Start(others, i, t, ProfileRequest(call[k].token))
        PROVE  Accounted(call)' /\ Timely(call)'
    <3> DEFINE q == ProfileRequest(call[k].token)
    <3>1. q \in Request /\ q.target \in Kinds
      BY <1>1, ProfileRequestTyped DEF Kinds, TokenTargets
    <3>2. Start(others, i, t, q)
      BY <2>2
    <3> HIDE DEF q
    <3> QED
      BY <1>5, <1>8, <3>1, <3>2, StartIsCurrent
  <2> QED
    BY <1>2, <2>1, <2>2
<1>10. /\ Account(request[Fetch(k)]) \in DOMAIN accounts
       /\ response[Fetch(k)].balance = accounts[Account(request[Fetch(k)])].balance
  BY <1>1, <1>7 DEF BalanceInv, Timely, Fetch, Ok
<1>11. Current(user[t], call)'
  BY <1>3, <1>10 DEF Current
<1>12. call[k].token = storage.token
  BY <1>1, <1>7 DEF StoredInv, Orderly
<1>13. storage.username = Account(request[Fetch(k)])
  BY <1>1, <1>12 DEF ClientInv, SessionsCoherent
<1>14. Current(storage, call)'
  BY <1>3, <1>10, <1>13 DEF Current
<1> QED
  BY <1>9, <1>11, <1>14

LEMMA BalanceCall ==
    ASSUME ClientInv, NEW t \in Tabs, Tabs = {t}, StoredInv(t), BalanceInv(t),
           NEW k \in Calls, CallStep(k)
    PROVE  BalanceInv(t)'
<1>1. CallsTyped(call) /\ CallInv(call, page) /\ ServerInv
  BY DEF ClientInv, Sound
<1>2. ASSUME k \in DOMAIN call, Fail(k) PROVE BalanceInv(t)'
  BY <1>1, <1>2, FailDisturbs DEF BalanceInv
<1>3. Answered(k) \/ Waiting(k) => k \in DOMAIN call /\ call[k].stage \in Fetching
  BY DEF Answered, Waiting
<1>4. ASSUME ProfileFetched(k) PROVE BalanceInv(t)'
  <2>1. Answered(k) /\ call[k].kind = "profile" /\ UNCHANGED <<accounts, response, committed>>
    BY <1>4 DEF ProfileFetched
  <2>2. CASE Ok(k)
    <3>1. call[k].stage = "request"
      BY <1>1, <1>3, <2>1 DEF Fetching, CallInv, MoneyTargets
    <3>2. request[Fetch(k)].target = "profile"
      BY <1>1, <1>3, <2>1, <3>1 DEF CallInv, Fetch
    <3>3. UpdateBalance(k)
      BY <1>4, <2>2 DEF ProfileFetched
    <3> QED
      BY <2>1, <2>2, <3>2, <3>3, BalanceUpdate DEF TokenTargets
  <2>3. CASE ~Ok(k)
    BY <1>2, <1>3, <1>4, <2>3 DEF ProfileFetched
  <2> QED
    BY <2>2, <2>3
<1>5. ASSUME MoneyAnswered(k) PROVE BalanceInv(t)'
  <2>1. CASE Ok(k)
    <3> SUFFICES ASSUME Calm(call')
                 PROVE  /\ Accounted(call)' /\ Timely(call)'
                        /\ Current(storage, call)' /\ Current(user[t], call)'
      BY DEF BalanceInv
    <3>1. /\ Answered(k) /\ call[k].stage = "request"
          /\ UNCHANGED <<accounts, response, committed, storage, user>>
          /\ MovedOn(call', k, "refresh")
          /\ request' = [request EXCEPT ![<<k, "refresh">>] = ProfileRequest(call[k].token)]
      BY <1>5, <2>1 DEF MoneyAnswered, Goto, MovedOn
    <3>2. Calm(call)
      BY <1>1, <1>3, <3>1, GotoWasCalm
    <3>3. Accounted(call)' /\ Timely(call)'
      BY <3>1, <3>2, GotoIsCurrent
    <3>4. RefreshDue(call')
      BY <3>1, <3>2, GotoIsCurrent
    <3>5. RefreshDue(call)'
      BY <3>1, <3>4 DEF RefreshDue
    <3> QED
      BY <3>1, <3>2, <3>3, <3>5 DEF BalanceInv, Current
  <2>2. CASE ~Ok(k)
    BY <1>2, <1>3, <1>5, <2>2 DEF MoneyAnswered
  <2> QED
    BY <2>1, <2>2
<1>6. ASSUME Refreshed(k) PROVE BalanceInv(t)'
  <2>1. Answered(k) /\ call[k].kind \in MoneyTargets /\ call[k].stage = "refresh"
        /\ UNCHANGED <<accounts, response, committed>>
    BY <1>6 DEF Refreshed
  <2>2. CASE Ok(k)
    <3>1. request[Fetch(k)] = ProfileRequest(call[k].token)
      BY <1>1, <1>3, <2>1 DEF CallInv, Fetch
    <3>2. request[Fetch(k)].target = "profile"
      BY <3>1 DEF ProfileRequest
    <3>3. UpdateBalance(k)
      BY <1>6, <2>2 DEF Refreshed
    <3> QED
      BY <2>1, <2>2, <3>2, <3>3, BalanceUpdate DEF TokenTargets
  <2>3. CASE ~Ok(k)
    BY <1>2, <1>3, <1>6, <2>3 DEF Refreshed
  <2> QED
    BY <2>2, <2>3
<1>7. ASSUME LoginAnswered(k) \/ RegisterAnswered(k) PROVE BalanceInv(t)'
  <2>1. CASE Ok(k)
    <3> SUFFICES ASSUME Calm(call')
                 PROVE  /\ Accounted(call)' /\ Timely(call)'
                        /\ Current(storage, call)' /\ Current(user[t], call)'
      BY DEF BalanceInv
    <3>1. /\ Answered(k) /\ call[k].kind \in CredentialTargets
          /\ UNCHANGED <<accounts, request, response, committed, user>>
          /\ MovedOn(call', k, "timer")
      BY <1>7, <2>1
      DEF LoginAnswered, RegisterAnswered, Goto, MovedOn, server, CredentialTargets
    <3>2. Calm(call)
      BY <1>1, <1>3, <3>1, GotoWasCalm
    <3>3. call[k].kind \notin MoneyTargets /\ call[k].stage = "request"
      BY <1>1, <1>3, <3>1 DEF CallInv, CredentialTargets, MoneyTargets, Fetching
    <3>4. Accounted(call)' /\ Timely(call)'
      BY <3>1, <3>2, GotoIsCurrent
    <3>5. ~RefreshDue(call)
      BY <3>1, <3>2, <3>3, GotoIsCurrent
    <3>6. Current(user[t], call)'
      BY <3>1, <3>2, <3>5 DEF BalanceInv, Current
    <3>7. Current(storage, call)'
      <4>1. CASE storage' = storage
        BY <3>1, <3>2, <3>5, <4>1 DEF BalanceInv, Current
      <4>2. CASE LoginAnswered(k)
        <5>1. storage' = [token |-> response[Fetch(k)].token,
                          username |-> Account(request[Fetch(k)]),
                          balance |-> response[Fetch(k)].balance]
              /\ call[k].kind = "login"
          BY <2>1, <4>2 DEF LoginAnswered
        <5>2. request[Fetch(k)].target = "login"
          BY <1>1, <1>3, <3>1, <3>3, <5>1 DEF CallInv, Fetch
        <5>3. /\ Account(request[Fetch(k)]) \in DOMAIN accounts
              /\ response[Fetch(k)].balance = accounts[Account(request[Fetch(k)])].balance
          BY <1>3, <2>1, <3>1, <3>2, <5>2 DEF BalanceInv, Timely, Fetch, Ok
        <5> QED
          BY <3>1, <5>1, <5>3 DEF Current
      <4> QED
        BY <1>7, <4>1, <4>2 DEF RegisterAnswered
    <3> QED
      BY <3>4, <3>6, <3>7
  <2>2. CASE ~Ok(k)
    BY <1>2, <1>3, <1>7, <2>2 DEF LoginAnswered, RegisterAnswered
  <2> QED
    BY <2>1, <2>2
<1>8. ASSUME NetworkError(k) PROVE BalanceInv(t)'
  BY <1>2, <1>3, <1>8 DEF NetworkError
<1>9. ASSUME TimerFires(k) PROVE BalanceInv(t)'
  <2>1. call[k].tab = t /\ Load(call[k].tab, "home")
    BY <1>1, <1>9 DEF TimerFires, CallsTyped, CallRecord
  <2> QED
    BY <2>1, BalanceUser DEF UserStep
<1> QED
  BY <1>4, <1>5, <1>6, <1>7, <1>8, <1>9 DEF CallStep

LEMMA BalanceNext ==
    ASSUME ClientInv, NEW t \in Tabs, Tabs = {t}, StoredInv(t), BalanceInv(t), [Next]_vars
    PROVE  BalanceInv(t)'
<1>1. CASE UNCHANGED vars
  BY <1>1
  DEF vars, BalanceInv, Calm, Accounted, Timely, Current, RefreshDue
<1> QED
  BY <1>1, BalanceServer, BalanceUser, BalanceCall DEF Next

LEMMA BalanceInit ==
    ASSUME Init, NEW t \in Tabs
    PROVE  StoredInv(t) /\ BalanceInv(t)
<1>1. DOMAIN call = {}
  BY NoCallYet
<1>2. user[t] = storage
  BY DEF Init
<1>3. StoredInv(t)
  BY <1>1, <1>2 DEF StoredInv, Calm, Orderly
<1>4. Current(storage, call)
  <2>1. storage = LoggedOut \/ \E u \in DOMAIN accounts : storage = SessionOf(u)
    BY DEF Init
  <2> QED
    BY <2>1 DEF Current, LoggedOut, SessionOf
<1>5. Accounted(call) /\ Timely(call)
  BY <1>1
  DEF Init, Server!Init, Server!NoRequest, NoRequest, Server!NoToken, NoToken, Accounted, Timely
<1> QED
  BY <1>2, <1>3, <1>4, <1>5 DEF BalanceInv

OneTabInv == \A t \in Tabs : Tabs = {t} => StoredInv(t) /\ BalanceInv(t)

LEMMA OneTabInvariant == Spec => []OneTabInv
<1>1. Init => OneTabInv
  BY BalanceInit DEF OneTabInv
<1>2. ClientInv /\ OneTabInv /\ [Next]_vars => OneTabInv'
  BY StoredNext, BalanceNext DEF OneTabInv
<1> QED
  BY <1>1, <1>2, ClientInvariant, PTL DEF Spec

\* An only tab that has met no failure and no overlap shows the session that
\* localStorage holds, or is about to reload.
THEOREM StoredSessionIsShown == Spec => []SessionIsStored
<1>1. OneTabInv => SessionIsStored
  BY DEF OneTabInv, StoredInv, SessionIsStored, Undisturbed, Calm, LoginDue, Due
<1> QED
  BY <1>1, OneTabInvariant, PTL

\* An only tab whose calls have met no failure and no overlap shows the balance
\* of the account, once nothing is on its way.
THEOREM ShownBalanceIsCurrent == Spec => []BalanceIsCurrent
<1>1. ClientInv /\ OneTabInv => BalanceIsCurrent
  <2> SUFFICES ASSUME ClientInv, NEW t \in Tabs, Tabs = {t}, BalanceInv(t),
                      Quiet(t), Undisturbed, user[t].token # NoToken
               PROVE  user[t].balance = accounts[user[t].username].balance
    BY DEF BalanceIsCurrent, OneTabInv
  <2>1. Calm(call) /\ \A k \in DOMAIN call : call[k].tab = t
    BY DEF Undisturbed, Calm, ClientInv, Sound, CallsTyped, CallRecord
  <2>2. ~RefreshDue(call)
    BY <2>1 DEF Quiet, RefreshDue, Fetching
  <2> QED
    BY <2>1, <2>2 DEF BalanceInv, Current
<1> QED
  BY <1>1, ClientInvariant, OneTabInvariant, PTL
===============================================================================
