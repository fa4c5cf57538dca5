------------------------------- MODULE WebClient -------------------------------
(***************************************************************************)
(* The React client of src/client, in the tabs of one browser, talking to  *)
(* a server that keeps the promises of Ledger.  JavaScript runs a handler  *)
(* without interruption up to its next await, so an action is what happens *)
(* between two awaits; answers arrive in any order, or never.              *)
(*                                                                         *)
(* A call is one run of an async handler.  Its stage says what it awaits:  *)
(* its first fetch ("request"), the /profile fetch that follows a deposit  *)
(* or a withdrawal ("refresh"), or its setTimeout ("timer"); then "done".  *)
(***************************************************************************)
EXTENDS Messages

CONSTANTS
    Tabs,
    Calls,             \* bound on the async calls of a behaviour
    Amounts,           \* what users type into the forms of Profile
    InitialAccounts,
    DefaultBalance,
    NoBalance          \* the empty string, where a balance is expected

ASSUME ClientAssumption ==
    /\ Amounts \subseteq Int
    /\ DefaultBalance \in Int
    /\ DOMAIN InitialAccounts \subseteq Usernames
    /\ InitialAccounts \in
          [DOMAIN InitialAccounts -> [password : Passwords, balance : Int]]

VARIABLES
    accounts, request, response, committed,   \* the server, see Ledger
    storage,    \* localStorage, which all tabs share
    user,       \* user[t]: the state of App, which UserContext provides
    page,       \* page[t]: the route that is rendered
    profile,    \* profile[t]: the state of the Profile component
    msg,        \* msg[t]: the type of the message that the page shows
    call        \* the calls that have been started

server == <<accounts, request, response, committed>>
vars == <<accounts, request, response, committed, storage, user, page, profile, msg, call>>

Fetching == {"request", "refresh"}

\* Every fetch opens a connection of its own.
Server == INSTANCE Ledger WITH
    Connections <- Calls \X Fetching, MayOverdraw <- TRUE, Instants <- {0}

Session == [token : Token, username : Usernames \cup {Empty}, balance : Int \cup {NoBalance}]
LoggedOut == [token |-> NoToken, username |-> Empty, balance |-> NoBalance]
SessionOf(u) == [token |-> [kind |-> "signed", username |-> u, exp |-> 0],
                 username |-> u, balance |-> accounts[u].balance]

Details == [username : Usernames \cup {Empty}, balance : Int \cup {NoBalance}]
Shown(s) == [username |-> s.username, balance |-> s.balance]

CallRecord ==
    [kind : {"login", "register", "profile", "deposit", "withdraw"}, tab : Tabs,
     token : Token, stage : Fetching \cup {"timer", "done"},
     mounted : BOOLEAN,      \* is the component that made the call still mounted?
     disturbed : BOOLEAN]    \* history, see Start, Logout, Discarded and Fail

TypeOK ==
    /\ storage \in Session
    /\ user \in [Tabs -> Session]
    /\ page \in [Tabs -> {"home", "login", "register", "profile"}]
    /\ profile \in [Tabs -> Details]
    /\ msg \in [Tabs -> {"", "success", "error"}]
    /\ DOMAIN call \subseteq Calls
    /\ \A k \in DOMAIN call : call[k] \in CallRecord

\* The browser may remember a session from an earlier visit.
Init ==
    /\ Server!Init
    /\ storage \in {LoggedOut} \cup {SessionOf(u) : u \in DOMAIN accounts}
    /\ user = [t \in Tabs |-> storage]
    /\ page = [t \in Tabs |-> "home"]
    /\ profile = [t \in Tabs |-> Shown(LoggedOut)]
    /\ msg = [t \in Tabs |-> ""]
    /\ call = << >>
-------------------------------------------------------------------------------
(***************************************************************************)
(* Calls.                                                                  *)
(***************************************************************************)

Waiting(k) == k \in DOMAIN call /\ call[k].stage \in Fetching

Fetch(k) == <<k, call[k].stage>>

Answered(k) == Waiting(k) /\ response[Fetch(k)] # NoResponse

Ok(k) == response[Fetch(k)].status = 200

ProfileRequest(token) ==
    [target |-> "profile", token |-> token, username |-> Empty, password |-> Empty,
     amount |-> 0, wellFormed |-> TRUE]

\* Tab t starts call k, where "others" is what has become of the other calls.
\* A call is disturbed if it fails, if it overlaps another call of its tab, a
\* logout or a reload, or if localStorage no longer holds the session it is for.
Start(others, k, t, q) ==
    LET crowd == {i \in DOMAIN others : others[i].tab = t /\ others[i].stage \in Fetching}
        foreign == q.target \in TokenTargets /\ q.token # storage.token
        started == [kind |-> q.target, tab |-> t, token |-> q.token, stage |-> "request",
                    mounted |-> TRUE, disturbed |-> crowd # {} \/ foreign]
    IN  /\ k \in Calls \ DOMAIN others
        /\ call' = [i \in DOMAIN others \cup {k} |->
                       IF i = k THEN started
                       ELSE [others[i] EXCEPT !.disturbed = @ \/ i \in crowd]]
        /\ request' = [request EXCEPT ![<<k, "request">>] = q]

\* The component of page p is mounted; that of Profile fetches the profile in
\* its effect.
Mount(t, p, s, others) ==
    /\ page' = [page EXCEPT ![t] = p]
    /\ profile' = [profile EXCEPT ![t] = Shown(IF p = "profile" THEN s ELSE LoggedOut)]
    /\ msg' = [msg EXCEPT ![t] = ""]
    /\ \/ /\ p = "profile" /\ s.token # NoToken
          /\ \E k \in Calls : Start(others, k, t, ProfileRequest(s.token))
       \/ /\ ~(p = "profile" /\ s.token # NoToken)
          /\ call' = others
          /\ UNCHANGED request
    /\ UNCHANGED <<accounts, response, committed>>

\* What becomes of the calls of t when its page is left: they go on, or end
\* with the document that they run in.
Unmounted(t) ==
    [k \in DOMAIN call |->
        [call[k] EXCEPT !.mounted = @ /\ call[k].tab # t]]

Discarded(t) ==
    [k \in DOMAIN call |->
        IF call[k].tab # t THEN call[k]
        ELSE [call[k] EXCEPT !.mounted = FALSE, !.stage = "done",
                             !.disturbed = @ \/ call[k].stage \in Fetching]]
-------------------------------------------------------------------------------
(***************************************************************************)
(* What users do.                                                          *)
(***************************************************************************)

\* The address is typed, or the page reloaded: the document starts anew, and
\* App takes its state from localStorage.
Load(t, p) ==
    /\ user' = [user EXCEPT ![t] = storage]
    /\ Mount(t, p, storage, Discarded(t))
    /\ UNCHANGED storage

\* A link of Header, which shows them according to the token.
Visit(t, p) ==
    /\ p # page[t]
    /\ p = "profile" => user[t].token # NoToken
    /\ p \in {"login", "register"} => user[t].token = NoToken
    /\ Mount(t, p, user[t], Unmounted(t))
    /\ UNCHANGED <<storage, user>>

\* The Back and Forward buttons go where no link does: to Profile after a logout.
Back(t, p) ==
    /\ p # page[t]
    /\ Mount(t, p, user[t], Unmounted(t))
    /\ UNCHANGED <<storage, user>>

\* Mutant: the context is not reset.
LogoutOfStorage(t) ==
    /\ user[t].token # NoToken
    /\ storage' = LoggedOut
    /\ Mount(t, "home", LoggedOut, Unmounted(t))
    /\ UNCHANGED user

Logout(t) ==
    LET interrupted == [k \in DOMAIN call |->
            [Unmounted(t)[k] EXCEPT !.disturbed = @ \/ call[k].stage \in Fetching]]
    IN  /\ user[t].token # NoToken
        /\ storage' = LoggedOut
        /\ user' = [user EXCEPT ![t] = LoggedOut]
        /\ Mount(t, "home", LoggedOut, interrupted)

\* A form is submitted; nothing stops the user from submitting it again before
\* the answer is there.
Submit(t, q) ==
    /\ \E k \in Calls : Start(call, k, t, q)
    /\ msg' = [msg EXCEPT ![t] = ""]
    /\ UNCHANGED <<accounts, response, committed, storage, user, page, profile>>

SubmitCredentials(t) ==
    /\ page[t] \in CredentialTargets
    /\ \E u \in Usernames, w \in Passwords :
          Submit(t, [target |-> page[t], token |-> NoToken, username |-> u, password |-> w,
                     amount |-> 0, wellFormed |-> TRUE])

SubmitMoney(t) ==
    /\ page[t] = "profile"
    /\ \E target \in MoneyTargets, amount \in Amounts :
          Submit(t, [target |-> target, token |-> user[t].token, username |-> Empty,
                     password |-> Empty, amount |-> amount, wellFormed |-> TRUE])
-------------------------------------------------------------------------------
(***************************************************************************)
(* The handlers after an await.                                            *)
(***************************************************************************)

\* setMsg has no effect once the component is gone.
Say(k, type) ==
    msg' = IF call[k].mounted THEN [msg EXCEPT ![call[k].tab] = type] ELSE msg

Goto(k, stage) == call' = [call EXCEPT ![k].stage = stage]

Fail(k) == call' = [call EXCEPT ![k].stage = "done", ![k].disturbed = TRUE]

\* Mutant: the token of the context is kept, not the one of the closure.
UpdateKeepingToken(k) ==
    /\ user' = [user EXCEPT ![call[k].tab].username = Account(request[Fetch(k)]),
                            ![call[k].tab].balance = response[Fetch(k)].balance]
    /\ storage' = [storage EXCEPT !.balance = response[Fetch(k)].balance]
    /\ Goto(k, "done")
    /\ UNCHANGED <<profile, request>>

\* Mutant: the answer has no balance.
UpdateWithoutBalance(k) ==
    LET fresh == [token |-> call[k].token, username |-> Account(request[Fetch(k)])]
    IN  /\ user' = [user EXCEPT ![call[k].tab] = fresh]
        /\ Goto(k, "done")
        /\ UNCHANGED <<storage, profile, request>>

\* Mutant: localStorage takes the session as the context does.
UpdateStoringSession(k) ==
    LET fresh == [token |-> call[k].token,
                  username |-> Account(request[Fetch(k)]),
                  balance |-> response[Fetch(k)].balance]
    IN  /\ user' = [user EXCEPT ![call[k].tab] = fresh]
        /\ storage' = fresh
        /\ Goto(k, "done")
        /\ UNCHANGED <<profile, request>>

\* setProfile, setUser and localStorage take what /profile has answered.  If
\* this gives a mounted Profile another token, its effect runs again.
UpdateBalance(k) ==
    LET t == call[k].tab
        fresh == [token |-> call[k].token,
                  username |-> Account(request[Fetch(k)]),
                  balance |-> response[Fetch(k)].balance]
        others == [call EXCEPT ![k].stage = "done"]
        rerun == page[t] = "profile" /\ user[t].token # fresh.token
    IN  /\ user' = [user EXCEPT ![t] = fresh]
        /\ storage' = [storage EXCEPT !.balance = fresh.balance]
        /\ profile' = IF call[k].mounted THEN [profile EXCEPT ![t] = Shown(fresh)] ELSE profile
        /\ \/ rerun /\ \E i \in Calls : Start(others, i, t, ProfileRequest(fresh.token))
           \/ ~rerun /\ call' = others /\ UNCHANGED request

ProfileFetched(k) ==
    /\ Answered(k)
    /\ call[k].kind = "profile"
    /\ \/ Ok(k) /\ UpdateBalance(k) /\ UNCHANGED msg
       \/ ~Ok(k) /\ Say(k, "error") /\ Fail(k) /\ UNCHANGED <<request, storage, user, profile>>
    /\ UNCHANGED <<accounts, response, committed, page>>

\* Mutant: response.ok is not looked at.
MoneyAnsweredUnchecked(k) ==
    /\ Answered(k)
    /\ call[k].kind \in MoneyTargets /\ call[k].stage = "request"
    /\ Say(k, "success")
    /\ Goto(k, "refresh")
    /\ request' = [request EXCEPT ![<<k, "refresh">>] = ProfileRequest(call[k].token)]
    /\ UNCHANGED <<accounts, response, committed, storage, user, page, profile>>

\* Mutant: a deposit or withdrawal that has failed is sent again.
MoneyAnsweredResent(k) ==
    /\ Answered(k)
    /\ call[k].kind \in MoneyTargets /\ call[k].stage = "request"
    /\ Say(k, IF Ok(k) THEN "success" ELSE "error")
    /\ Goto(k, "refresh")
    /\ request' = [request EXCEPT ![<<k, "refresh">>] =
          IF Ok(k) THEN ProfileRequest(call[k].token) ELSE request[<<k, "request">>]]
    /\ UNCHANGED <<accounts, response, committed, storage, user, page, profile>>

MoneyAnswered(k) ==
    /\ Answered(k)
    /\ call[k].kind \in MoneyTargets /\ call[k].stage = "request"
    /\ \/ /\ Ok(k)
          /\ Say(k, "success")
          /\ Goto(k, "refresh")
          /\ request' = [request EXCEPT ![<<k, "refresh">>] = ProfileRequest(call[k].token)]
       \/ ~Ok(k) /\ Say(k, "error") /\ Fail(k) /\ UNCHANGED request
    /\ UNCHANGED <<accounts, response, committed, storage, user, page, profile>>

\* Mutant: the refreshed balance does not reach the context.
RefreshedPageOnly(k) ==
    /\ Answered(k)
    /\ call[k].kind \in MoneyTargets /\ call[k].stage = "refresh"
    /\ Ok(k) /\ Goto(k, "done")
    /\ UNCHANGED <<server, page, msg, storage, user, profile>>

Refreshed(k) ==
    /\ Answered(k)
    /\ call[k].kind \in MoneyTargets /\ call[k].stage = "refresh"
    /\ \/ Ok(k) /\ UpdateBalance(k)
       \/ ~Ok(k) /\ Fail(k) /\ UNCHANGED <<request, storage, user, profile>>
    /\ UNCHANGED <<accounts, response, committed, page, msg>>

\* Mutant: no reload is scheduled.
LoginWithoutReload(k) ==
    /\ Answered(k)
    /\ call[k].kind = "login"
    /\ Ok(k) /\ Say(k, "success") /\ Goto(k, "done")
    /\ storage' = [token |-> response[Fetch(k)].token,
                   username |-> Account(request[Fetch(k)]),
                   balance |-> response[Fetch(k)].balance]
    /\ UNCHANGED <<server, user, page, profile>>

LoginAnswered(k) ==
    /\ Answered(k)
    /\ call[k].kind = "login"
    /\ \/ /\ Ok(k) /\ Say(k, "success") /\ Goto(k, "timer")
          /\ storage' = [token |-> response[Fetch(k)].token,
                         username |-> Account(request[Fetch(k)]),
                         balance |-> response[Fetch(k)].balance]
       \/ ~Ok(k) /\ Say(k, "error") /\ Fail(k) /\ UNCHANGED storage
    /\ UNCHANGED <<server, user, page, profile>>

RegisterAnswered(k) ==
    /\ Answered(k)
    /\ call[k].kind = "register"
    /\ \/ Ok(k) /\ Say(k, "success") /\ Goto(k, "timer")
       \/ ~Ok(k) /\ Say(k, "error") /\ Fail(k)
    /\ UNCHANGED <<server, storage, user, page, profile>>

\* A fetch rejects, whether or not the server has seen the request, or the body
\* of its answer does not parse: the catch blocks.
NetworkError(k) ==
    /\ Waiting(k)
    /\ Say(k, "error")
    /\ Fail(k)
    /\ UNCHANGED <<server, storage, user, page, profile>>

\* Two seconds after a login or a registration the tab reloads, wherever it is.
TimerFires(k) ==
    /\ k \in DOMAIN call
    /\ call[k].stage = "timer"
    /\ Load(call[k].tab, "home")
-------------------------------------------------------------------------------
UserStep(t) ==
    \/ \E p \in {"home", "login", "register", "profile"} : 
          Load(t, p) \/ Visit(t, p) \/ Back(t, p)
    \/ Logout(t) \/ SubmitCredentials(t) \/ SubmitMoney(t)

CallStep(k) ==
    \/ ProfileFetched(k) \/ MoneyAnswered(k) \/ Refreshed(k)
    \/ LoginAnswered(k) \/ RegisterAnswered(k)
    \/ NetworkError(k) \/ TimerFires(k)

\* The client looks at response.ok only: one status stands for all failures.
ServerStep ==
    /\ \E f \in Calls \X Fetching :
          /\ Server!Effect(f) \/ Server!Show(f) \/ Server!Refuse(f)
          /\ response'[f].status \in {200, 500}
    /\ UNCHANGED <<storage, user, page, profile, msg, call>>

Next == ServerStep \/ (\E t \in Tabs : UserStep(t)) \/ (\E k \in Calls : CallStep(k))

Spec == Init /\ [][Next]_vars

\* The browser fires the timers that are due.
Fairness == \A k \in Calls : WF_vars(TimerFires(k))

FairSpec == Spec /\ Fairness
===============================================================================
