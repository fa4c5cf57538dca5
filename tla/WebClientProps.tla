---------------------------- MODULE WebClientProps ----------------------------
(***************************************************************************)
(* What must be true of the React client, whatever order the answers come  *)
(* in and whatever the user does meanwhile.                                *)
(***************************************************************************)
EXTENDS WebClient, Functions

\* Tab t awaits no answer.
Quiet(t) == \A k \in DOMAIN call : call[k].tab = t => call[k].stage \notin Fetching

\* Every call has run without failure or overlap, see Start in WebClient.
Undisturbed == \A k \in DOMAIN call : ~call[k].disturbed

\* A login has stored its session, and the reload is still to come.
LoginDue == \E k \in DOMAIN call : call[k].kind = "login" /\ call[k].stage = "timer"

\* A token and the username beside it belong to each other, in localStorage and
\* in the context of every tab: answers that arrive after a logout, a reload or
\* the login of somebody else never put one user's name on another's token.
SessionsCoherent ==
    \A s \in {storage} \cup {user[t] : t \in Tabs} : s.token.username = s.username

\* Profile says that a deposit or withdrawal succeeded only if the server has
\* committed one that was asked for since the page was opened, however many are
\* on their way.
SuccessIsTrue ==
    \A t \in Tabs :
        page[t] = "profile" /\ msg[t] = "success" =>
            \E k \in DOMAIN call :
                /\ call[k].tab = t /\ call[k].mounted /\ call[k].kind \in MoneyTargets
                /\ <<k, "request">> \in committed

\* The balance in the header of an only tab is the balance of its account (which
\* nobody else uses) once nothing is on its way, unless a call was disturbed: the
\* /profile fetches of handleDeposit and handleWithdraw suffice.
BalanceIsCurrent ==
    \A t \in Tabs :
        Tabs = {t} /\ Quiet(t) /\ Undisturbed /\ user[t].token # NoToken
            => user[t].balance = accounts[user[t].username].balance

\* An only tab shows a session that localStorage does not hold only while the
\* reload after a login is due, or after a call was disturbed: without one,
\* handleLogout logs out for good.
SessionIsStored ==
    \A t \in Tabs :
        Tabs = {t} /\ Undisturbed => user[t].token = storage.token \/ LoginDue

\* Login stores a session "and then reloads to update header": in an only tab the
\* header gets to show the stored session, unless it is removed first.  Whatever
\* page the user goes to in the two seconds, the timer of handleSubmit survives.
LoginReachesHeader ==
    \A t \in Tabs :
        storage.token # NoToken ~> storage.token \in {NoToken, user[t].token}

\* A session that was logged out stays out of localStorage: the token there goes
\* with a logout of some tab, and comes with the answer to a login, once, for
\* whoever has logged in.  The answers to what a tab still had on its way bring a
\* session back into its context, but no tab that loads will find it.
SessionStep ==
    storage'.token # storage.token =>
        \/ storage' = LoggedOut
        \/ \E k \in DOMAIN call :
              /\ Answered(k) /\ Ok(k) /\ call[k].kind = "login"
              /\ call'[k].stage \notin Fetching
              /\ storage'.token.username = request[<<k, "request">>].username

LogoutHolds == [][SessionStep]_vars

\* No submission of a form moves money twice: every balance is what its account
\* was opened with plus one deposit or withdrawal for each call, at most, of
\* handleDeposit and handleWithdraw, whatever became of the answer to it.
Moves == [k \in Calls |-> Delta(request[<<k, "request">>])]

MovedBy(u) ==
    {k \in Calls : /\ <<k, "request">> \in committed
                   /\ Account(request[<<k, "request">>]) = u}

SubmissionsAddUp ==
    \A u \in DOMAIN accounts :
        accounts[u].balance = Server!Opening(u) + SumFunctionOnSet(Moves, MovedBy(u))

\* "Success messages are now shown inline and the updated balance is reflected
\* immediately": when the page shows a success and awaits nothing, the balance
\* it shows is the balance of the account.
UpdatedBalanceShown ==
    \A t \in Tabs :
        page[t] = "profile" /\ msg[t] = "success" /\ Quiet(t) /\ Tabs = {t}
            => profile[t].balance = accounts[profile[t].username].balance

\* "Success messages are now shown inline": once handleDeposit or handleWithdraw
\* has seen the server's 200, its page says so, as long as no other form is
\* submitted and no other call fails.
SuccessIsShown ==
    \A k \in DOMAIN call :
        /\ page[call[k].tab] = "profile" /\ call[k].mounted
        /\ request[<<k, "refresh">>] # NoRequest
        /\ \A i \in DOMAIN call \ {k} : call[i].kind = "profile" /\ ~call[i].disturbed
        => msg[call[k].tab] = "success"
===============================================================================
