# Verification of the online auction

The repository holds a small auction site: a C++ HTTP server
(`src/server/server.cpp`) in front of a `users` table in a YugabyteDB cluster,
and a React client (`src/client/src`). The modules here model the server with
its table, and the client in the tabs of a browser. TLC checks them on small
instances. TLAPS proves the safety properties of the server and of the client
for every number of connections, tabs, calls, accounts and amounts, that the
server implements the atomic accounts it promises, and that money is conserved
from the form that is submitted to the row it arrives in.

## 1. The system

| Component | State | Operations | Interacts with |
|---|---|---|---|
| accept loop and sessions (`main`, `do_session`) | one detached thread per TCP connection, its request and response | accept, read, route, write, close; exit of the process | client over HTTP; handlers by call |
| tokens (`generate_jwt_token`, `verify_jwt_token`, `extract_token`) | none: a token carries its username and its expiry | sign, verify | client keeps tokens; handlers read the clock |
| handlers (`handle_register`, `_login`, `_profile`, `_deposit`, `_withdraw`) | a `pqxx::work` each: one transaction | SELECT, INSERT, UPDATE, commit; 4xx returns; `catch` to 500 | the users table |
| users table (external) | rows, uncommitted versions, row locks | reads, writes, commit, rollback | all handlers of all threads |
| client: session state (`App.js`, `UserContext.js`, `Header.js`, `Login.js`) | user context, `localStorage` | load, login and reload, logout | server by `fetch` |
| client: money pages (`Profile.js`, `Register.js`) | messages, context, `localStorage` | fetch the profile, deposit, withdraw, register | server by `fetch` |

The rest of the tree has no behaviour to model; section 5 lists it.

What is hard about it:

- The threads of the server share nothing but the table, and every handler is
  several statements. Whatever happens between two statements happens in the
  database: another thread's commit, a lock, a serialization failure.
- `handle_withdraw` and `handle_register` check first and write later.
- Any statement may throw, `commit()` may throw after the database has
  committed, the response may not arrive, and the process may exit with threads
  in the middle of their transactions.
- Neither the isolation level of the cluster nor the constraints of the table
  are in the repository, so no property may silently depend on them.
- The client's handlers go on after an `await` with the token of the render that
  started them. Meanwhile the user may have logged out, left the page, submitted
  again, or logged in as somebody else in another tab; answers overtake each
  other or are lost; tabs share `localStorage` but not the context.

What makes it correct: each request takes effect at one instant, at most once
(*Ledger*); money is conserved and no update is lost; nobody withdraws what the
account does not hold; an answer says truly whether the request took effect;
every request is answered or its connection ends; a valid token is accepted. In
the client, a token and the name beside it belong together, no
submission of a form moves money twice, the page reports a success only if the
server committed, the balance and the session it shows are
those of the server and of `localStorage`, a logout is final there, and a login
reaches the header.

## 2. Modules

| Module | What it is |
|---|---|
| `Messages` | tokens, requests and responses, reduced to what the handlers read |
| `UsersTable` | the table under libpqxx transactions: committed rows, snapshots, uncommitted versions, locks, commit, rollback |
| `AuctionServer` | extends `UsersTable` with the threads: one action per statement of each handler, per step of `do_session` and of `main`, and per failure |
| `Ledger` | what the server promises: accounts on which each request takes effect atomically; what it means for them to conserve money |
| `AuctionServerProps` | the safety, step and liveness properties, and the refinement of `Ledger` |
| `MCAuctionServer` | values for the constants |
| `AuctionServerProofs` | the inductive invariant of the server and the theorems about it |
| `LedgerProofs` | proof that `AuctionServer` implements `Ledger`, and what it inherits from it |
| `SumProofs` | what the library's sum over a finite set returns |
| `LedgerMoneyProofs` | proof that `Ledger` conserves money |
| `WebClient` | the tabs of one browser: contexts, `localStorage`, pages, calls in flight and timers, over a server that is an instance of `Ledger` |
| `WebClientProps`, `MCWebClient` | its properties, and values for its constants |
| `WebClientProofs` | the inductive invariant of the client and the theorems about any number of tabs |
| `OneTabProofs` | the theorems about an only tab |
| `ClientMoneyProofs` | proof that no submission of a form moves money twice |

`WebClient` composes with the server through `Ledger`: `AuctionServer` implements
it, and `WebClient` takes its steps from it, with `MayOverdraw <- TRUE` so that
nothing about the client depends on the settings of the database. `Ledger` may
refuse any request that carries a token with 401, so the pages also meet the
answer to a token that has expired.

### How the model corresponds to the code

`pc[c]` is the place in the code where the thread of connection `c` stands; the
table in the head of `AuctionServer` gives the labels. Local variables that
survive a statement are `request[c]` and `response[c]`; the result of a SELECT
survives only as the branch it decided. `Route` does everything of a handler
that comes before its `pqxx::connection`: route, token, body, amount. It is one
step because it touches nothing shared except the clock, which is read once.
Each further statement is an action: `RegisterSelect`, `RegisterInsert`,
`Login`, `Profile`, `DepositUpdate`, `WithdrawSelect`, `WithdrawUpdate`,
`Commit`. `DatabaseError` stands for every exception that the `catch` blocks
turn into 500, including a connection that cannot be opened; unwinding destroys
the `pqxx::work`, so it rolls back. `CommitInDoubt` is `commit()` throwing after
the database has committed.

A row version is a record with its id, username, password, balance and writer.
A connection runs at most one transaction, because `do_session` serves one
request, so `pending[c]` (the versions not yet committed) and `snapshot[c]` (the
rows committed when the first SELECT ran) are indexed by connection. A writer
waits (its action is disabled) while another transaction holds an uncommitted
version of a row it matches, or, under a UNIQUE constraint, an uncommitted row
with the username it inserts.

What the repository leaves open is a constant: `Isolation` (read committed or
snapshot, for a `BEGIN` without a level), `UniqueUsername`, `BalanceCheck`
(a `CHECK (balance >= 0)`), `DefaultBalance`. Properties that hold only under
some of them say so in their statement.

`WebClient` cuts each async handler at its awaits, because JavaScript runs the
code between two of them without interruption. A run of a handler is a *call*;
its `stage` says what it awaits: the first `fetch`, the `/profile` fetch after a
deposit or withdrawal (`refresh`), or the timer of two seconds before the
reload. A call keeps the token of its closure, as the handlers do, so that an
answer can arrive after the context has changed; `mounted` says whether
its component still exists, since a setter of a component that is gone does
nothing. A reload (`Load`) ends all calls of its tab, and `Visit`, a link of
`Header`, ends none; nor does `Back`, the browser's Back and Forward buttons,
which unlike the links lead to `Profile` after a logout. There the effect finds no
token and fetches nothing, until an answer that was on its way before the logout
puts a token into the context: then the effect runs again (`UpdateBalance`).
`NetworkError` is every way into a `catch`. The two money
handlers differ in the route and the field they clear, so one set of actions
stands for both; the effect of `Profile` is part of `Mount`. `disturbed` is
a history: a call that fails, that overlaps another call of its tab, a logout or
a reload, or that is made for a session `localStorage` no longer holds. The
properties that such calls do break say that they need one.

Abstractions: amounts and balances are integers (cents), so the rounding of
`double` against the type of the column is outside; usernames and passwords are
a few values; headers, messages and JSON layout are left out, and a body either
parses with its fields or does not (`wellFormed`); a token verifies or does not.
`RemoveAccount` is an operator deleting a row by hand: nothing under `src/` does
it, but the handlers have a 404 for it. In the client, the texts of messages and
forms are left out, and the state of `Profile` is reset when it is not mounted.

What the properties leave open:

- A link to the database that breaks in the middle of a transaction ends it at
  once: by a rollback (`DatabaseError`), or by a commit at the moment of the 500
  (`CommitInDoubt`). A real backend may hold the locks until it notices, or apply
  the COMMIT after the 500.
- The session that the browser remembers from an earlier visit has the balance
  of its account.
- `BalanceIsCurrent` and `SessionIsStored` say what holds as long as no call was
  disturbed; what overlapping calls, late answers and foreign sessions do is the
  subject of `UpdatedBalanceShown`, `SessionsCoherent` and `LogoutHolds`. No
  property covers a balance that is written beside another user's session
  (hazard at `Profile.js:31`).
- `DuplicateNeedsRace` permits the race of two registrations, and says that
  nothing else doubles a username. `ImplementsLedger` excludes it, given UNIQUE.
- `TruthfulAnswer` says nothing about a 500, and nothing about a 200 whose UPDATE
  matched no row. That is the subject of `MoneyArrives`, which excludes the
  accounts that an operator may delete.
- `Ledger` may answer 401 to any request with a token: that a valid token is
  accepted is the subject of `ValidTokenAccepted`, and not of `ImplementsLedger`.

## 3. Runs

| Run | Instance | What it shows |
|---|---|---|
| `Requests` | 2 connections, every route and method, good and bad bodies, all kinds of token, amounts 0, 2 and 3 on a balance of 2, two ticks, snapshot isolation | `TypeOK`; the server implements `Ledger`, in particular no 404 is given to a token; `NoOverdraft` |
| `CheckedColumn` | 3 connections, read committed with a CHECK, register, deposit, withdraw, profile | the server implements `Ledger` when the column is checked; `WaitsEnd`: a thread is waited for only when all that is left to it is its commit, or when it is dead and the database has yet to end its transaction |
| `MoneyReadCommitted` | 3 connections, 2 accounts, deposits and withdrawals of 1 and 2, read committed, no CHECK | `Conservation`, `ExactEffect`: no update lost and none misdirected; `OverdraftNeedsRace` |
| `Operator` | 3 connections, 2 accounts, read committed, no UNIQUE constraint; one account may be deleted at any moment and registered again | `TruthfulAnswer`; `DuplicateNeedsRace`; `MoneyArrives`: a committed deposit or withdrawal moves a row of its account, although the handlers do not look at how many rows an UPDATE matches |
| `Progress` | 3 connections, weak fairness | `EveryRequestEnds` |
| `Overdraft` (violation) | 2 withdrawals of the whole balance, read committed | `WithdrawalsAreCovered` fails |
| `EmptyUsername` (violation) | the only username is the empty string | `ValidTokenAccepted` fails |
| `OneTab` | 1 tab, 3 calls, 2 accounts | `SuccessIsTrue`: no success without a commit; `BalanceIsCurrent` and `SessionIsStored`, whose conditions say what it takes to show a stale balance or a session that was logged out |
| `TwoTabs` | 2 tabs, 2 calls, 2 accounts | `SessionsCoherent`: no token beside another user's name; `SubmissionsAddUp`: every balance is the opening one plus one movement, at most, for each call of a money handler; `LogoutHolds`: what is answered after a logout, in this tab or the other, brings no session back into `localStorage` |
| `LoginReload` | 1 tab, 2 calls, 2 accounts, fair timers | `LoginReachesHeader` |
| `StaleBalance` (violation) | 1 tab, 3 calls, 1 account | `UpdatedBalanceShown` fails |
| `LostSuccess` (violation) | 1 tab, 2 calls, 1 account | `SuccessIsShown` fails |

Bounds. Three connections are a writer, a competitor and a third party that
commits in between; every hazard listed in `PROJECT.json` is between two. The
balance of 2 with amounts 0, 1, 2 and 3 puts requests at nothing, below, at and
above it. `TokenLife` 1 with `MaxTime` 2 lets a token be fresh, at its last
instant and expired. A connection is used once, so the number of connections also bounds
the number of requests; `Quiescent` lets the model rest when all were served,
which leaves deadlock checking on. `SYMMETRY` over connections is used in the
safety runs only. Failures, crashes and restarts are enabled in all runs of the
server. In the client three calls are a call, another that overlaps or precedes
it, and a third after a reload; with two tabs, one call in each suffices to
write one user's answer over the other's session. Every `fetch` may fail in all
runs, before or after the server has acted.

Fairness. `FairSpec` assumes weak fairness of the own steps of each thread (the
operating system schedules it, the database answers its statements and releases
its locks) and of `Reap` (the database ends the transaction of a process that is
gone). It assumes nothing of `Accept`, of clients sending a request, of faults,
of a restart or of an operator. `EveryRequestEnds` therefore speaks of requests
that have been read. In `WebClient` only the timers are fair: the browser fires a
timer that is due. Neither users nor the network owe anything.

The four violations are findings about the code. In `Overdraft`, two
withdrawals both pass the check of line 293 before either UPDATE of line 296:
read committed lets both through. `NoOverdraft` says which database settings
prevent it and `OverdraftNeedsRace` that nothing else causes it. In
`EmptyUsername`, `verify_jwt_token` returns the empty claim of a valid token,
which the handlers take for an invalid one. In `StaleBalance`, the `/profile`
fetch after a successful deposit is answered with an error: `handleDeposit`
leaves the balance and the success message as they are, against the comment at
the head of `Profile.js`. In `LostSuccess` that fetch fails on the network, and
the `catch` of the whole handler replaces the success of an acknowledged deposit
by "Network error".

## 4. Proofs

`AuctionServerProofs` proves, from the assumptions on the constants named in
`UsersTable` and `AuctionServer` (the initial rows have ids of their own, are
not overdrawn, and are unique where the constraint says so):

| Theorem | Property |
|---|---|
| `TypeCorrect` | `TypeOK` |
| `AnswersAreTruthful` | `TruthfulAnswer` |
| `NeverOverdrawn` | `NoOverdraft` |
| `OverdraftsAreRaces` | `OverdraftNeedsRace` |
| `DuplicatesAreRaces` | `DuplicateNeedsRace` |
| `EffectsAreExact` | `ExactEffect` |
| `NobodyWaitsInVain` | `WaitsEnd` |

None of the properties is inductive. The invariant has two layers.
`SessionInv` is about the threads: the types; a request names a possible account
and, past the early returns, a positive amount (`RequestInv`); a transaction is
open, has uncommitted versions, or has committed only at the labels where it can
(`PhaseInv`); `TruthfulAnswer`. `TableInv` is about rows, and is proved with
`SessionInv` known: ids are keys (`KeyInv`); an uncommitted version is an
inserted row or a *current* row moved by the amount of its request
(`VersionInv`), which is true because of the locks (`LockInv`: a row has one
uncommitted version); usernames are unique among rows and claims where the
constraint says so (`UniqueInv`); the snapshot of a transaction satisfies what
its SELECT checked (`CheckedInv`); no balance is negative under a guard
(`CoveredInv`). `VersionInv` is what excludes lost updates; `CheckedInv` with it
gives the two race theorems.

The proof is organised by what a step does to the table (begin, insert, update,
commit, rollback, delete); each has a lemma, and `TableNext` reduces every action
to one of them. `NobodyWaitsInVain` needs one fact more, that versions belong to
open transactions (`OpenInv`): a thread that has written stands at its commit,
so the waits form no chain and no cycle. It rests on each transaction having one
writing statement, which takes its locks at once; in a table without a UNIQUE
constraint an UPDATE of several rows could take them one by one, and the
deadlock that the database then breaks by an exception is a `DatabaseError` of
the model.

### The server implements `Ledger`

`LedgerProofs` proves, when usernames are unique, nobody deletes rows by hand
and the tokens signed earlier are those of the initial accounts (`Wellkept`):

| Theorem | Property |
|---|---|
| `LedgerImplemented` | `ImplementsLedger` |
| `AmountsArrive` | `MoneyArrives` |
| `MoneyIsConserved` | `Conservation` |

Under the mapping, the accounts of `Ledger` are the committed rows. Reading a
request is `Receive`; the commit is `Effect`, the instant at which a request
takes place; `Login` and `Profile` that find their row are `Show`; every other
answer is a `Refuse`; all else, every statement before a commit included, is a
stutter. What has to be known for that, beyond `SessionInv` and `TableInv`, is
`LedgerInv`: requests are read and answered once, and only with a token that
verifies do they get past the route (`SentInv`); a signed token, wherever it is,
is that of a registered account (`KnownInv`), which rules the 404 answers out;
and what a transaction is about to commit is exactly the effect of its request
on the row that is current *now* (`Prepared`), which other commits do not
disturb because of the lock. `AccountsFacts` is where uniqueness enters: without
it a table is not a function from usernames to accounts.

### The client

`WebClientProofs`, `OneTabProofs` and `ClientMoneyProofs` assume only that the
accounts have passwords and balances of the right kind (`ClientAssumption`).

| Theorem | Property |
|---|---|
| `ClientTypeCorrect` | `TypeOK` |
| `NamesBelongToTokens` | `SessionsCoherent` |
| `LogoutIsFinal` | `LogoutHolds` |
| `ReportedSuccessIsTrue` | `SuccessIsTrue` |
| `StoredSessionIsShown` | `SessionIsStored` |
| `ShownBalanceIsCurrent` | `BalanceIsCurrent` |
| `SubmissionsMoveOnce` | `SubmissionsAddUp` |

`ClientInv` is about answers that come late: the server answers 200 to a request
only with what that request was for (`ServerInv`), a call has sent requests with
the token of its own closure (`CallInv`), fetches that are not sent have no
answer (`FreshInv`), and a page that reports a success has a call of its own
that committed (`SuccessInv`). Names and tokens then agree because `setUser`
takes both from one call, never from the context. `LogoutHolds` is a property of
steps: the answers to `/profile` put a session back into the context, but write
no more than the balance to `localStorage`. For an only tab, `StoredInv`
adds that as long as no call was disturbed at most one is waiting, and that one
with the stored token. `BalanceInv` adds that a balance that is no longer that
of the server has a refresh on its way that will read it.

### Money

`Conservation` equates a balance with a sum over the requests that have
committed. The library defines that sum by a recursive function that takes the
elements of the set in the order `CHOOSE` gives them. `SumProofs` shows that
this function exists for every finite set, that the order does not matter
(`SumRemove`, `SumAdd`), that only the values on the set do (`SumSame`), and that
the elements may be renamed (`SumRenamed`). Induction on a finite set would take
an operator as its parameter; it is stated instead as the choice of a smallest
counterexample among the subsets of the set (`SmallestSubset`), by the
well-foundedness of the strict subset ordering.

| Theorem | Module | What |
|---|---|---|
| `LedgerConserves` | `LedgerMoneyProofs` | `Ledger` conserves money |
| `MoneyIsConserved` | `LedgerProofs` | `Conservation`: so does the server |
| `SubmissionsMoveOnce` | `ClientMoneyProofs` | `SubmissionsAddUp`: no submission moves money twice |

The argument is made once, about `Ledger`, where it is short: a commit adds one
element to the set of effects of one account. `EffectInv` says that committed
requests are finite in number and that their accounts exist, so that a new
account starts with the empty sum. The server inherits the result through
`LedgerImplemented`, so it needs `Wellkept`. The client inherits it because it is
composed with an instance of `Ledger`; the lemma `ClientUsesLedger` only makes
that explicit, since the model gives every fetch a connection of its own. What
the theorem adds for the client is that only the first request of a call ever
commits, since a refresh only reads (`SpendInv`): then the effects on an account
are calls, each counted once.

### Only model-checked

`EveryRequestEnds` and `LoginReachesHeader`: liveness under fairness is out of
the prover's reach. Every other property of the passing runs is stated by a
theorem. The runs with `Removable = {}` are the ones that refine `Ledger`: once an
operator deletes rows, a deposit that matches none takes its place in the order
at its UPDATE and not at its commit, and `Ledger` does not describe that.
`MoneyArrives` is proved with `Wellkept` and checked, in `Operator`, without it.

## 5. Not modelled

- `src/server/CMakeFiles/3.31.6/CompilerIdC` and `CompilerIdCXX`: probes that
  CMake generates to identify the compiler, checked in with the build directory.
  They are preprocessor tests, not part of the program. `server.cpp` is the
  whole program of the server, and every line of it that does something is
  modelled; what is left are includes, comments and headers of responses.
- `src/server/external/websocketpp`: vendored, and not included by `server.cpp`.
- Build files and certificates; `Home.js`, `index.js`, `reportWebVitals.js`,
  `setupTests.js`: no state and no handler.
- The type of the column `balance`, and so the rounding of a `double`
  (hazard at `server.cpp:292`): no schema is in the repository.
- The second run of effects that `StrictMode` makes in development builds.
- Limits on threads and database connections: there are none in the code;
  exhaustion shows as the error paths that every run includes.

## 6. State of the plan

Done: the server and its safety theorems, the refinement of `Ledger`, the client
over `Ledger` with its runs and theorems, conservation of money on both sides.

Left: the two properties of liveness rest on facts of safety that can be proved
although their conclusion cannot, such as that a thread which has read a request
can always move, or waits for one that can. What would extend the model itself
needs something that the repository does not have: a schema (isolation,
constraints, type of the balance), or auctions, which neither the server nor the
client contains yet.
