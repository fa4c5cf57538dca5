------------------------------ MODULE UsersTable ------------------------------
(***************************************************************************)
(* The users table of the YugabyteDB cluster, seen through the libpqxx     *)
(* transactions that server.cpp opens on it.  The database is not part of  *)
(* the repository: this module says what the handlers rely on, and leaves  *)
(* as constants what the repository does not determine (the isolation      *)
(* level behind pqxx::work, and the constraints of the schema).            *)
(*                                                                         *)
(* A row version is a record.  "id" is user_id, "writer" the transaction   *)
(* that wrote the version (the xmin column).  Every connection runs at     *)
(* most one transaction, so a connection names its transaction, and also   *)
(* the row it inserts: it stands for the next value of the id sequence.    *)
(***************************************************************************)
EXTENDS Messages

CONSTANTS
    Connections,     \* the TCP connections, each served by a thread of its own
    InitialUsers,    \* the rows present when the server starts
    DefaultBalance,  \* the default of column "balance"; INSERT does not name it
    Isolation,       \* what the cluster runs for BEGIN without a level
    UniqueUsername,  \* is there a UNIQUE constraint on "username"?
    BalanceCheck     \* is there a CHECK (balance >= 0)?

RowIds == {r.id : r \in InitialUsers} \cup Connections

Row == [id : RowIds, username : Usernames, password : Passwords,
        balance : Int, writer : RowIds]

RowsOf(table, u) == {r \in table : r.username = u}

ASSUME TableAssumption ==
    /\ DefaultBalance \in Nat
    /\ Isolation \in {"readCommitted", "snapshot"}
    /\ UniqueUsername \in BOOLEAN
    /\ BalanceCheck \in BOOLEAN

\* The rows the server starts with satisfy the constraints, have ids of their
\* own, and owe nothing.
ASSUME InitialUsersAssumption ==
    /\ InitialUsers \subseteq Row
    /\ \A r \in InitialUsers : r.id \notin Connections /\ r.balance >= 0
    /\ \A r, s \in InitialUsers : r.id = s.id => r = s
    /\ UniqueUsername =>
          \A r, s \in InitialUsers : r.username = s.username => r = s

VARIABLES
    users,      \* the committed row versions
    inTxn,      \* the connections whose transaction has run a statement
    snapshot,   \* snapshot[c]: the rows committed when c ran its first SELECT
    pending,    \* pending[c]: the versions c has written and not committed
    committed   \* the commit log: the connections whose transaction committed

tableVars == <<users, inTxn, snapshot, pending, committed>>

TableTypeOK ==
    /\ users \subseteq Row
    /\ inTxn \subseteq Connections
    /\ snapshot \in [Connections -> SUBSET Row]
    /\ pending \in [Connections -> SUBSET Row]
    /\ committed \subseteq Connections

TableInit ==
    /\ users = InitialUsers
    /\ inTxn = {}
    /\ snapshot = [c \in Connections |-> {}]
    /\ pending = [c \in Connections |-> {}]
    /\ committed = {}
-------------------------------------------------------------------------------
(***************************************************************************)
(* Statements.                                                             *)
(***************************************************************************)

\* What a statement of c reads: the latest committed rows, or what its first
\* SELECT saw when transactions run under snapshot isolation.
Visible(c) ==
    IF Isolation = "snapshot" /\ c \in inTxn THEN snapshot[c] ELSE users

\* Mutant: the SELECT runs in a transaction of its own.
SelectAlone(c) == c \in Connections /\ UNCHANGED tableVars

\* The first SELECT of a transaction that goes on to write.
BeginWithSelect(c) ==
    /\ inTxn' = inTxn \cup {c}
    /\ snapshot' = [snapshot EXCEPT ![c] = users]
    /\ UNCHANGED <<users, pending, committed>>

\* Another transaction holds the lock of one of these rows.
Locked(c, rows) ==
    \E d \in Connections \ {c} : \E p \in pending[d] : \E r \in rows : p.id = r.id

\* The database raises an error: a row was replaced or removed since the
\* snapshot was taken, or a new version breaks the CHECK.
UpdateRejected(rows, versions) ==
    \/ ~ (rows \subseteq users)
    \/ BalanceCheck /\ \E v \in versions : v.balance < 0

WriteVersions(c, versions) ==
    /\ inTxn' = inTxn \cup {c}
    /\ pending' = [pending EXCEPT ![c] = versions]
    /\ UNCHANGED <<users, snapshot, committed>>

\* Another transaction has inserted this username and not yet ended: with the
\* UNIQUE constraint an INSERT waits for it.
KeyClaimed(c, u) ==
    /\ UniqueUsername
    /\ \E d \in Connections \ {c} : \E p \in pending[d] : p.id = d /\ p.username = u

InsertRejected(u) == UniqueUsername /\ RowsOf(users, u) # {}
-------------------------------------------------------------------------------
(***************************************************************************)
(* The end of a transaction.                                               *)
(***************************************************************************)

EndTxn(c) ==
    /\ inTxn' = inTxn \ {c}
    /\ snapshot' = [snapshot EXCEPT ![c] = {}]
    /\ pending' = [pending EXCEPT ![c] = {}]

Superseded(c) == {r \in users : \E p \in pending[c] : p.id = r.id}

CommitTxn(c) ==
    /\ users' = (users \ Superseded(c)) \cup pending[c]
    /\ committed' = committed \cup {c}
    /\ EndTxn(c)

Rollback(c) ==
    /\ EndTxn(c)
    /\ UNCHANGED <<users, committed>>

\* An operator deletes an account by hand.  No code under src/ does, but the
\* handlers answer 404 "User not found" to a token that outlived its row.
DeleteUser(u) ==
    /\ RowsOf(users, u) # {}
    /\ \A c \in Connections : \A p \in pending[c] : \A r \in RowsOf(users, u) : p.id # r.id
    /\ users' = users \ RowsOf(users, u)
    /\ UNCHANGED <<inTxn, snapshot, pending, committed>>
===============================================================================
