------------------------------- MODULE Messages -------------------------------
(***************************************************************************)
(* What travels between the web client and server.cpp: the tokens, the     *)
(* requests with their JSON bodies, and the responses.  A record keeps the *)
(* fields that the handlers read; headers, wording and layout are left     *)
(* out.  Amounts and balances are integers, in cents.                      *)
(***************************************************************************)
EXTENDS Integers

CONSTANTS
    Usernames,
    Passwords,
    Empty            \* the empty string

\* The routes of do_session, by the last word of their path; a POST or a GET of
\* a path that it does not know; any other method.
CredentialTargets == {"register", "login"}
MoneyTargets == {"deposit", "withdraw"}
TokenTargets == MoneyTargets \cup {"profile"}
UnknownTargets == {"otherPost", "otherGet"}
AllTargets == CredentialTargets \cup TokenTargets \cup UnknownTargets \cup {"otherMethod"}

\* A token as extract_token and verify_jwt_token tell them apart: no usable
\* Authorization header, a string that does not verify, or a signed JWT.
Token == [kind : {"none", "garbage", "signed"},
          username : Usernames \cup {Empty}, exp : Int]
NoToken == [kind |-> "none", username |-> Empty, exp |-> 0]
GarbageToken == [kind |-> "garbage", username |-> Empty, exp |-> 0]

\* wellFormed: json::parse and the typed field accesses succeed.
Request == [target : AllTargets, token : Token, username : Usernames \cup {Empty},
            password : Passwords \cup {Empty}, amount : Int, wellFormed : BOOLEAN]
NoRequest == [target |-> "otherMethod", token |-> NoToken, username |-> Empty,
              password |-> Empty, amount |-> 0, wellFormed |-> FALSE]

Statuses == {200, 400, 401, 404, 405, 500}
Response == [status : Statuses \cup {0}, balance : Int, token : Token]
NoResponse == [status |-> 0, balance |-> 0, token |-> NoToken]

\* A response whose body is a message.
make_response(status) == [status |-> status, balance |-> 0, token |-> NoToken]

\* The account that a request is about: the claim of its token, or the
\* username in its body.
Account(q) == IF q.target \in TokenTargets THEN q.token.username ELSE q.username

\* What a request adds to the balance of its account.
Delta(q) ==
    CASE q.target = "deposit"  -> q.amount
      [] q.target = "withdraw" -> 0 - q.amount
      [] OTHER -> 0
===============================================================================
