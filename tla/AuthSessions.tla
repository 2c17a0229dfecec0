---------------------------- MODULE AuthSessions ----------------------------
(***************************************************************************)
(* Registration, login with its rate limit, rotation of refresh tokens and *)
(* logout: AuthService with its repositories, and the cookies its router   *)
(* sets.                                                                   *)
(*                                                                         *)
(* A client is a browser: what it presents are the refresh token and the   *)
(* access token of its cookie jar, and its tabs may send several requests  *)
(* at a time.  An access token is signed, not stored, and what matters of  *)
(* it is whether the browser has one that is not past its exp.  As in      *)
(* Groups, a request runs statement by statement and others run between    *)
(* its statements; between two awaits nothing else runs, so the limiter's  *)
(* reads and writes are part of the statement before them.                 *)
(***************************************************************************)
EXTENDS Naturals, FiniteSets, RowStore

CONSTANTS Clients, Emails, Tokens,
          LoginMax,       \* _RATE_LIMIT_MAX_ATTEMPTS
          None            \* no client, no email, no token

ASSUME AuthAssumption == LoginMax \in Nat /\ None \notin Tokens

VARIABLES req,            \* the request each of Reqs works on
          failed,         \* failed logins of an email in the window
          expired,        \* the tokens whose expires_at is in the past
          jar,            \* the refresh token in a client's cookie
          access,         \* the clients with an access token in theirs
          line,           \* history: the tokens a token was rotated from
          out             \* history: the live tokens a logout revoked

vars == <<db, latest, lock, share, req, failed, expired, jar, access, line, out>>

cookies == <<jar, access>>
history == <<line, out>>

-----------------------------------------------------------------------------

User(e) == <<"user", e>>
Token(t) == <<"token", t>>

Rows == {User(e) : e \in Emails} \union {Token(t) : t \in Tokens}

Live == "live"
Revoked == "revoked"
Values == {Absent, Live, Revoked}

-----------------------------------------------------------------------------
(* Requests.  token is the one the client presents, fresh the one that     *)
(* this request would generate.                                            *)

Statements == {"insert user", "select user", "revoke", "insert token", "commit", "done"}
Success == 200
Statuses == {Success, 401, 409, 429}

Call(o, c, e, t, f, next, s) ==
  [op |-> o, client |-> c, email |-> e, token |-> t, fresh |-> f, pc |-> next, status |-> s]

Idle == Call("none", None, None, None, None, "idle", 0)

Requests == {Idle} \union
  [op : {"register", "login", "refresh", "logout", "me"}, client : Clients \union {None},
   email : Emails \union {None}, token : Tokens \union {None},
   fresh : Tokens \union {None}, pc : Statements, status : Statuses \union {0}]

At(c, next, s) == Call(c.op, c.client, c.email, c.token, c.fresh, next, s)

Goto(r, next) == req' = [req EXCEPT ![r] = At(@, next, 0)]
Reply(r, s) == req' = [req EXCEPT ![r] = At(@, "done", s)]

Starts(r, c) == req[r].pc = "idle" /\ req' = [req EXCEPT ![r] = c]

(* generate_opaque_token never repeats itself, and nobody knows its result *)
(* before.                                                                 *)
Unused(t) ==
  /\ db[Token(t)] = Absent /\ lock[Token(t)] = NoReq
  /\ \A r \in Reqs : req[r].fresh # t

Blockers(r) ==
  CASE req[r].pc = "insert user" -> Writers(r, User(req[r].email))
    [] req[r].pc = "revoke"      -> Writers(r, Token(req[r].token))
    [] OTHER                     -> {}

Ready(r, s) == req[r].pc = s /\ Blockers(r) = {}

-----------------------------------------------------------------------------
(* register.  The password is hashed before the first statement.           *)

BeginRegister(r, e) ==
  /\ Starts(r, Call("register", None, e, None, None, "insert user", 0))
  /\ UNCHANGED <<store, failed, expired, cookies, history>>

(* Mutant: the email is not unique.                                        *)
RegisterTwice(r) ==
  /\ Ready(r, "insert user")
  /\ Write(r, User(req[r].email), Live)
  /\ Goto(r, "commit")
  /\ UNCHANGED <<share, failed, expired, cookies, history>>

(* The unique email: a second registration waits for the first and is then *)
(* refused.                                                                *)
InsertUser(r) ==
  LET row == User(req[r].email) IN
  /\ Ready(r, "insert user")
  /\ UNCHANGED <<failed, expired, cookies, history>>
  /\ \/ Found(r, row) # Absent /\ Rollback(r) /\ Reply(r, 409)
     \/ Found(r, row) = Absent /\ Write(r, row, Live) /\ Goto(r, "commit") /\ UNCHANGED share

-----------------------------------------------------------------------------
(* authenticate.                                                           *)

(* Mutant: the limit is one too high.                                      *)
LimitOneLate(e) == failed[e] > LoginMax

LimitReached(e) == failed[e] >= LoginMax

BeginLogin(r, c, e, f) ==
  /\ Unused(f)
  /\ \/ LimitReached(e) /\ Starts(r, Call("login", c, e, None, f, "done", 429))
     \/ ~LimitReached(e) /\ Starts(r, Call("login", c, e, None, f, "select user", 0))
  /\ UNCHANGED <<store, failed, expired, cookies, history>>

(* The password is checked as soon as the row is there: wrong, or right.   *)
SelectUser(r) ==
  LET e == req[r].email IN
  /\ req[r].pc = "select user"
  /\ UNCHANGED <<store, expired, cookies, history>>
  /\ \/ /\ failed' = [failed EXCEPT ![e] = @ + 1]
        /\ Reply(r, 401)
     \/ /\ db[User(e)] = Live
        /\ failed' = [failed EXCEPT ![e] = 0]
        /\ Goto(r, "insert token")

InsertToken(r) ==
  /\ req[r].pc = "insert token"
  /\ Write(r, Token(req[r].fresh), Live)
  /\ Goto(r, "commit")
  /\ line' = [line EXCEPT ![req[r].fresh] =
                IF req[r].op = "refresh" THEN line[req[r].token] \union {req[r].token} ELSE {}]
  /\ UNCHANGED <<share, failed, expired, cookies, out>>

-----------------------------------------------------------------------------
(* refresh and logout.                                                     *)

BeginRefresh(r, c, f) ==
  LET t == jar[c]
      valid == t # None /\ db[Token(t)] = Live /\ t \notin expired
  IN
  /\ Unused(f)
  /\ \/ valid /\ Starts(r, Call("refresh", c, None, t, f, "revoke", 0))
     \/ ~valid /\ Starts(r, Call("refresh", c, None, t, f, "done", 401))
  /\ UNCHANGED <<store, failed, expired, cookies, history>>

BeginLogout(r, c) ==
  LET t == jar[c]
      known == t # None /\ db[Token(t)] # Absent
  IN
  /\ \/ known /\ Starts(r, Call("logout", c, None, t, None, "revoke", 0))
     \/ ~known /\ Starts(r, Call("logout", c, None, t, None, "done", Success))
  /\ UNCHANGED <<store, failed, expired, cookies, history>>

(* Mutant: refresh issues a token without revoking the old one.            *)
RevokeNothing(r) ==
  /\ Ready(r, "revoke")
  /\ Goto(r, IF req[r].op = "refresh" THEN "insert token" ELSE "commit")
  /\ UNCHANGED <<store, failed, expired, cookies, history>>

(* Mutant: the revocation commits by itself.                               *)
RevokeCommits(r) ==
  LET row == Token(req[r].token) IN
  /\ Ready(r, "revoke")
  /\ db' = [db EXCEPT ![row] = Revoked]
  /\ latest' = [latest EXCEPT ![row] = Revoked]
  /\ Goto(r, IF req[r].op = "refresh" THEN "insert token" ELSE "commit")
  /\ UNCHANGED <<lock, share, failed, expired, cookies, history>>

RevokeToken(r) ==
  /\ Ready(r, "revoke")
  /\ Update(r, Token(req[r].token), Revoked)
  /\ Goto(r, IF req[r].op = "refresh" THEN "insert token" ELSE "commit")
  /\ UNCHANGED <<share, failed, expired, cookies, history>>

-----------------------------------------------------------------------------

CommitRequest(r) ==
  LET t == req[r].token
      ends == req[r].op = "logout" /\ db[Token(t)] = Live
  IN
  /\ req[r].pc = "commit"
  /\ Commit(r)
  /\ Reply(r, Success)
  /\ out' = IF ends THEN out \union {t} ELSE out
  /\ UNCHANGED <<failed, expired, cookies, line>>

(* /me, and every route that asks for the current user: the user is read   *)
(* by the id in the token.  Users are never deleted.                       *)
BeginMe(r, c) ==
  /\ \/ c \in access /\ Starts(r, Call("me", c, None, None, None, "done", Success))
     \/ c \notin access /\ Starts(r, Call("me", c, None, None, None, "done", 401))
  /\ UNCHANGED <<store, failed, expired, cookies, history>>

(* Mutant: logout leaves the access token to its exp.                      *)
LogoutKeepsAccess(a) ==
  CASE a.status = Success /\ a.op \in {"login", "refresh"} ->
         jar' = [jar EXCEPT ![a.client] = a.fresh] /\ access' = access \union {a.client}
    [] a.status = Success /\ a.op = "logout" ->
         jar' = [jar EXCEPT ![a.client] = None] /\ access' = access
    [] OTHER -> UNCHANGED cookies

(* The cookies of an answer: those of a login or a refresh replace the     *)
(* client's, and a logout deletes both.                                    *)
SetCookies(a) ==
  CASE a.status = Success /\ a.op \in {"login", "refresh"} ->
         jar' = [jar EXCEPT ![a.client] = a.fresh] /\ access' = access \union {a.client}
    [] a.status = Success /\ a.op = "logout" ->
         jar' = [jar EXCEPT ![a.client] = None] /\ access' = access \ {a.client}
    [] OTHER -> UNCHANGED cookies

(* The answer reaches the client, in any order.                            *)
Respond(r) ==
  /\ req[r].pc = "done"
  /\ SetCookies(req[r])
  /\ req' = [req EXCEPT ![r] = Idle]
  /\ UNCHANGED <<store, failed, expired, history>>

(* The client gave up waiting, or the connection broke.                    *)
LoseAnswer(r) ==
  /\ req[r].pc = "done"
  /\ req' = [req EXCEPT ![r] = Idle]
  /\ UNCHANGED <<store, failed, expired, cookies, history>>

(* Mutant: an attempt that is not there leaves the window.                 *)
AgesTooFar(e) ==
  /\ failed' = [failed EXCEPT ![e] = @ - 1]
  /\ UNCHANGED <<store, req, expired, cookies, history>>

(* An attempt leaves the window; a token gets past its expires_at.         *)
AttemptAges(e) ==
  /\ failed[e] > 0
  /\ failed' = [failed EXCEPT ![e] = @ - 1]
  /\ UNCHANGED <<store, req, expired, cookies, history>>

TokenExpires(t) ==
  /\ db[Token(t)] # Absent
  /\ t \notin expired
  /\ expired' = expired \union {t}
  /\ UNCHANGED <<store, req, failed, cookies, history>>

(* The access token gets past its exp, and its cookie past its max_age.    *)
AccessExpires(c) ==
  /\ c \in access
  /\ access' = access \ {c}
  /\ UNCHANGED <<store, req, failed, expired, jar, history>>

(* The server stops and starts again: the limiter is empty, and answers    *)
(* that were on their way are lost.                                        *)
Restart ==
  /\ RollbackAll
  /\ req' = [r \in Reqs |-> Idle]
  /\ failed' = [e \in Emails |-> 0]
  /\ UNCHANGED <<expired, cookies, history>>

-----------------------------------------------------------------------------

Init ==
  /\ db = [x \in Rows |-> Absent]
  /\ latest = db
  /\ lock = [x \in Rows |-> NoReq]
  /\ share = [x \in Rows |-> {}]
  /\ req = [r \in Reqs |-> Idle]
  /\ failed = [e \in Emails |-> 0]
  /\ expired = {}
  /\ jar = [c \in Clients |-> None]
  /\ access = {}
  /\ line = [t \in Tokens |-> {}]
  /\ out = {}

Arrive(r) ==
  \/ \E e \in Emails : BeginRegister(r, e)
  \/ \E c \in Clients, e \in Emails, f \in Tokens : BeginLogin(r, c, e, f)
  \/ \E c \in Clients, f \in Tokens : BeginRefresh(r, c, f)
  \/ \E c \in Clients : BeginLogout(r, c) \/ BeginMe(r, c)

Proceed(r) ==
  \/ InsertUser(r) \/ SelectUser(r) \/ InsertToken(r) \/ RevokeToken(r)
  \/ CommitRequest(r) \/ Respond(r) \/ LoseAnswer(r)

Next == \/ \E r \in Reqs : Arrive(r) \/ Proceed(r)
        \/ \E e \in Emails : AttemptAges(e)
        \/ \E t \in Tokens : TokenExpires(t)
        \/ \E c \in Clients : AccessExpires(c)
        \/ Restart

Spec == Init /\ [][Next]_vars

-----------------------------------------------------------------------------
(* Properties.                                                             *)

(* Every variable stays in its type: rows, requests, limiter, cookies.     *)
TypeOK ==
  /\ StoreType(Rows, Values)
  /\ req \in [Reqs -> Requests]
  /\ failed \in [Emails -> Nat]
  /\ expired \in SUBSET Tokens
  /\ jar \in [Clients -> Tokens \union {None}]
  /\ access \subseteq Clients
  /\ line \in [Tokens -> SUBSET Tokens]
  /\ out \in SUBSET Tokens

Committing(r) == req[r].pc = "commit" /\ req'[r].status = Success

(* Rotation spends: every token that a committed token was rotated from is *)
(* revoked, also when several refreshes of one token fork the session.     *)
AncestorsAreSpent ==
  \A t \in Tokens : db[Token(t)] # Absent =>
    \A a \in line[t] : db[Token(a)] = Revoked

(* A session is handed on, never dropped: a token stops being live only by *)
(* a logout, or in the commit that makes its successor live -- a crash in  *)
(* the middle of a refresh leaves the old token good.                      *)
SessionIsHandedOn ==
  [][\A t \in Tokens :
       db[Token(t)] = Live /\ db'[Token(t)] # Live =>
         \E r \in Reqs :
           /\ Committing(r) /\ req[r].token = t
           /\ req[r].op = "logout" \/ db'[Token(req[r].fresh)] = Live]_vars

(* A browser that is let in has a refresh token that is committed: no      *)
(* answer is sent before its commit, and no order of late answers, lost    *)
(* ones and restarts leaves an access token without the session it came    *)
(* with.                                                                   *)
AccessHasSession ==
  \A c \in access : jar[c] # None /\ db[Token(jar[c])] # Absent

(* Logins that are under way together check the limit before any of them   *)
(* has failed, and get past it by no more than their number.               *)
LoginBurstBound == \A e \in Emails : failed[e] < LoginMax + Cardinality(Reqs)

(* Of two registrations of one email that overlap one is answered with a   *)
(* success, the one that made the account.                                 *)
OneRegistration ==
  [][\A r \in Reqs : Committing(r) /\ req[r].op = "register"
                       => db[User(req[r].email)] = Absent]_vars

(* "Real revocation at logout": once a live token was logged out, no token *)
(* rotated from it is live.                                                *)
LogoutIsFinal ==
  \A t \in Tokens : db[Token(t)] = Live => line[t] \intersect out = {}
=============================================================================
