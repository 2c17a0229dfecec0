------------------------- MODULE AuthSessionsProofs -------------------------
(***************************************************************************)
(* What holds of the sessions for any number of overlapping requests,      *)
(* clients, accounts and tokens.                                           *)
(***************************************************************************)
EXTENDS AuthSessions, RowStoreProofs, FiniteSetTheorems

(* The rows of the two tables are rows of the store, and a token's row is  *)
(* nobody else's.                                                          *)
LEMMA TokenRows ==
  /\ \A t \in Tokens : Token(t) \in Rows
  /\ \A e \in Emails : User(e) \in Rows
  /\ \A t, u : Token(t) = Token(u) => t = u
  /\ \A t, e : Token(t) # User(e)
BY DEF Rows, Token, User

(* The values the statements write are values of the rows.                 *)
LEMMA ValueTypes == Absent \in Values /\ Live \in Values /\ Revoked \in Values
                      /\ Live # Absent /\ Revoked # Absent /\ Live # Revoked
BY DEF Values, Absent, Live, Revoked

(* The statements and statuses the actions name.                           *)
LEMMA Names ==
  /\ "insert user" \in Statements /\ "select user" \in Statements /\ "revoke" \in Statements
  /\ "insert token" \in Statements /\ "commit" \in Statements /\ "done" \in Statements
  /\ Success \in Statuses /\ 401 \in Statuses /\ 409 \in Statuses /\ 429 \in Statuses
  /\ \A s \in Statuses : s # 0
BY DEF Statements, Statuses, Success

-----------------------------------------------------------------------------
(* Requests.                                                               *)

(* What the operation and the statement of a request say of its fields.    *)
Fits(c) ==
  /\ c.op \in {"login", "refresh", "logout"} => c.client \in Clients
  /\ c.op \in {"login", "refresh"} => c.fresh \in Tokens
  /\ c.op \in {"refresh", "logout"} /\ c.pc \in {"revoke", "insert token", "commit"}
       => c.token \in Tokens
  /\ c.pc = "insert user" => c.op = "register"
  /\ c.pc = "select user" => c.op = "login" /\ c.email \in Emails
  /\ c.pc = "insert token" => c.op \in {"login", "refresh"}
  /\ c.pc = "revoke" => c.op \in {"refresh", "logout"}

TypeInv == TypeOK /\ \A r \in Reqs : Fits(req[r])

(* A slot without a request is well typed, and fits.                       *)
LEMMA IdleType == Idle \in Requests /\ Fits(Idle) /\ Idle.pc = "idle" /\ Idle.fresh = None
BY DEF Requests, Idle, Call, Fits

(* A request that is under way has its operation and its fields.           *)
LEMMA UnderWay ==
  ASSUME TypeOK, NEW r \in Reqs, req[r].pc # "idle"
  PROVE  req[r] \in [op : {"register", "login", "refresh", "logout", "me"},
                     client : Clients \union {None}, email : Emails \union {None},
                     token : Tokens \union {None}, fresh : Tokens \union {None},
                     pc : Statements, status : Statuses \union {0}]
BY IdleType DEF TypeOK, Requests

(* A step to the next statement, or to the answer, changes nothing else of *)
(* the request.                                                            *)
LEMMA MoveOn ==
  ASSUME TypeOK, NEW r \in Reqs, req[r].pc # "idle",
         NEW next \in Statements, NEW s \in Statuses \union {0},
         req' = [req EXCEPT ![r] = At(@, next, s)]
  PROVE  /\ req' \in [Reqs -> Requests]
         /\ req'[r].op = req[r].op /\ req'[r].client = req[r].client
         /\ req'[r].email = req[r].email /\ req'[r].token = req[r].token
         /\ req'[r].fresh = req[r].fresh
         /\ req'[r].pc = next /\ req'[r].status = s
         /\ \A q \in Reqs \ {r} : req'[q] = req[q]
<1>1. At(req[r], next, s) \in Requests
  BY UnderWay DEF At, Call, Requests
<1> QED
  BY <1>1 DEF TypeOK, At, Call

(* A new request is the one the step names.                                *)
LEMMA Started ==
  ASSUME TypeOK, NEW r \in Reqs, NEW c \in Requests, Starts(r, c)
  PROVE  /\ req' \in [Reqs -> Requests] /\ req'[r] = c
         /\ \A q \in Reqs \ {r} : req'[q] = req[q]
BY DEF TypeOK, Starts

(* The requests of the slots keep their types when one moves on.           *)
LEMMA MoveType ==
  ASSUME TypeInv, NEW r \in Reqs, req[r].pc # "idle",
         NEW next \in Statements, NEW s \in Statuses \union {0},
         req' = [req EXCEPT ![r] = At(@, next, s)], Fits(At(req[r], next, s))
  PROVE  req' \in [Reqs -> Requests] /\ \A q \in Reqs : Fits(req'[q])
<1>1. req' \in [Reqs -> Requests] /\ \A q \in Reqs \ {r} : req'[q] = req[q]
  BY MoveOn DEF TypeInv
<1>2. req'[r] = At(req[r], next, s)
  BY DEF TypeInv, TypeOK
<1> QED
  BY <1>1, <1>2 DEF TypeInv

(* The answer of a request fits it, whatever it is.                        *)
LEMMA ReplyType ==
  ASSUME TypeInv, NEW r \in Reqs, req[r].pc # "idle", NEW s \in Statuses, Reply(r, s)
  PROVE  req' \in [Reqs -> Requests] /\ \A q \in Reqs : Fits(req'[q])
<1>1. Fits(At(req[r], "done", s))
  BY DEF TypeInv, Fits, At, Call
<1> QED
  BY <1>1, MoveType, Names DEF Reply

(* So does the next statement when it is one of the request's operation.   *)
LEMMA GotoType ==
  ASSUME TypeInv, NEW r \in Reqs, req[r].pc # "idle", NEW next \in Statements,
         Goto(r, next), Fits(At(req[r], next, 0))
  PROVE  req' \in [Reqs -> Requests] /\ \A q \in Reqs : Fits(req'[q])
BY MoveType DEF Goto

-----------------------------------------------------------------------------
(* The type invariant: one lemma per shape of a step, then per action.     *)

(* A new request keeps it.                                                 *)
LEMMA StartType ==
  ASSUME TypeInv, NEW r \in Reqs, NEW c \in Requests, Fits(c), Starts(r, c),
         UNCHANGED <<store, failed, expired, cookies, history>>
  PROVE  TypeInv'
<1>1. StoreType(Rows, Values)'
  BY StoreUnchanged DEF TypeInv, TypeOK
<1>2. req' \in [Reqs -> Requests] /\ \A q \in Reqs : Fits(req'[q])
  BY Started DEF TypeInv
<1> QED
  BY <1>1, <1>2 DEF TypeInv, TypeOK, cookies, history

(* The actions a request begins with.                                      *)
LEMMA ArriveType ==
  ASSUME TypeInv, NEW r \in Reqs, Arrive(r)
  PROVE  TypeInv'
<1>1. CASE \E e \in Emails : BeginRegister(r, e)
  <2>1. PICK e \in Emails : BeginRegister(r, e)
    BY <1>1
  <2> DEFINE c == Call("register", None, e, None, None, "insert user", 0)
  <2>2. c \in Requests /\ Fits(c)
    BY DEF Call, Requests, Statements, Statuses, Success, Fits
  <2> QED
    BY <2>1, <2>2, StartType DEF BeginRegister
<1>2. CASE \E c \in Clients, e \in Emails, f \in Tokens : BeginLogin(r, c, e, f)
  <2>1. PICK c \in Clients, e \in Emails, f \in Tokens : BeginLogin(r, c, e, f)
    BY <1>2
  <2> DEFINE refused == Call("login", c, e, None, f, "done", 429)
             begun == Call("login", c, e, None, f, "select user", 0)
  <2>2. refused \in Requests /\ Fits(refused) /\ begun \in Requests /\ Fits(begun)
    BY DEF Call, Requests, Statements, Statuses, Success, Fits
  <2> QED
    BY <2>1, <2>2, StartType DEF BeginLogin
<1>3. CASE \E c \in Clients, f \in Tokens : BeginRefresh(r, c, f)
  <2>1. PICK c \in Clients, f \in Tokens : BeginRefresh(r, c, f)
    BY <1>3
  <2> DEFINE refused == Call("refresh", c, None, jar[c], f, "done", 401)
             begun == Call("refresh", c, None, jar[c], f, "revoke", 0)
  <2>2. jar[c] \in Tokens \union {None}
    BY DEF TypeInv, TypeOK
  <2>3. refused \in Requests /\ Fits(refused)
    BY <2>2 DEF Call, Requests, Statements, Statuses, Success, Fits
  <2>4. jar[c] # None => begun \in Requests /\ Fits(begun)
    BY <2>2 DEF Call, Requests, Statements, Statuses, Success, Fits
  <2> QED
    BY <2>1, <2>3, <2>4, StartType DEF BeginRefresh
<1>4. CASE \E c \in Clients : BeginLogout(r, c)
  <2>1. PICK c \in Clients : BeginLogout(r, c)
    BY <1>4
  <2> DEFINE nothing == Call("logout", c, None, jar[c], None, "done", Success)
             begun == Call("logout", c, None, jar[c], None, "revoke", 0)
  <2>2. jar[c] \in Tokens \union {None}
    BY DEF TypeInv, TypeOK
  <2>3. nothing \in Requests /\ Fits(nothing)
    BY <2>2 DEF Call, Requests, Statements, Statuses, Success, Fits
  <2>4. jar[c] # None => begun \in Requests /\ Fits(begun)
    BY <2>2 DEF Call, Requests, Statements, Statuses, Success, Fits
  <2> QED
    BY <2>1, <2>3, <2>4, StartType DEF BeginLogout
<1>5. CASE \E c \in Clients : BeginMe(r, c)
  <2>1. PICK c \in Clients : BeginMe(r, c)
    BY <1>5
  <2> DEFINE in == Call("me", c, None, None, None, "done", Success)
             out401 == Call("me", c, None, None, None, "done", 401)
  <2>2. in \in Requests /\ Fits(in) /\ out401 \in Requests /\ Fits(out401)
    BY DEF Call, Requests, Statements, Statuses, Success, Fits
  <2> QED
    BY <2>1, <2>2, StartType DEF BeginMe
<1> QED
  BY <1>1, <1>2, <1>3, <1>4, <1>5 DEF Arrive

(* The statements of a request that is under way.                          *)
LEMMA StatementType ==
  ASSUME TypeInv, NEW r \in Reqs,
         \/ InsertUser(r) \/ SelectUser(r) \/ InsertToken(r) \/ RevokeToken(r)
         \/ CommitRequest(r)
  PROVE  TypeInv'
<1> USE DEF TypeInv
<1>1. CASE InsertUser(r)
  <2>1. req[r].pc = "insert user"
    BY <1>1 DEF InsertUser, Ready
  <2>2. StoreType(Rows, Values)'
    BY <1>1, WriteType, RollbackType, ValueTypes DEF InsertUser, TypeOK
  <2>3. Fits(At(req[r], "commit", 0))
    BY <2>1 DEF Fits, At, Call
  <2>4. req' \in [Reqs -> Requests] /\ \A q \in Reqs : Fits(req'[q])
    BY <1>1, <2>1, Names, ReplyType, GotoType, <2>3 DEF InsertUser
  <2> QED
    BY <1>1, <2>2, <2>4 DEF InsertUser, TypeOK, cookies, history
<1>2. CASE SelectUser(r)
  <2>1. req[r].pc = "select user"
    BY <1>2 DEF SelectUser
  <2>2. StoreType(Rows, Values)'
    BY <1>2, StoreUnchanged DEF SelectUser, TypeOK
  <2>3. Fits(At(req[r], "insert token", 0))
    BY <2>1 DEF Fits, At, Call
  <2>4. req' \in [Reqs -> Requests] /\ \A q \in Reqs : Fits(req'[q])
    BY <1>2, <2>1, Names, ReplyType, GotoType, <2>3 DEF SelectUser
  <2>5. failed' \in [Emails -> Nat]
    <3>1. req[r].email \in Emails
      BY <2>1 DEF Fits
    <3>2. failed \in [Emails -> Nat]
      BY DEF TypeOK
    <3>3. CASE failed' = [failed EXCEPT ![req[r].email] = @ + 1]
      BY <3>1, <3>2, <3>3
    <3>4. CASE failed' = [failed EXCEPT ![req[r].email] = 0]
      BY <3>2, <3>4
    <3> QED
      BY <1>2, <3>3, <3>4 DEF SelectUser
  <2> QED
    BY <1>2, <2>2, <2>4, <2>5 DEF SelectUser, TypeOK, cookies, history
<1>3. CASE InsertToken(r)
  <2>1. req[r].pc = "insert token"
    BY <1>3 DEF InsertToken
  <2>2. StoreType(Rows, Values)'
    BY <1>3, WriteType, ValueTypes DEF InsertToken, TypeOK
  <2>3. Fits(At(req[r], "commit", 0))
    BY <2>1 DEF Fits, At, Call
  <2>4. req' \in [Reqs -> Requests] /\ \A q \in Reqs : Fits(req'[q])
    BY <1>3, <2>1, Names, GotoType, <2>3 DEF InsertToken
  <2>5. req[r].op = "refresh" => req[r].token \in Tokens
    BY <2>1 DEF Fits
  <2>6. line' \in [Tokens -> SUBSET Tokens]
    BY <1>3, <2>5 DEF InsertToken, TypeOK
  <2> QED
    BY <1>3, <2>2, <2>4, <2>6 DEF InsertToken, TypeOK, cookies
<1>4. CASE RevokeToken(r)
  <2>1. req[r].pc = "revoke"
    BY <1>4 DEF RevokeToken, Ready
  <2>2. StoreType(Rows, Values)'
    BY <1>4, UpdateType, ValueTypes DEF RevokeToken, TypeOK
  <2>3. req[r].op = "refresh" => Fits(At(req[r], "insert token", 0))
    BY <2>1 DEF Fits, At, Call
  <2>4. req[r].op # "refresh" => Fits(At(req[r], "commit", 0))
    BY <2>1 DEF Fits, At, Call
  <2>5. req' \in [Reqs -> Requests] /\ \A q \in Reqs : Fits(req'[q])
    BY <1>4, <2>1, Names, GotoType, <2>3, <2>4 DEF RevokeToken
  <2> QED
    BY <1>4, <2>2, <2>5 DEF RevokeToken, TypeOK, cookies, history
<1>5. CASE CommitRequest(r)
  <2>1. req[r].pc = "commit"
    BY <1>5 DEF CommitRequest
  <2>2. StoreType(Rows, Values)'
    BY <1>5, CommitType DEF CommitRequest, TypeOK
  <2>3. req' \in [Reqs -> Requests] /\ \A q \in Reqs : Fits(req'[q])
    BY <1>5, <2>1, Names, ReplyType DEF CommitRequest
  <2>4. out' \in SUBSET Tokens
    BY <1>5, <2>1 DEF CommitRequest, TypeOK, Fits
  <2> QED
    BY <1>5, <2>2, <2>3, <2>4 DEF CommitRequest, TypeOK, cookies
<1> QED
  BY <1>1, <1>2, <1>3, <1>4, <1>5

(* The answers, and what time and the server do.                           *)
LEMMA RestType ==
  ASSUME TypeInv,
         \/ \E r \in Reqs : Respond(r) \/ LoseAnswer(r)
         \/ \E e \in Emails : AttemptAges(e)
         \/ \E t \in Tokens : TokenExpires(t)
         \/ \E c \in Clients : AccessExpires(c)
         \/ Restart
  PROVE  TypeInv'
<1> USE DEF TypeInv
<1>1. ASSUME NEW r \in Reqs, Respond(r) PROVE TypeInv'
  <2>1. req[r].pc = "done"
    BY <1>1 DEF Respond
  <2>2. req[r].fresh \in Tokens \union {None} /\ req[r].client \in Clients \union {None}
    BY <2>1, UnderWay
  <2>3. jar' \in [Clients -> Tokens \union {None}] /\ access' \subseteq Clients
    BY <1>1, <2>2 DEF Respond, SetCookies, cookies, TypeOK, Fits
  <2>4. req' \in [Reqs -> Requests] /\ \A q \in Reqs : Fits(req'[q])
    BY <1>1, IdleType DEF Respond, TypeOK
  <2>5. StoreType(Rows, Values)'
    BY <1>1, StoreUnchanged DEF Respond, TypeOK
  <2> QED
    BY <1>1, <2>3, <2>4, <2>5 DEF Respond, TypeOK, history
<1>2. ASSUME NEW r \in Reqs, LoseAnswer(r) PROVE TypeInv'
  <2>1. req' \in [Reqs -> Requests] /\ \A q \in Reqs : Fits(req'[q])
    BY <1>2, IdleType DEF LoseAnswer, TypeOK
  <2>2. StoreType(Rows, Values)'
    BY <1>2, StoreUnchanged DEF LoseAnswer, TypeOK
  <2> QED
    BY <1>2, <2>1, <2>2 DEF LoseAnswer, TypeOK, history, cookies
<1>3. ASSUME NEW e \in Emails, AttemptAges(e) PROVE TypeInv'
  BY <1>3, StoreUnchanged DEF AttemptAges, TypeOK, history, cookies
<1>4. ASSUME NEW t \in Tokens, TokenExpires(t) PROVE TypeInv'
  BY <1>4, StoreUnchanged DEF TokenExpires, TypeOK, history, cookies
<1>5. ASSUME NEW c \in Clients, AccessExpires(c) PROVE TypeInv'
  BY <1>5, StoreUnchanged DEF AccessExpires, TypeOK, history
<1>6. CASE Restart
  <2>1. StoreType(Rows, Values)'
    BY <1>6, RollbackAllType DEF Restart, TypeOK
  <2>2. req' \in [Reqs -> Requests] /\ \A q \in Reqs : Fits(req'[q])
    BY <1>6, IdleType DEF Restart
  <2> QED
    BY <1>6, <2>1, <2>2 DEF Restart, TypeOK, history, cookies
<1> QED
  BY <1>1, <1>2, <1>3, <1>4, <1>5, <1>6

(* No step leaves the types.                                               *)
LEMMA TypeStep ==
  ASSUME TypeInv, [Next]_vars
  PROVE  TypeInv'
<1>1. CASE UNCHANGED vars
  BY <1>1 DEF vars, TypeInv, TypeOK, StoreType
<1>2. CASE Next
  BY <1>2, ArriveType, StatementType, RestType DEF Next, Proceed
<1> QED
  BY <1>1, <1>2

(* The initial state is well typed.                                        *)
LEMMA TypeInit == Init => TypeInv
<1> SUFFICES ASSUME Init PROVE TypeInv
  OBVIOUS
<1>1. StoreType(Rows, Values)
  BY ValueTypes DEF Init, StoreType
<1> QED
  BY <1>1, IdleType DEF Init, TypeInv, TypeOK

(* Requests, limiter, cookies and rows keep their types in every           *)
(* behaviour, and every request has what its next statement needs.         *)
THEOREM TypesHold == Spec => []TypeOK
<1>1. Spec => []TypeInv
  BY TypeInit, TypeStep, PTL DEF Spec
<1> QED
  BY <1>1, PTL DEF TypeInv

-----------------------------------------------------------------------------
(* The sessions.  AncestorsAreSpent is about committed rows and is not     *)
(* inductive: it is the newest version of a successor that comes to be     *)
(* while its ancestor is revoked in the same transaction.                  *)

(* No two requests are about to generate one token.                        *)
Apart == \A q, r \in Reqs : q # r /\ req[q].fresh \in Tokens => req[q].fresh # req[r].fresh

(* A committed token is never taken back.                                  *)
Kept == \A t \in Tokens : db[Token(t)] # Absent => latest[Token(t)] # Absent

(* What a request knows of the rows of its tokens.                         *)
FreshIsNew(r) ==
  req[r].fresh \in Tokens /\ req[r].pc \in {"select user", "revoke", "insert token"} =>
    db[Token(req[r].fresh)] = Absent /\ lock[Token(req[r].fresh)] = NoReq
FreshIsMine(r) ==
  req[r].pc = "commit" /\ req[r].op \in {"login", "refresh"} =>
    lock[Token(req[r].fresh)] = r /\ latest[Token(req[r].fresh)] # Absent
PresentedIsKnown(r) ==
  req[r].pc = "revoke" => db[Token(req[r].token)] # Absent
PresentedIsSpent(r) ==
  req[r].op = "refresh" /\ req[r].pc \in {"insert token", "commit"} =>
    lock[Token(req[r].token)] = r /\ latest[Token(req[r].token)] = Revoked
AnsweredIsCommitted(r) ==
  req[r].pc = "done" /\ req[r].status = Success /\ req[r].op \in {"login", "refresh"} =>
    db[Token(req[r].fresh)] # Absent

KnowsItsRows(r) ==
  /\ FreshIsNew(r) /\ FreshIsMine(r) /\ PresentedIsKnown(r)
  /\ PresentedIsSpent(r) /\ AnsweredIsCommitted(r)

(* The ancestors of every version of a token are revoked, in its own       *)
(* transaction if not before.                                              *)
Spent(t, a) ==
  /\ latest[Token(a)] = Revoked
  /\ \/ db[Token(a)] = Revoked
     \/ /\ db[Token(t)] = Absent
        /\ lock[Token(a)] # NoReq /\ lock[Token(a)] = lock[Token(t)]

Lineage ==
  \A t \in Tokens : latest[Token(t)] # Absent => \A a \in line[t] : Spent(t, a)

SessionInv ==
  /\ TypeInv /\ Clean /\ Apart /\ Kept /\ Lineage
  /\ \A r \in Reqs : KnowsItsRows(r)
  /\ AccessHasSession

(* The part of it that is about the rows of one request holds on when      *)
(* neither the request nor the rows change.                                *)
LEMMA OthersKnow ==
  ASSUME NEW r, KnowsItsRows(r), UNCHANGED <<db, latest, lock>>, req'[r] = req[r]
  PROVE  KnowsItsRows(r)'
BY DEF KnowsItsRows, FreshIsNew, FreshIsMine, PresentedIsKnown, PresentedIsSpent,
       AnsweredIsCommitted

(* So does the part about the rows alone.                                  *)
LEMMA RowsUnchanged ==
  ASSUME SessionInv, UNCHANGED <<store, line>>
  PROVE  Clean' /\ Kept' /\ Lineage'
BY DEF SessionInv, store, Clean, Kept, Lineage, Spent

(* What a new request is like.                                             *)
Newcomer(c) ==
  /\ c.fresh \in Tokens => Unused(c.fresh)
  /\ c.pc \notin {"commit", "insert token"}
  /\ c.pc = "revoke" => db[Token(c.token)] # Absent
  /\ c.pc = "done" /\ c.status = Success => c.op \notin {"login", "refresh"}

(* The actions a request begins with make a newcomer of its slot.          *)
LEMMA Arrivals ==
  ASSUME TypeOK, NEW r \in Reqs, Arrive(r)
  PROVE  Newcomer(req'[r]) /\ \A q \in Reqs \ {r} : req'[q] = req[q]
<1>0. req \in [Reqs -> Requests]
  BY DEF TypeOK
<1>1. ASSUME NEW e \in Emails, BeginRegister(r, e)
      PROVE  Newcomer(req'[r])
  <2>1. req'[r] = Call("register", None, e, None, None, "insert user", 0)
    BY <1>0, <1>1 DEF BeginRegister, Starts
  <2>2. Newcomer(Call("register", None, e, None, None, "insert user", 0))
    BY AuthAssumption DEF Call, Newcomer
  <2> QED
    BY <2>1, <2>2
<1>2. ASSUME NEW c \in Clients, NEW e \in Emails, NEW f \in Tokens, BeginLogin(r, c, e, f)
      PROVE  Newcomer(req'[r])
  <2>1. \/ req'[r] = Call("login", c, e, None, f, "done", 429)
        \/ req'[r] = Call("login", c, e, None, f, "select user", 0)
    BY <1>0, <1>2 DEF BeginLogin, Starts
  <2>2. Unused(f)
    BY <1>2 DEF BeginLogin
  <2>3. /\ Newcomer(Call("login", c, e, None, f, "done", 429))
        /\ Newcomer(Call("login", c, e, None, f, "select user", 0))
    BY <2>2 DEF Call, Newcomer, Success
  <2> QED
    BY <2>1, <2>3
<1>3. ASSUME NEW c \in Clients, NEW f \in Tokens, BeginRefresh(r, c, f)
      PROVE  Newcomer(req'[r])
  <2>1. \/ req'[r] = Call("refresh", c, None, jar[c], f, "done", 401)
        \/ /\ req'[r] = Call("refresh", c, None, jar[c], f, "revoke", 0)
           /\ db[Token(jar[c])] = Live
    BY <1>0, <1>3 DEF BeginRefresh, Starts
  <2>2. Unused(f)
    BY <1>3 DEF BeginRefresh
  <2>3. /\ Newcomer(Call("refresh", c, None, jar[c], f, "done", 401))
        /\ db[Token(jar[c])] = Live =>
             Newcomer(Call("refresh", c, None, jar[c], f, "revoke", 0))
    BY <2>2, ValueTypes DEF Call, Newcomer, Success
  <2> QED
    BY <2>1, <2>3
<1>4. ASSUME NEW c \in Clients, BeginLogout(r, c)
      PROVE  Newcomer(req'[r])
  <2>1. \/ req'[r] = Call("logout", c, None, jar[c], None, "done", Success)
        \/ /\ req'[r] = Call("logout", c, None, jar[c], None, "revoke", 0)
           /\ db[Token(jar[c])] # Absent
    BY <1>0, <1>4 DEF BeginLogout, Starts
  <2>2. /\ Newcomer(Call("logout", c, None, jar[c], None, "done", Success))
        /\ db[Token(jar[c])] # Absent =>
             Newcomer(Call("logout", c, None, jar[c], None, "revoke", 0))
    BY AuthAssumption DEF Call, Newcomer
  <2> QED
    BY <2>1, <2>2
<1>5. ASSUME NEW c \in Clients, BeginMe(r, c)
      PROVE  Newcomer(req'[r])
  <2>1. \/ req'[r] = Call("me", c, None, None, None, "done", Success)
        \/ req'[r] = Call("me", c, None, None, None, "done", 401)
    BY <1>0, <1>5 DEF BeginMe, Starts
  <2>2. /\ Newcomer(Call("me", c, None, None, None, "done", Success))
        /\ Newcomer(Call("me", c, None, None, None, "done", 401))
    BY AuthAssumption DEF Call, Newcomer
  <2> QED
    BY <2>1, <2>2
<1>6. \A q \in Reqs \ {r} : req'[q] = req[q]
  BY <1>0 DEF Arrive, BeginRegister, BeginLogin, BeginRefresh, BeginLogout, BeginMe, Starts
<1> QED
  BY <1>1, <1>2, <1>3, <1>4, <1>5, <1>6 DEF Arrive

(* The new requests.                                                       *)
LEMMA ArriveKeeps ==
  ASSUME SessionInv, NEW r \in Reqs, Arrive(r)
  PROVE  SessionInv'
<1>1. TypeInv'
  BY ArriveType DEF SessionInv
<1>2. UNCHANGED <<store, cookies, history>>
  BY DEF Arrive, BeginRegister, BeginLogin, BeginRefresh, BeginLogout, BeginMe
<1>3. UNCHANGED <<db, latest, lock, jar, access, line>>
  BY <1>2 DEF store, cookies, history
<1>4. Clean' /\ Kept' /\ Lineage' /\ AccessHasSession'
  BY <1>2, <1>3, RowsUnchanged DEF SessionInv, AccessHasSession
<1>5. Newcomer(req'[r]) /\ \A q \in Reqs \ {r} : req'[q] = req[q]
  BY Arrivals DEF SessionInv, TypeInv
<1>6. Apart'
  BY <1>5 DEF Apart, Newcomer, Unused, SessionInv
<1>7. KnowsItsRows(r)'
  BY <1>3, <1>5 DEF Newcomer, Unused, KnowsItsRows, FreshIsNew, FreshIsMine, PresentedIsKnown,
     PresentedIsSpent, AnsweredIsCommitted
<1>8. \A q \in Reqs : KnowsItsRows(q)'
  BY <1>3, <1>5, <1>7, OthersKnow DEF SessionInv
<1> QED
  BY <1>1, <1>4, <1>6, <1>8 DEF SessionInv

(* No request shares a fresh token with another while it moves on.         *)
LEMMA MoveApart ==
  ASSUME Apart, NEW r \in Reqs, req'[r].fresh = req[r].fresh,
         \A q \in Reqs \ {r} : req'[q] = req[q]
  PROVE  Apart'
BY DEF Apart

(* The steps that leave the rows alone, once the request that moves knows  *)
(* its own.                                                                *)
LEMMA QuietMove ==
  ASSUME SessionInv, TypeInv', NEW r \in Reqs, KnowsItsRows(r)',
         UNCHANGED <<store, cookies, line>>, req'[r].fresh = req[r].fresh,
         \A q \in Reqs \ {r} : req'[q] = req[q]
  PROVE  SessionInv'
<1>1. UNCHANGED <<db, latest, lock, jar, access>>
  BY DEF store, cookies
<1>2. Clean' /\ Kept' /\ Lineage' /\ AccessHasSession' /\ Apart'
  BY <1>1, RowsUnchanged, MoveApart DEF SessionInv, AccessHasSession
<1>3. \A q \in Reqs : KnowsItsRows(q)'
  BY <1>1, OthersKnow DEF SessionInv
<1> QED
  BY <1>2, <1>3 DEF SessionInv

(* What moving on leaves of a request: its operation and its tokens.       *)
Moves(r, pcs) ==
  /\ req'[r].op = req[r].op /\ req'[r].token = req[r].token /\ req'[r].fresh = req[r].fresh
  /\ req'[r].pc \in pcs
  /\ \A q \in Reqs \ {r} : req'[q] = req[q]

(* Going on to the next statement is such a move.                         *)
LEMMA GotoMoves ==
  ASSUME TypeOK, NEW r \in Reqs, req[r].pc # "idle", NEW next \in Statements, Goto(r, next)
  PROVE  Moves(r, {next})
BY MoveOn DEF Goto, Moves

(* So is answering.                                                        *)
LEMMA ReplyMoves ==
  ASSUME TypeOK, NEW r \in Reqs, req[r].pc # "idle", NEW s \in Statuses, Reply(r, s)
  PROVE  Moves(r, {"done"}) /\ req'[r].status = s
<1>1. "done" \in Statements /\ s \in Statuses \union {0}
  BY Names
<1>2. req' = [req EXCEPT ![r] = At(@, "done", s)]
  BY DEF Reply
<1>3. /\ req'[r].op = req[r].op /\ req'[r].token = req[r].token /\ req'[r].fresh = req[r].fresh
      /\ req'[r].pc = "done" /\ req'[r].status = s
      /\ \A q \in Reqs \ {r} : req'[q] = req[q]
  BY <1>1, <1>2 DEF TypeOK, At, Call
<1> QED
  BY <1>3 DEF Moves

(* A step of r leaves the other requests what they know: it takes no       *)
(* committed token back, and leaves the rows alone that another            *)
(* transaction holds, or another request is about to insert.               *)
Respects(r) ==
  \A t \in Tokens :
    /\ db[Token(t)] # Absent => db'[Token(t)] # Absent
    /\ lock[Token(t)] \notin {r, NoReq} =>
         lock'[Token(t)] = lock[Token(t)] /\ latest'[Token(t)] = latest[Token(t)]
    /\ t # req[r].fresh /\ db[Token(t)] = Absent /\ lock[Token(t)] = NoReq =>
         db'[Token(t)] = Absent /\ lock'[Token(t)] = NoReq

(* The other requests go on knowing their rows after such a step.          *)
LEMMA OthersRespected ==
  ASSUME SessionInv, NEW r \in Reqs, Respects(r), NEW q \in Reqs \ {r}, req'[q] = req[q]
  PROVE  KnowsItsRows(q)'
<1>1. KnowsItsRows(q) /\ Fits(req[q]) /\ q # NoReq
  BY RowStoreAssumption DEF SessionInv, TypeInv
<1>2. req[q].fresh \in Tokens => req[q].fresh # req[r].fresh
  BY DEF SessionInv, Apart
<1>3. FreshIsNew(q)'
  BY <1>1, <1>2 DEF Respects, KnowsItsRows, FreshIsNew
<1>4. FreshIsMine(q)'
  BY <1>1 DEF Respects, KnowsItsRows, FreshIsMine, Fits
<1>5. PresentedIsKnown(q)'
  BY <1>1 DEF Respects, KnowsItsRows, PresentedIsKnown, Fits
<1>6. PresentedIsSpent(q)'
  BY <1>1 DEF Respects, KnowsItsRows, PresentedIsSpent, Fits
<1>7. AnsweredIsCommitted(q)'
  BY <1>1 DEF Respects, KnowsItsRows, AnsweredIsCommitted, Fits
<1> QED
  BY <1>3, <1>4, <1>5, <1>6, <1>7 DEF KnowsItsRows

(* The browsers that are let in stay so while no cookie changes.           *)
LEMMA AccessKept ==
  ASSUME SessionInv, NEW r \in Reqs, Respects(r), UNCHANGED cookies
  PROVE  AccessHasSession'
<1>1. \A c \in access : jar[c] \in Tokens
  BY DEF SessionInv, AccessHasSession, TypeInv, TypeOK
<1> QED
  BY <1>1 DEF SessionInv, AccessHasSession, Respects, cookies

(* A statement of r keeps the invariant when it keeps the lines and what r *)
(* itself knows.                                                           *)
LEMMA StatementKeeps ==
  ASSUME SessionInv, NEW r \in Reqs, TypeInv', Clean', Kept', Lineage', KnowsItsRows(r)',
         Respects(r), UNCHANGED cookies, req'[r].fresh = req[r].fresh,
         \A q \in Reqs \ {r} : req'[q] = req[q]
  PROVE  SessionInv'
<1>1. \A q \in Reqs : KnowsItsRows(q)'
  BY OthersRespected
<1>2. Apart' /\ AccessHasSession'
  BY MoveApart, AccessKept DEF SessionInv
<1> QED
  BY <1>1, <1>2 DEF SessionInv

(* What a write does to the rows of the tokens.                            *)
LEMMA TokenWritten ==
  ASSUME TypeOK, NEW r, NEW u \in Tokens, NEW v, Write(r, Token(u), v)
  PROVE  /\ db' = db
         /\ latest'[Token(u)] = v /\ lock'[Token(u)] = r
         /\ \A t \in Tokens : t # u => latest'[Token(t)] = latest[Token(t)]
                                       /\ lock'[Token(t)] = lock[Token(t)]
BY TokenRows DEF TypeOK, StoreType, Write

(* A registration writes no token, and one that is refused gives back no   *)
(* more than its own transaction wrote.                                    *)
LEMMA InsertUserKeeps ==
  ASSUME SessionInv, NEW r \in Reqs, InsertUser(r)
  PROVE  SessionInv'
<1>1. TypeInv'
  BY StatementType DEF SessionInv
<1>2. TypeInv /\ TypeOK /\ StoreType(Rows, Values) /\ Clean /\ Kept /\ Lineage
      /\ req[r].pc = "insert user"
  BY DEF SessionInv, TypeInv, TypeOK, InsertUser, Ready
<1>3. Moves(r, {"commit", "done"})
  <2>1. CASE Reply(r, 409)
    <3>1. 409 \in Statuses /\ req[r].pc # "idle"
      BY <1>2, Names
    <3> QED
      BY <1>2, <2>1, <3>1, ReplyMoves DEF Moves
  <2>2. CASE Goto(r, "commit")
    BY <1>2, <2>2, Names, GotoMoves DEF Moves
  <2> QED
    BY <2>1, <2>2 DEF InsertUser
<1>4. req[r].op = "register"
  BY <1>2 DEF TypeInv, Fits
<1>5. KnowsItsRows(r)'
  BY <1>3, <1>4 DEF Moves, KnowsItsRows, FreshIsNew, FreshIsMine, PresentedIsKnown,
                    PresentedIsSpent, AnsweredIsCommitted
<1>6. UNCHANGED <<db, line>> /\ UNCHANGED cookies
  BY DEF InsertUser, Rollback, Write, history
<1>7. CASE Rollback(r)
  <2>1. \A t \in Tokens :
          /\ latest'[Token(t)] = IF lock[Token(t)] = r THEN db[Token(t)] ELSE latest[Token(t)]
          /\ lock'[Token(t)] = IF lock[Token(t)] = r THEN NoReq ELSE lock[Token(t)]
    BY <1>2, <1>7, TokenRows DEF StoreType, Rollback, Release
  <2>2. Clean'
    BY <1>2, <1>7, RollbackClean
  <2>3. Kept'
    BY <1>2, <1>6, <2>1 DEF Kept
  <2>4. Lineage'
    <3> SUFFICES ASSUME NEW t \in Tokens, latest'[Token(t)] # Absent, NEW a \in line[t]
                 PROVE  Spent(t, a)'
      BY <1>6 DEF Lineage
    <3>1. a \in Tokens
      BY <1>2 DEF TypeOK
    <3>2. latest[Token(t)] # Absent
      BY <1>2, <2>1 DEF Kept
    <3>3. Spent(t, a)
      BY <1>2, <3>2 DEF Lineage
    <3> QED
      BY <1>6, <2>1, <3>1, <3>3 DEF Spent
  <2>5. Respects(r)
    BY <1>6, <2>1, RowStoreAssumption DEF Respects
  <2> QED
    BY <1>1, <1>3, <1>5, <1>6, <2>2, <2>3, <2>4, <2>5, StatementKeeps DEF Moves
<1>8. CASE Write(r, User(req[r].email), Live)
  <2>1. \A t \in Tokens : latest'[Token(t)] = latest[Token(t)] /\ lock'[Token(t)] = lock[Token(t)]
    BY <1>2, <1>8, TokenRows DEF Write, StoreType
  <2>2. Clean'
    BY <1>2, <1>8, WriteClean
  <2>3. Kept'
    BY <1>2, <1>6, <2>1 DEF Kept
  <2>5. \A t \in Tokens : \A a \in line[t] : a \in Tokens
    BY <1>2 DEF TypeOK
  <2>6. ASSUME NEW t \in Tokens, latest'[Token(t)] # Absent, NEW a \in line[t]
        PROVE  Spent(t, a)'
    <3>1. latest[Token(t)] # Absent /\ a \in Tokens
      BY <2>1, <2>5, <2>6
    <3>2. Spent(t, a)
      BY <1>2, <3>1 DEF Lineage
    <3> QED
      BY <1>6, <2>1, <3>1, <3>2 DEF Spent
  <2>7. Lineage'
    BY <1>6, <2>6 DEF Lineage
  <2>4. Respects(r)
    BY <1>6, <2>1 DEF Respects
  <2> QED
    BY <1>1, <1>3, <1>5, <1>6, <2>2, <2>3, <2>4, <2>7, StatementKeeps DEF Moves
<1> QED
  BY <1>7, <1>8 DEF InsertUser

(* A login that goes on keeps the token it is about to generate.           *)
LEMMA SelectUserKeeps ==
  ASSUME SessionInv, NEW r \in Reqs, SelectUser(r)
  PROVE  SessionInv'
<1>1. TypeInv'
  BY StatementType DEF SessionInv
<1>2. TypeInv /\ TypeOK /\ KnowsItsRows(r) /\ req[r].pc = "select user"
  BY DEF SessionInv, TypeInv, SelectUser
<1>3. req[r].op = "login"
  BY <1>2 DEF TypeInv, Fits
<1>4. UNCHANGED <<store, db, lock, cookies, line>>
  BY DEF SelectUser, store, history
<1>5. CASE Reply(r, 401)
  <2>1. Moves(r, {"done"}) /\ req'[r].status = 401
    <3>1. TypeOK /\ req[r].pc # "idle"
      BY <1>2
    <3>2. \E s \in Statuses : s = 401
      BY Names
    <3>3. PICK s \in Statuses : s = 401
      BY <3>2
    <3>4. Reply(r, s)
      BY <1>5, <3>3
    <3>5. Moves(r, {"done"}) /\ req'[r].status = s
      BY <3>1, <3>4, ReplyMoves
    <3> QED
      BY <3>3, <3>5
  <2>2. req'[r].pc = "done" /\ req'[r].status # Success
    BY <2>1 DEF Moves, Success
  <2>3. KnowsItsRows(r)'
    BY <2>2 DEF KnowsItsRows, FreshIsNew, FreshIsMine, PresentedIsKnown,
                PresentedIsSpent, AnsweredIsCommitted
  <2> QED
    BY <1>1, <1>4, <2>1, <2>3, QuietMove DEF Moves
<1>6. CASE Goto(r, "insert token")
  <2>1. Moves(r, {"insert token"})
    BY <1>2, <1>6, Names, GotoMoves
  <2>2. FreshIsNew(r)'
    BY <1>2, <1>4, <2>1 DEF Moves, KnowsItsRows, FreshIsNew
  <2>3. KnowsItsRows(r)'
    BY <1>3, <2>1, <2>2 DEF Moves, KnowsItsRows, FreshIsMine, PresentedIsKnown,
                            PresentedIsSpent, AnsweredIsCommitted
  <2> QED
    BY <1>1, <1>4, <2>1, <2>3, QuietMove DEF Moves
<1> QED
  BY <1>5, <1>6 DEF SelectUser

(* A new token: no version of it is there, so it is nobody's ancestor; its *)
(* own are those of the token presented, which this transaction revoked.   *)
LEMMA InsertTokenKeeps ==
  ASSUME SessionInv, NEW r \in Reqs, InsertToken(r)
  PROVE  SessionInv'
<1>0. PICK f, old : f = req[r].fresh /\ old = req[r].token
  OBVIOUS
<1>1. TypeInv'
  BY StatementType DEF SessionInv
<1>2. TypeInv /\ TypeOK /\ StoreType(Rows, Values) /\ Clean /\ Kept /\ Lineage /\ KnowsItsRows(r)
      /\ req[r].pc = "insert token"
  BY DEF SessionInv, TypeInv, TypeOK, InsertToken
<1>3. f \in Tokens /\ (req[r].op = "refresh" => old \in Tokens)
  BY <1>0, <1>2 DEF TypeInv, Fits
<1>4. db[Token(f)] = Absent /\ lock[Token(f)] = NoReq
  BY <1>0, <1>2, <1>3 DEF KnowsItsRows, FreshIsNew
<1>5. latest[Token(f)] = Absent
  BY <1>2, <1>3, <1>4, TokenRows DEF Clean, StoreType
<1>6. /\ db' = db /\ latest'[Token(f)] = Live /\ lock'[Token(f)] = r
      /\ \A t \in Tokens : t # f => latest'[Token(t)] = latest[Token(t)]
                                    /\ lock'[Token(t)] = lock[Token(t)]
  <2>1. Write(r, Token(f), Live)
    BY <1>0 DEF InsertToken
  <2>2. f \in Tokens /\ TypeOK
    BY <1>2, <1>3
  <2> QED
    BY <2>1, <2>2, TokenWritten
<1>7. Moves(r, {"commit"})
  BY <1>2, Names, GotoMoves DEF InsertToken
<1>8. UNCHANGED cookies
  BY DEF InsertToken
<1>9. Clean'
  BY <1>2, WriteClean DEF InsertToken
<1>10. Kept'
  BY <1>2, <1>6, ValueTypes DEF Kept
<1>11. Respects(r)
  BY <1>0, <1>4, <1>6 DEF Respects
<1>12. req[r].op = "refresh" =>
         old # f /\ lock[Token(old)] = r /\ latest[Token(old)] = Revoked
  BY <1>0, <1>2, <1>5, ValueTypes DEF KnowsItsRows, PresentedIsSpent
<1>13. KnowsItsRows(r)'
  <2>1. FreshIsMine(r)'
    BY <1>0, <1>6, <1>7, ValueTypes DEF Moves, FreshIsMine
  <2>2. PresentedIsSpent(r)'
    BY <1>0, <1>3, <1>6, <1>7, <1>12 DEF Moves, PresentedIsSpent
  <2> QED
    BY <1>7, <2>1, <2>2 DEF Moves, KnowsItsRows, FreshIsNew, PresentedIsKnown, AnsweredIsCommitted
<1>14. ASSUME NEW t \in Tokens, t # f, latest'[Token(t)] # Absent, NEW a \in line'[t]
       PROVE  Spent(t, a)'
  <2>1. a \in line[t] /\ a \in Tokens /\ latest[Token(t)] # Absent
    BY <1>0, <1>2, <1>6, <1>14 DEF InsertToken, TypeOK
  <2>2. Spent(t, a)
    BY <1>2, <2>1 DEF Lineage
  <2>3. a # f
    BY <1>5, <2>2, ValueTypes DEF Spent
  <2> QED
    BY <1>6, <1>14, <2>1, <2>2, <2>3 DEF Spent
<1>15. ASSUME NEW a \in line'[f] PROVE Spent(f, a)'
  <2>1. req[r].op = "refresh" /\ a \in line[old] \union {old}
    BY <1>0, <1>2, <1>3, <1>15 DEF InsertToken, TypeOK
  <2>2. CASE a = old
    BY <1>3, <1>4, <1>6, <1>12, <2>1, <2>2, RowStoreAssumption DEF Spent
  <2>3. CASE a \in line[old]
    <3>1. Spent(old, a) /\ a \in Tokens
      BY <1>2, <1>3, <1>12, <2>1, <2>3, ValueTypes DEF Lineage, TypeOK
    <3>2. a # f
      BY <1>5, <3>1, ValueTypes DEF Spent
    <3> QED
      BY <1>4, <1>6, <1>12, <2>1, <3>1, <3>2, RowStoreAssumption DEF Spent
  <2> QED
    BY <2>1, <2>2, <2>3
<1>16. Lineage'
  BY <1>14, <1>15 DEF Lineage
<1> QED
  BY <1>1, <1>7, <1>8, <1>9, <1>10, <1>11, <1>13, <1>16, StatementKeeps DEF Moves

(* The token presented is committed, so the statement finds it, and takes  *)
(* its row for the transaction.                                            *)
LEMMA RevokeTokenKeeps ==
  ASSUME SessionInv, NEW r \in Reqs, RevokeToken(r)
  PROVE  SessionInv'
<1> DEFINE old == req[r].token
<1>1. TypeInv'
  BY StatementType DEF SessionInv
<1>2. TypeInv /\ TypeOK /\ StoreType(Rows, Values) /\ Clean /\ Kept /\ Lineage /\ KnowsItsRows(r)
      /\ req[r].pc = "revoke"
  BY DEF SessionInv, TypeInv, TypeOK, RevokeToken, Ready
<1>3. old \in Tokens /\ req[r].op \in {"refresh", "logout"}
  BY <1>2 DEF TypeInv, Fits
<1>4. db[Token(old)] # Absent /\ latest[Token(old)] # Absent
  BY <1>2, <1>3 DEF KnowsItsRows, PresentedIsKnown, Kept
<1>5. lock[Token(old)] \in {r, NoReq}
  BY <1>2 DEF RevokeToken, Ready, Blockers, Writers
<1>6. Write(r, Token(old), Revoked)
  BY <1>4 DEF RevokeToken, Update, Found
<1>7. /\ db' = db /\ latest'[Token(old)] = Revoked /\ lock'[Token(old)] = r
      /\ \A t \in Tokens : t # old => latest'[Token(t)] = latest[Token(t)]
                                      /\ lock'[Token(t)] = lock[Token(t)]
  BY <1>2, <1>3, <1>6, TokenWritten
<1>8. Moves(r, {IF req[r].op = "refresh" THEN "insert token" ELSE "commit"})
  BY <1>2, Names, GotoMoves DEF RevokeToken
<1>9. UNCHANGED cookies /\ line' = line
  BY DEF RevokeToken, history
<1>10. Clean'
  BY <1>2, <1>6, WriteClean
<1>11. Kept'
  BY <1>2, <1>7, ValueTypes DEF Kept
<1>12. Respects(r)
  BY <1>4, <1>5, <1>7 DEF Respects
<1>13. KnowsItsRows(r)'
  <2>1. FreshIsNew(r)'
    BY <1>2, <1>4, <1>7, <1>8 DEF Moves, KnowsItsRows, FreshIsNew
  <2>2. PresentedIsSpent(r)'
    BY <1>7, <1>8 DEF Moves, PresentedIsSpent
  <2> QED
    BY <1>3, <1>8, <2>1, <2>2 DEF Moves, KnowsItsRows, FreshIsMine, PresentedIsKnown,
                                  AnsweredIsCommitted
<1>14. ASSUME NEW t \in Tokens, latest'[Token(t)] # Absent, NEW a \in line[t]
       PROVE  Spent(t, a)'
  <2>1. a \in Tokens /\ latest[Token(t)] # Absent
    BY <1>2, <1>4, <1>7, <1>14 DEF TypeOK
  <2>2. Spent(t, a)
    BY <1>2, <2>1 DEF Lineage
  <2>3. CASE a = old
    BY <1>4, <1>5, <1>7, <2>2, <2>3, RowStoreAssumption DEF Spent
  <2>4. CASE a # old /\ t = old
    BY <1>4, <1>7, <2>1, <2>2, <2>4 DEF Spent
  <2>5. CASE a # old /\ t # old
    BY <1>7, <2>1, <2>2, <2>5 DEF Spent
  <2> QED
    BY <2>3, <2>4, <2>5
<1>15. Lineage'
  BY <1>9, <1>14 DEF Lineage
<1> QED
  BY <1>1, <1>8, <1>9, <1>10, <1>11, <1>12, <1>13, <1>15, StatementKeeps DEF Moves

(* A commit publishes a token together with the revocations it rests on.   *)
LEMMA CommitRequestKeeps ==
  ASSUME SessionInv, NEW r \in Reqs, CommitRequest(r)
  PROVE  SessionInv'
<1>1. TypeInv'
  BY StatementType DEF SessionInv
<1>2. TypeInv /\ TypeOK /\ StoreType(Rows, Values) /\ Clean /\ Kept /\ Lineage /\ KnowsItsRows(r)
      /\ req[r].pc = "commit"
  BY DEF SessionInv, TypeInv, TypeOK, CommitRequest
<1>3. latest' = latest
  BY DEF CommitRequest, Commit
<1>4. \A t \in Tokens :
        /\ db'[Token(t)] = IF lock[Token(t)] = r THEN latest[Token(t)] ELSE db[Token(t)]
        /\ lock'[Token(t)] = IF lock[Token(t)] = r THEN NoReq ELSE lock[Token(t)]
  BY <1>2, TokenRows DEF CommitRequest, Commit, Release, Found, StoreType
<1>5. Moves(r, {"done"})
  <2>1. Success \in Statuses /\ req[r].pc # "idle"
    BY <1>2, Names
  <2> QED
    BY <1>2, <2>1, ReplyMoves DEF CommitRequest
<1>6. UNCHANGED cookies /\ line' = line
  BY DEF CommitRequest
<1>7. Clean'
  BY <1>2, CommitClean DEF CommitRequest
<1>8. Kept'
  BY <1>2, <1>3, <1>4 DEF Kept
<1>9. Respects(r)
  BY <1>2, <1>3, <1>4, RowStoreAssumption DEF Respects, Kept
<1>10. KnowsItsRows(r)'
  <2>1. AnsweredIsCommitted(r)'
    <3> SUFFICES ASSUME req[r].op \in {"login", "refresh"}
                 PROVE  db'[Token(req[r].fresh)] # Absent
      BY <1>5 DEF Moves, AnsweredIsCommitted
    <3>1. req[r].fresh \in Tokens
      BY <1>2 DEF TypeInv, Fits
    <3> QED
      BY <1>2, <1>4, <3>1 DEF KnowsItsRows, FreshIsMine
  <2> QED
    BY <1>5, <2>1 DEF Moves, KnowsItsRows, FreshIsNew, FreshIsMine, PresentedIsKnown,
                      PresentedIsSpent
<1>11. ASSUME NEW t \in Tokens, latest[Token(t)] # Absent, NEW a \in line[t]
       PROVE  Spent(t, a)'
  <2>1. a \in Tokens
    BY <1>2 DEF TypeOK
  <2>2. Spent(t, a)
    BY <1>2, <1>11 DEF Lineage
  <2> QED
    BY <1>3, <1>4, <2>1, <2>2 DEF Spent
<1>12. Lineage'
  BY <1>3, <1>6, <1>11 DEF Lineage
<1> QED
  BY <1>1, <1>5, <1>6, <1>7, <1>8, <1>9, <1>10, <1>12, StatementKeeps DEF Moves

(* An answer that sets the cookies of a session comes after its commit.    *)
LEMMA AnswerKeeps ==
  ASSUME SessionInv, NEW r \in Reqs, Respond(r) \/ LoseAnswer(r)
  PROVE  SessionInv'
<1>1. TypeInv'
  BY RestType DEF SessionInv
<1>2. TypeInv /\ TypeOK /\ KnowsItsRows(r) /\ req[r].pc = "done"
  BY DEF SessionInv, TypeInv, Respond, LoseAnswer
<1>3. UNCHANGED <<store, line>> /\ UNCHANGED <<db, latest, lock>>
  BY DEF Respond, LoseAnswer, history, store
<1>4. req'[r] = Idle /\ \A q \in Reqs \ {r} : req'[q] = req[q]
  BY <1>2 DEF Respond, LoseAnswer, TypeOK
<1>5. Clean' /\ Kept' /\ Lineage'
  BY <1>3, RowsUnchanged
<1>6. Apart'
  BY <1>4, IdleType, AuthAssumption DEF Apart, SessionInv
<1>7. Idle.pc = "idle" /\ Idle.op = "none" /\ Idle.fresh = None
  BY DEF Idle, Call
<1>8. KnowsItsRows(r)'
  BY <1>4, <1>7 DEF KnowsItsRows, FreshIsNew, FreshIsMine, PresentedIsKnown, PresentedIsSpent,
                    AnsweredIsCommitted
<1>9. \A q \in Reqs : KnowsItsRows(q)'
  BY <1>3, <1>4, <1>8, OthersKnow DEF SessionInv
<1>10. AccessHasSession'
  <2>1. CASE UNCHANGED cookies
    BY <1>3, <2>1 DEF SessionInv, AccessHasSession, cookies
  <2>2. CASE /\ req[r].status = Success /\ req[r].op \in {"login", "refresh"}
             /\ jar' = [jar EXCEPT ![req[r].client] = req[r].fresh]
             /\ access' = access \union {req[r].client}
    <3>1. req[r].client \in Clients /\ req[r].fresh \in Tokens /\ req[r].fresh # None
      BY <1>2, <2>2, AuthAssumption DEF TypeInv, Fits
    <3>2. db[Token(req[r].fresh)] # Absent
      BY <1>2, <2>2 DEF KnowsItsRows, AnsweredIsCommitted
    <3> QED
      BY <1>2, <1>3, <2>2, <3>1, <3>2 DEF SessionInv, AccessHasSession, TypeOK
  <2>3. CASE /\ jar' = [jar EXCEPT ![req[r].client] = None]
             /\ access' = access \ {req[r].client}
    BY <1>2, <1>3, <2>3 DEF SessionInv, AccessHasSession, TypeOK
  <2> QED
    BY <2>1, <2>2, <2>3 DEF Respond, LoseAnswer, SetCookies
<1> QED
  BY <1>1, <1>5, <1>6, <1>9, <1>10 DEF SessionInv

(* Time changes no row and no request.                                     *)
LEMMA TimeKeeps ==
  ASSUME SessionInv,
         \/ \E e \in Emails : AttemptAges(e)
         \/ \E t \in Tokens : TokenExpires(t)
         \/ \E c \in Clients : AccessExpires(c)
  PROVE  SessionInv'
<1>1. TypeInv'
  BY RestType DEF SessionInv
<1>2. /\ UNCHANGED <<store, line>> /\ UNCHANGED <<db, latest, lock, req, jar>>
      /\ access' \subseteq access
  BY DEF AttemptAges, TokenExpires, AccessExpires, history, cookies, store
<1>3. Clean' /\ Kept' /\ Lineage'
  BY <1>2, RowsUnchanged
<1>4. \A q \in Reqs : KnowsItsRows(q)'
  BY <1>2, OthersKnow DEF SessionInv
<1>5. Apart' /\ AccessHasSession'
  BY <1>2 DEF SessionInv, Apart, AccessHasSession
<1> QED
  BY <1>1, <1>3, <1>4, <1>5 DEF SessionInv

(* A restart undoes what is not committed, and of a committed token every  *)
(* ancestor is committed as revoked.                                       *)
LEMMA RestartKeeps ==
  ASSUME SessionInv, Restart
  PROVE  SessionInv'
<1>1. TypeInv'
  BY RestType DEF SessionInv
<1>2. TypeInv /\ TypeOK /\ StoreType(Rows, Values) /\ Kept /\ Lineage
  BY DEF SessionInv, TypeInv, TypeOK
<1>3. db' = db /\ latest' = db /\ UNCHANGED cookies /\ line' = line
  BY DEF Restart, RollbackAll, history
<1>4. Clean'
  BY <1>2, RollbackAllClean DEF Restart
<1>5. Idle.pc = "idle" /\ Idle.op = "none" /\ Idle.fresh = None
  BY DEF Idle, Call
<1>6. \A q \in Reqs : req'[q] = Idle
  BY DEF Restart
<1>7. \A q \in Reqs : KnowsItsRows(q)'
  BY <1>5, <1>6 DEF KnowsItsRows, FreshIsNew, FreshIsMine, PresentedIsKnown, PresentedIsSpent,
                    AnsweredIsCommitted
<1>8. Apart' /\ Kept' /\ AccessHasSession'
  BY <1>3, <1>5, <1>6, AuthAssumption DEF Apart, Kept, AccessHasSession, SessionInv, cookies
<1>9. ASSUME NEW t \in Tokens, db[Token(t)] # Absent, NEW a \in line[t]
      PROVE  Spent(t, a)'
  <2>1. Spent(t, a)
    BY <1>2, <1>9 DEF Kept, Lineage
  <2> QED
    BY <1>3, <1>9, <2>1 DEF Spent
<1>10. Lineage'
  BY <1>3, <1>9 DEF Lineage
<1> QED
  BY <1>1, <1>4, <1>7, <1>8, <1>10 DEF SessionInv

(* No step breaks the invariant of the sessions.                           *)
LEMMA SessionStep ==
  ASSUME SessionInv, [Next]_vars
  PROVE  SessionInv'
<1>1. CASE UNCHANGED vars
  <2>1. TypeInv'
    BY TypeStep, <1>1 DEF SessionInv
  <2>2. UNCHANGED <<store, line>> /\ UNCHANGED <<db, latest, lock, req, jar, access>>
    BY <1>1 DEF vars, store
  <2>3. \A q \in Reqs : KnowsItsRows(q)'
    BY <2>2, OthersKnow DEF SessionInv
  <2>4. Apart' /\ AccessHasSession'
    BY <2>2 DEF SessionInv, Apart, AccessHasSession
  <2> QED
    BY <2>1, <2>2, <2>3, <2>4, RowsUnchanged DEF SessionInv
<1>2. CASE Next
  BY <1>2, ArriveKeeps, InsertUserKeeps, SelectUserKeeps, InsertTokenKeeps, RevokeTokenKeeps,
     CommitRequestKeeps, AnswerKeeps, TimeKeeps, RestartKeeps DEF Next, Proceed
<1> QED
  BY <1>1, <1>2

(* It holds when the server starts for the first time.                     *)
LEMMA SessionInit == Init => SessionInv
<1> SUFFICES ASSUME Init PROVE SessionInv
  OBVIOUS
<1>1. TypeInv
  BY TypeInit
<1>2. \A t \in Tokens : db[Token(t)] = Absent /\ latest[Token(t)] = Absent
  BY TokenRows DEF Init
<1>3. Idle.pc = "idle" /\ Idle.op = "none" /\ Idle.fresh = None
  BY DEF Idle, Call
<1>4. \A r \in Reqs : KnowsItsRows(r)
  BY <1>3 DEF Init, KnowsItsRows, FreshIsNew, FreshIsMine, PresentedIsKnown, PresentedIsSpent,
              AnsweredIsCommitted
<1>5. Clean
  BY DEF Init, Clean
<1>6. Apart /\ Kept /\ Lineage /\ AccessHasSession
  BY <1>2, <1>3, AuthAssumption DEF Init, Apart, Kept, Lineage, AccessHasSession
<1> QED
  BY <1>1, <1>4, <1>5, <1>6 DEF SessionInv

(* In every behaviour, whatever forks of a session overlap and whenever    *)
(* the server restarts, the tokens a committed token was rotated from are  *)
(* revoked.                                                                *)
THEOREM AncestorsHold == Spec => []AncestorsAreSpent
<1>1. SessionInv => AncestorsAreSpent
  <2> SUFFICES ASSUME SessionInv, NEW t \in Tokens, db[Token(t)] # Absent, NEW a \in line[t]
               PROVE  db[Token(a)] = Revoked
    BY DEF AncestorsAreSpent
  <2> QED
    BY DEF SessionInv, Kept, Lineage, Spent
<1> QED
  BY <1>1, SessionInit, SessionStep, PTL DEF Spec

(* In every behaviour a browser with an access token has a refresh token   *)
(* that was committed.                                                     *)
THEOREM AccessHolds == Spec => []AccessHasSession
<1>1. SessionInv => AccessHasSession
  BY DEF SessionInv
<1> QED
  BY <1>1, SessionInit, SessionStep, PTL DEF Spec

-----------------------------------------------------------------------------
(* What a transaction holds.  That a token stops being live only by a      *)
(* logout or beside its successor, and that an account is made once, rest  *)
(* on which rows a request has locked by the time it commits.              *)

(* The tokens r has locked are the one presented and the one generated.    *)
Holding(r, t) ==
  \/ /\ req[r].token = t /\ req[r].op \in {"refresh", "logout"}
     /\ req[r].pc \in {"insert token", "commit"}
  \/ /\ req[r].fresh = t /\ req[r].op \in {"login", "refresh"} /\ req[r].pc = "commit"

HoldsItsTokens(r) == \A t \in Tokens : lock[Token(t)] = r => Holding(r, t)

(* The token generated is new and live until it is committed.              *)
FreshIsBorn(r) ==
  req[r].op \in {"login", "refresh"} /\ req[r].pc = "commit" =>
    /\ lock[Token(req[r].fresh)] = r
    /\ db[Token(req[r].fresh)] = Absent /\ latest[Token(req[r].fresh)] = Live

(* A registration has the row of its email, which nobody has committed.    *)
Registers(r) ==
  req[r].op = "register" =>
    /\ req[r].email \in Emails
    /\ req[r].pc = "commit" =>
         lock[User(req[r].email)] = r /\ db[User(req[r].email)] = Absent

(* Only a registration that is about to commit holds the row of an email.  *)
HoldsItsEmail(r) ==
  \A e \in Emails : lock[User(e)] = r => req[r].op = "register" /\ req[r].pc = "commit"

HoldsItsRows(r) ==
  HoldsItsTokens(r) /\ HoldsItsEmail(r) /\ FreshIsBorn(r) /\ Registers(r)

HoldingInv == \A r \in Reqs : HoldsItsRows(r)

(* A step of r touches no row that another request holds, and gives none   *)
(* to another.                                                             *)
Confined(r) ==
  \A x \in Rows :
    \/ lock'[x] = lock[x] /\ db'[x] = db[x] /\ latest'[x] = latest[x]
    \/ lock[x] \in {r, NoReq} /\ lock'[x] \in {r, NoReq}

(* The other requests go on holding what they hold.                        *)
LEMMA OthersHold ==
  ASSUME TypeInv, NEW r \in Reqs, Confined(r), NEW q \in Reqs \ {r}, req'[q] = req[q],
         HoldsItsRows(q)
  PROVE  HoldsItsRows(q)'
<1>1. q # NoReq /\ q # r
  BY RowStoreAssumption
<1>2. \A x \in Rows : /\ lock[x] = q => lock'[x] = q /\ db'[x] = db[x] /\ latest'[x] = latest[x]
                      /\ lock'[x] = q => lock[x] = q
  BY <1>1 DEF Confined
<1>3. HoldsItsTokens(q)'
  BY <1>2, TokenRows DEF HoldsItsRows, HoldsItsTokens, Holding
<1>4. FreshIsBorn(q)'
  <2>1. req[q].op \in {"login", "refresh"} => req[q].fresh \in Tokens
    BY DEF TypeInv, Fits
  <2> QED
    BY <1>2, <2>1, TokenRows DEF HoldsItsRows, FreshIsBorn
<1>5. Registers(q)'
  BY <1>2, TokenRows DEF HoldsItsRows, Registers
<1>6. HoldsItsEmail(q)'
  BY <1>2, TokenRows DEF HoldsItsRows, HoldsItsEmail
<1> QED
  BY <1>3, <1>4, <1>5, <1>6 DEF HoldsItsRows

(* A step of r keeps what all hold when it keeps what r holds.             *)
LEMMA HoldingKept ==
  ASSUME TypeInv, HoldingInv, NEW r \in Reqs, Confined(r), HoldsItsRows(r)',
         \A q \in Reqs \ {r} : req'[q] = req[q]
  PROVE  HoldingInv'
BY OthersHold DEF HoldingInv

(* A new request holds no token: nobody holds one under a slot that is     *)
(* idle.                                                                   *)
LEMMA ArriveHolds ==
  ASSUME TypeInv, HoldingInv, NEW r \in Reqs, Arrive(r)
  PROVE  HoldingInv'
<1>1. UNCHANGED <<db, latest, lock>> /\ req[r].pc = "idle"
  BY DEF Arrive, BeginRegister, BeginLogin, BeginRefresh, BeginLogout, BeginMe, Starts, store
<1>2. /\ \A t \in Tokens : lock[Token(t)] # r
      /\ \A e \in Emails : lock[User(e)] # r
  BY <1>1 DEF HoldingInv, HoldsItsRows, HoldsItsTokens, HoldsItsEmail, Holding
<1>3. Newcomer(req'[r]) /\ \A q \in Reqs \ {r} : req'[q] = req[q]
  BY Arrivals DEF TypeInv
<1>4. req'[r].op = "register" => req'[r].email \in Emails
  <2>0. req \in [Reqs -> Requests]
    BY DEF TypeInv, TypeOK
  <2>1. \A o, c, e, t, f, n, s : Starts(r, Call(o, c, e, t, f, n, s)) =>
          req'[r].op = o /\ req'[r].email = e
    BY <2>0 DEF Starts, Call
  <2>2. ASSUME NEW e \in Emails, BeginRegister(r, e) PROVE req'[r].email \in Emails
    BY <2>1, <2>2 DEF BeginRegister
  <2>3. ASSUME NEW c \in Clients, NEW e \in Emails, NEW f \in Tokens, BeginLogin(r, c, e, f)
        PROVE  req'[r].op = "login"
    <3>1. \A n, s : Starts(r, Call("login", c, e, None, f, n, s)) => req'[r].op = "login"
      BY <2>1
    <3> QED
      BY <2>3, <3>1 DEF BeginLogin
  <2>4. ASSUME NEW c \in Clients, NEW f \in Tokens, BeginRefresh(r, c, f)
        PROVE  req'[r].op = "refresh"
    BY <2>1, <2>4 DEF BeginRefresh
  <2>5. ASSUME NEW c \in Clients, BeginLogout(r, c) PROVE req'[r].op = "logout"
    BY <2>1, <2>5 DEF BeginLogout
  <2>6. ASSUME NEW c \in Clients, BeginMe(r, c) PROVE req'[r].op = "me"
    BY <2>1, <2>6 DEF BeginMe
  <2> QED
    BY <2>2, <2>3, <2>4, <2>5, <2>6 DEF Arrive
<1>5. HoldsItsRows(r)'
  BY <1>1, <1>2, <1>3, <1>4
     DEF HoldsItsRows, HoldsItsTokens, HoldsItsEmail, FreshIsBorn, Registers, Newcomer
<1>6. Confined(r)
  BY <1>1 DEF Confined
<1> QED
  BY <1>3, <1>4, <1>5, <1>6, HoldingKept

(* What a statement leaves of a request, and where it goes.                *)
LEMMA StatementMoves ==
  ASSUME TypeOK, NEW r \in Reqs, req[r].pc # "idle",
         \/ \E n \in Statements : Goto(r, n)
         \/ \E s \in Statuses : Reply(r, s)
  PROVE  /\ req'[r].op = req[r].op /\ req'[r].email = req[r].email
         /\ req'[r].token = req[r].token /\ req'[r].fresh = req[r].fresh
         /\ \A q \in Reqs \ {r} : req'[q] = req[q]
         /\ \A n : Goto(r, n) => req'[r].pc = n
         /\ \A s : Reply(r, s) => req'[r].pc = "done" /\ req'[r].status = s
<1>0. req \in [Reqs -> Requests]
  BY DEF TypeOK
<1>1. \A n, s : req' = [req EXCEPT ![r] = At(@, n, s)] =>
        /\ req'[r].op = req[r].op /\ req'[r].email = req[r].email
        /\ req'[r].token = req[r].token /\ req'[r].fresh = req[r].fresh
        /\ req'[r].pc = n /\ req'[r].status = s
        /\ \A q \in Reqs \ {r} : req'[q] = req[q]
  BY <1>0 DEF At, Call
<1> QED
  BY <1>1 DEF Goto, Reply

(* The registration locks the row it inserts, and one that is refused      *)
(* holds nothing any more.                                                 *)
LEMMA InsertUserHolds ==
  ASSUME SessionInv, HoldingInv, NEW r \in Reqs, InsertUser(r)
  PROVE  HoldingInv'
<1>1. TypeInv /\ TypeOK /\ StoreType(Rows, Values) /\ req[r].pc = "insert user"
  BY DEF SessionInv, TypeInv, TypeOK, InsertUser, Ready
<1>2. HoldsItsRows(r) /\ req[r].op = "register" /\ req[r].email \in Emails
  BY <1>1 DEF HoldingInv, TypeInv, Fits, HoldsItsRows, Registers
<1>3. r # NoReq /\ lock[User(req[r].email)] \in {r, NoReq}
  BY <1>1, RowStoreAssumption DEF InsertUser, Ready, Blockers, Writers
<1>4. /\ \A t \in Tokens : lock[Token(t)] # r
      /\ \A e \in Emails : lock[User(e)] # r
  BY <1>1 DEF HoldsItsRows, HoldsItsTokens, HoldsItsEmail, Holding, HoldingInv
<1>5. 409 \in Statuses /\ "commit" \in Statements /\ req[r].pc # "idle"
  BY <1>1, Names
<1>6. /\ req'[r].op = "register" /\ req'[r].email = req[r].email
      /\ \A q \in Reqs \ {r} : req'[q] = req[q]
      /\ Goto(r, "commit") => req'[r].pc = "commit"
      /\ Reply(r, 409) => req'[r].pc = "done"
  BY <1>1, <1>2, <1>5, StatementMoves DEF InsertUser
<1>7. CASE Rollback(r) /\ Reply(r, 409)
  <2>1. \A x \in Rows : /\ db'[x] = db[x]
                        /\ lock[x] = r => lock'[x] = NoReq
                        /\ lock[x] # r => lock'[x] = lock[x] /\ latest'[x] = latest[x]
    BY <1>1, <1>7 DEF StoreType, Rollback, Release
  <2>2. Confined(r)
    BY <2>1 DEF Confined
  <2>3. HoldsItsRows(r)'
    BY <1>2, <1>3, <1>4, <1>6, <1>7, <2>1, TokenRows
       DEF HoldsItsRows, HoldsItsTokens, HoldsItsEmail, FreshIsBorn, Registers
  <2> QED
    BY <1>1, <1>6, <2>2, <2>3, HoldingKept
<1>8. CASE /\ Found(r, User(req[r].email)) = Absent
           /\ Write(r, User(req[r].email), Live) /\ Goto(r, "commit")
  <2>1. PICK e \in Emails : e = req[r].email
    BY <1>2
  <2>2. /\ db' = db /\ lock'[User(e)] = r
        /\ \A x \in Rows : x # User(e) => lock'[x] = lock[x] /\ latest'[x] = latest[x]
    BY <1>1, <1>8, <2>1, TokenRows DEF StoreType, Write
  <2>3. Confined(r)
    BY <1>3, <2>1, <2>2 DEF Confined
  <2>4. db[User(e)] = Absent
    BY <1>4, <1>8, <2>1 DEF Found
  <2>5. HoldsItsRows(r)'
    BY <1>2, <1>4, <1>6, <1>8, <2>1, <2>2, <2>4, TokenRows
       DEF HoldsItsRows, HoldsItsTokens, HoldsItsEmail, FreshIsBorn, Registers
  <2> QED
    BY <1>1, <1>6, <2>3, <2>5, HoldingKept
<1> QED
  BY <1>7, <1>8 DEF InsertUser

(* A login that is decided holds nothing yet.                              *)
LEMMA SelectUserHolds ==
  ASSUME SessionInv, HoldingInv, NEW r \in Reqs, SelectUser(r)
  PROVE  HoldingInv'
<1>1. TypeInv /\ TypeOK /\ req[r].pc = "select user" /\ UNCHANGED <<db, latest, lock>>
  BY DEF SessionInv, TypeInv, SelectUser, store
<1>2. req[r].op = "login"
  BY <1>1 DEF TypeInv, Fits
<1>3. /\ \A t \in Tokens : lock[Token(t)] # r
      /\ \A e \in Emails : lock[User(e)] # r
  BY <1>1 DEF HoldsItsRows, HoldsItsTokens, HoldsItsEmail, Holding, HoldingInv
<1>4. 401 \in Statuses /\ "insert token" \in Statements /\ req[r].pc # "idle"
  BY <1>1, Names
<1>5. /\ req'[r].op = "login" /\ req'[r].pc \in {"insert token", "done"}
      /\ \A q \in Reqs \ {r} : req'[q] = req[q]
  BY <1>1, <1>2, <1>4, StatementMoves DEF SelectUser
<1>6. HoldsItsRows(r)'
  BY <1>1, <1>3, <1>5
     DEF HoldsItsRows, HoldsItsTokens, HoldsItsEmail, FreshIsBorn, Registers
<1>7. Confined(r)
  BY <1>1 DEF Confined
<1> QED
  BY <1>1, <1>5, <1>6, <1>7, HoldingKept

(* The token inserted is one nobody has.                                   *)
LEMMA InsertTokenHolds ==
  ASSUME SessionInv, HoldingInv, NEW r \in Reqs, InsertToken(r)
  PROVE  HoldingInv'
<1>1. TypeInv /\ TypeOK /\ StoreType(Rows, Values) /\ req[r].pc = "insert token"
      /\ FreshIsNew(r) /\ HoldsItsRows(r)
  BY DEF SessionInv, TypeInv, TypeOK, InsertToken, KnowsItsRows, HoldingInv
<1>2. req[r].op \in {"login", "refresh"} /\ req[r].fresh \in Tokens
  BY <1>1 DEF TypeInv, Fits
<1>3. PICK f \in Tokens : f = req[r].fresh
  BY <1>2
<1>4. db[Token(f)] = Absent /\ lock[Token(f)] = NoReq
  BY <1>1, <1>3 DEF FreshIsNew
<1>5. /\ req'[r].op = req[r].op /\ req'[r].token = req[r].token /\ req'[r].fresh = f
      /\ req'[r].pc = "commit"
      /\ \A q \in Reqs \ {r} : req'[q] = req[q]
  BY <1>1, <1>3, Names, StatementMoves DEF InsertToken
<1>6. /\ db' = db /\ latest'[Token(f)] = Live /\ lock'[Token(f)] = r
      /\ \A x \in Rows : x # Token(f) => lock'[x] = lock[x] /\ latest'[x] = latest[x]
  BY <1>1, <1>3, TokenRows DEF StoreType, Write, InsertToken
<1>7. Confined(r)
  BY <1>4, <1>6 DEF Confined
<1>8. HoldsItsTokens(r)'
  <2>1. ASSUME NEW t \in Tokens, t # f, lock[Token(t)] = r
        PROVE  req[r].token = t /\ req[r].op = "refresh"
    BY <1>1, <1>2, <2>1 DEF HoldsItsRows, HoldsItsTokens, Holding
  <2>2. ASSUME NEW t \in Tokens, lock'[Token(t)] = r PROVE Holding(r, t)'
    <3>1. CASE t = f
      BY <1>2, <1>5, <3>1 DEF Holding
    <3>2. CASE t # f
      BY <1>5, <1>6, <2>1, <2>2, <3>2, TokenRows DEF Holding
    <3> QED
      BY <3>1, <3>2
  <2> QED
    BY <2>2 DEF HoldsItsTokens
<1>9. HoldsItsEmail(r)'
  BY <1>1, <1>6, TokenRows DEF HoldsItsRows, HoldsItsEmail
<1>10. FreshIsBorn(r)' /\ Registers(r)'
  BY <1>2, <1>4, <1>5, <1>6 DEF FreshIsBorn, Registers
<1> QED
  BY <1>1, <1>5, <1>7, <1>8, <1>9, <1>10, HoldingKept DEF HoldsItsRows

(* The token revoked is the one presented, once nobody else holds it.      *)
LEMMA RevokeTokenHolds ==
  ASSUME SessionInv, HoldingInv, NEW r \in Reqs, RevokeToken(r)
  PROVE  HoldingInv'
<1>1. TypeInv /\ TypeOK /\ StoreType(Rows, Values) /\ req[r].pc = "revoke"
      /\ HoldsItsRows(r)
  BY DEF SessionInv, TypeInv, TypeOK, RevokeToken, Ready, HoldingInv
<1>2. req[r].op \in {"refresh", "logout"} /\ req[r].token \in Tokens
  BY <1>1 DEF TypeInv, Fits
<1>3. PICK old \in Tokens : old = req[r].token
  BY <1>2
<1>4. lock[Token(old)] \in {r, NoReq}
  BY <1>1, <1>3 DEF RevokeToken, Ready, Blockers, Writers
<1>5. /\ req'[r].op = req[r].op /\ req'[r].token = old /\ req'[r].fresh = req[r].fresh
      /\ req'[r].pc = (IF req[r].op = "refresh" THEN "insert token" ELSE "commit")
      /\ \A q \in Reqs \ {r} : req'[q] = req[q]
  BY <1>1, <1>3, Names, StatementMoves DEF RevokeToken
<1>6. /\ db' = db /\ lock'[Token(old)] \in {r, NoReq}
      /\ \A x \in Rows : x # Token(old) => lock'[x] = lock[x] /\ latest'[x] = latest[x]
  <2>1. CASE UNCHANGED <<db, latest, lock>>
    BY <1>4, <2>1
  <2>2. CASE Write(r, Token(old), Revoked)
    BY <1>1, <2>2, TokenRows DEF StoreType, Write
  <2> QED
    BY <1>3, <2>1, <2>2 DEF RevokeToken, Update
<1>7. Confined(r)
  BY <1>4, <1>6 DEF Confined
<1>8. HoldsItsTokens(r)'
  <2>1. \A t \in Tokens : lock[Token(t)] # r
    BY <1>1 DEF HoldsItsRows, HoldsItsTokens, Holding
  <2>2. \A t \in Tokens : lock'[Token(t)] = r => t = old
    BY <1>6, <2>1, TokenRows
  <2> QED
    BY <1>2, <1>5, <2>2 DEF HoldsItsTokens, Holding
<1>9. HoldsItsEmail(r)'
  BY <1>1, <1>6, TokenRows DEF HoldsItsRows, HoldsItsEmail
<1>10. FreshIsBorn(r)' /\ Registers(r)'
  BY <1>2, <1>5 DEF FreshIsBorn, Registers
<1> QED
  BY <1>1, <1>5, <1>7, <1>8, <1>9, <1>10, HoldingKept DEF HoldsItsRows

(* After its commit a request holds nothing.                               *)
LEMMA CommitRequestHolds ==
  ASSUME SessionInv, HoldingInv, NEW r \in Reqs, CommitRequest(r)
  PROVE  HoldingInv'
<1>1. TypeInv /\ TypeOK /\ StoreType(Rows, Values) /\ req[r].pc = "commit"
      /\ HoldsItsRows(r) /\ r # NoReq
  BY RowStoreAssumption DEF SessionInv, TypeInv, TypeOK, CommitRequest, HoldingInv
<1>2. Success \in Statuses /\ req[r].pc # "idle"
  BY <1>1, Names
<1>3. /\ req'[r].op = req[r].op /\ req'[r].email = req[r].email
      /\ req'[r].pc = "done"
      /\ \A q \in Reqs \ {r} : req'[q] = req[q]
  BY <1>1, <1>2, StatementMoves DEF CommitRequest
<1>4. \A x \in Rows : /\ lock[x] = r => lock'[x] = NoReq
                      /\ lock[x] # r => lock'[x] = lock[x] /\ db'[x] = db[x]
                                        /\ latest'[x] = latest[x]
  BY <1>1 DEF StoreType, CommitRequest, Commit, Release, Found
<1>5. Confined(r)
  BY <1>4 DEF Confined
<1>6. HoldsItsTokens(r)' /\ HoldsItsEmail(r)'
  BY <1>1, <1>4, TokenRows DEF HoldsItsTokens, HoldsItsEmail
<1>7. FreshIsBorn(r)' /\ Registers(r)'
  BY <1>1, <1>3 DEF FreshIsBorn, Registers, HoldsItsRows
<1> QED
  BY <1>1, <1>3, <1>5, <1>6, <1>7, HoldingKept DEF HoldsItsRows

(* Neither does one that is answered, and a restart undoes all.            *)
LEMMA RestHolds ==
  ASSUME SessionInv, HoldingInv,
         \/ \E r \in Reqs : Respond(r) \/ LoseAnswer(r)
         \/ \E e \in Emails : AttemptAges(e)
         \/ \E t \in Tokens : TokenExpires(t)
         \/ \E c \in Clients : AccessExpires(c)
         \/ Restart \/ UNCHANGED vars
  PROVE  HoldingInv'
<1>1. TypeInv /\ TypeOK
  BY DEF SessionInv, TypeInv
<1>2. Idle.pc = "idle" /\ Idle.op = "none"
  BY DEF Idle, Call
<1>3. ASSUME NEW r \in Reqs, Respond(r) \/ LoseAnswer(r) PROVE HoldingInv'
  <2>1. /\ req'[r] = Idle /\ req[r].pc = "done" /\ UNCHANGED <<db, latest, lock>>
        /\ \A q \in Reqs \ {r} : req'[q] = req[q]
    BY <1>1, <1>3 DEF Respond, LoseAnswer, TypeOK, store
  <2>2. HoldsItsRows(r)'
    BY <1>2, <2>1 DEF HoldingInv, HoldsItsRows, HoldsItsTokens, HoldsItsEmail, FreshIsBorn,
                      Registers, Holding
  <2>3. Confined(r)
    BY <2>1 DEF Confined
  <2> QED
    BY <1>1, <1>2, <2>1, <2>2, <2>3, HoldingKept
<1>4. CASE Restart
  <2>1. \A q \in Reqs : req'[q] = Idle /\ q # NoReq
    BY <1>4, RowStoreAssumption DEF Restart
  <2>2. \A x \in Rows : lock'[x] = NoReq
    BY <1>1, <1>4 DEF Restart, RollbackAll, TypeOK, StoreType
  <2>3. \A q \in Reqs : HoldsItsRows(q)'
    BY <1>2, <2>1, <2>2, TokenRows
       DEF HoldsItsRows, HoldsItsTokens, HoldsItsEmail, FreshIsBorn, Registers
  <2> QED
    BY <2>3 DEF HoldingInv
<1>5. CASE \/ \E e \in Emails : AttemptAges(e)
           \/ \E t \in Tokens : TokenExpires(t)
           \/ \E c \in Clients : AccessExpires(c)
           \/ UNCHANGED vars
  <2>1. UNCHANGED <<db, latest, lock, req>>
    BY <1>5 DEF AttemptAges, TokenExpires, AccessExpires, store, vars
  <2>2. ASSUME NEW q \in Reqs PROVE HoldsItsRows(q)'
    <3>1. HoldsItsRows(q)
      BY DEF HoldingInv
    <3>2. HoldsItsTokens(q)'
      BY <2>1, <3>1 DEF HoldsItsRows, HoldsItsTokens, Holding
    <3> QED
      BY <2>1, <3>1, <3>2 DEF HoldsItsRows, HoldsItsEmail, FreshIsBorn, Registers
  <2> QED
    BY <2>2 DEF HoldingInv
<1> QED
  BY <1>3, <1>4, <1>5

(* No step breaks what the requests hold.                                  *)
LEMMA HoldingStep ==
  ASSUME SessionInv, HoldingInv, [Next]_vars
  PROVE  HoldingInv'
<1>1. TypeInv
  BY DEF SessionInv
<1> QED
  BY <1>1, ArriveHolds, InsertUserHolds, SelectUserHolds, InsertTokenHolds, RevokeTokenHolds,
     CommitRequestHolds, RestHolds DEF Next, Proceed

(* No request holds anything at the start.                                 *)
LEMMA HoldingInit == Init => HoldingInv
<1> SUFFICES ASSUME Init PROVE HoldingInv
  OBVIOUS
<1>1. \A r \in Reqs : req[r] = Idle /\ r # NoReq
  BY RowStoreAssumption DEF Init
<1>2. Idle.pc = "idle" /\ Idle.op = "none"
  BY DEF Idle, Call
<1>3. \A x \in Rows : lock[x] = NoReq
  BY DEF Init
<1> QED
  BY <1>1, <1>2, <1>3, TokenRows
     DEF HoldingInv, HoldsItsRows, HoldsItsTokens, HoldsItsEmail, FreshIsBorn,
         Registers

(* Only a commit changes what is committed.                                *)
LEMMA WhoCommits ==
  ASSUME [Next]_vars, db' # db
  PROVE  \E r \in Reqs : CommitRequest(r)
<1>1. ASSUME NEW r \in Reqs, Arrive(r) PROVE db' = db
  BY <1>1 DEF Arrive, BeginRegister, BeginLogin, BeginRefresh, BeginLogout, BeginMe, store
<1>2. ASSUME NEW r \in Reqs, Proceed(r), ~CommitRequest(r) PROVE db' = db
  BY <1>2 DEF Proceed, InsertUser, SelectUser, InsertToken, RevokeToken, Respond, LoseAnswer,
              Rollback, Write, Update, store
<1>3. CASE (\E e \in Emails : AttemptAges(e)) \/ (\E t \in Tokens : TokenExpires(t))
           \/ (\E c \in Clients : AccessExpires(c)) \/ Restart \/ UNCHANGED vars
  BY <1>3 DEF AttemptAges, TokenExpires, AccessExpires, Restart, RollbackAll, store, vars
<1> QED
  BY <1>1, <1>2, <1>3 DEF Next

(* A token that stops being live was logged out, or its successor became   *)
(* live in the same commit, however refreshes, logouts and restarts fall.  *)
THEOREM SessionsHandedOn == Spec => SessionIsHandedOn
<1> DEFINE Step ==
      \A t \in Tokens :
        db[Token(t)] = Live /\ db'[Token(t)] # Live =>
          \E r \in Reqs :
            /\ Committing(r) /\ req[r].token = t
            /\ req[r].op = "logout" \/ db'[Token(req[r].fresh)] = Live
<1>1. SessionInv /\ HoldingInv /\ [Next]_vars => Step
  <2> SUFFICES ASSUME SessionInv, HoldingInv, [Next]_vars, NEW t \in Tokens,
                      db[Token(t)] = Live, db'[Token(t)] # Live
               PROVE  \E r \in Reqs :
                        /\ Committing(r) /\ req[r].token = t
                        /\ req[r].op = "logout" \/ db'[Token(req[r].fresh)] = Live
    OBVIOUS
  <2>1. PICK r \in Reqs : CommitRequest(r)
    BY WhoCommits
  <2>2. TypeInv /\ TypeOK /\ StoreType(Rows, Values) /\ req[r].pc = "commit" /\ HoldsItsRows(r)
    BY <2>1 DEF SessionInv, TypeInv, TypeOK, CommitRequest, HoldingInv
  <2>3. \A x \in Rows : db'[x] = IF lock[x] = r THEN latest[x] ELSE db[x]
    BY <2>1, <2>2 DEF StoreType, CommitRequest, Commit, Found
  <2>4. lock[Token(t)] = r
    BY <2>3, TokenRows
  <2>5. Committing(r)
    <3>1. req'[r].status = Success
      BY <2>1, <2>2 DEF CommitRequest, Reply, At, Call, TypeOK
    <3> QED
      BY <2>2, <3>1 DEF Committing
  <2>6. req[r].token = t /\ req[r].op \in {"refresh", "logout"}
    BY <2>2, <2>4, ValueTypes DEF HoldsItsRows, HoldsItsTokens, Holding, FreshIsBorn
  <2>7. req[r].op = "refresh" => db'[Token(req[r].fresh)] = Live
    <3> SUFFICES ASSUME req[r].op = "refresh" PROVE db'[Token(req[r].fresh)] = Live
      OBVIOUS
    <3>1. req[r].fresh \in Tokens
      BY <2>2 DEF TypeInv, Fits
    <3>2. lock[Token(req[r].fresh)] = r /\ latest[Token(req[r].fresh)] = Live
      BY <2>2 DEF HoldsItsRows, FreshIsBorn
    <3> QED
      BY <2>3, <3>1, <3>2, TokenRows
  <2> QED
    BY <2>5, <2>6, <2>7
<1> HIDE DEF Step
<1>2. Spec => [][Step]_vars
  BY <1>1, SessionInit, SessionStep, HoldingInit, HoldingStep, PTL DEF Spec
<1> QED
  BY <1>2 DEF SessionIsHandedOn, Step

(* Of any number of registrations of one email that overlap, one succeeds. *)
THEOREM RegisteredOnce == Spec => OneRegistration
<1> DEFINE Step == \A r \in Reqs : Committing(r) /\ req[r].op = "register"
                                     => db[User(req[r].email)] = Absent
<1>1. HoldingInv => Step
  BY DEF HoldingInv, HoldsItsRows, Registers, Committing
<1> HIDE DEF Step
<1>2. Spec => [][Step]_vars
  BY <1>1, SessionInit, SessionStep, HoldingInit, HoldingStep, PTL DEF Spec
<1> QED
  BY <1>2 DEF OneRegistration, Step

-----------------------------------------------------------------------------
(* The limit on logins.  LoginBurstBound is not inductive: the logins that *)
(* are past the check may all fail, so they are counted with the failures. *)

(* The logins for e that are past the check and not decided.               *)
Past(c, e) == c.pc = "select user" /\ c.email = e

Undecided(e) == {r \in Reqs : Past(req[r], e)}

LoginInv ==
  \A e \in Emails : failed[e] + Cardinality(Undecided(e)) < LoginMax + Cardinality(Reqs)

(* There are finitely many of them.                                        *)
LEMMA CountedLogins ==
  ASSUME NEW e
  PROVE  /\ Cardinality(Reqs) \in Nat /\ Cardinality(Reqs) > 0 /\ LoginMax \in Nat
         /\ IsFiniteSet(Undecided(e)) /\ Cardinality(Undecided(e)) \in Nat
         /\ Cardinality(Undecided(e)') \in Nat
         /\ Cardinality(Undecided(e)') <= Cardinality(Reqs)
<1>1. Cardinality(Reqs) \in Nat /\ Cardinality(Reqs) # 0
  BY RequestsAssumption, FS_CardinalityType, FS_EmptySet
<1>2. Undecided(e) \in SUBSET Reqs /\ Undecided(e)' \in SUBSET Reqs
  BY DEF Undecided
<1>3. /\ IsFiniteSet(Undecided(e)) /\ IsFiniteSet(Undecided(e)')
      /\ Cardinality(Undecided(e)') <= Cardinality(Reqs)
  BY <1>2, RequestsAssumption, FS_Subset
<1>4. Cardinality(Undecided(e)) \in Nat /\ Cardinality(Undecided(e)') \in Nat
  BY <1>3, FS_CardinalityType
<1> QED
  BY <1>1, <1>3, <1>4, AuthAssumption

(* A step after which no more failures are recorded and no other login is  *)
(* past the check.                                                         *)
LEMMA NoMoreFailures ==
  ASSUME TypeOK, TypeOK', LoginInv, NEW e \in Emails, failed'[e] <= failed[e],
         \A q \in Reqs : Past(req'[q], e) => Past(req[q], e)
  PROVE  failed'[e] + Cardinality(Undecided(e)') < LoginMax + Cardinality(Reqs)
<1>1. Undecided(e)' \in SUBSET Undecided(e)
  BY DEF Undecided
<1>2. Cardinality(Undecided(e)') <= Cardinality(Undecided(e))
  BY <1>1, CountedLogins, FS_Subset
<1>3. failed[e] \in Nat /\ failed'[e] \in Nat
  BY DEF TypeOK
<1>4. failed[e] + Cardinality(Undecided(e)) < LoginMax + Cardinality(Reqs)
  BY DEF LoginInv
<1> QED
  BY <1>2, <1>3, <1>4, CountedLogins

(* A login gets past the check while fewer failures than the limit are     *)
(* recorded, and every other request begins elsewhere.                     *)
LEMMA ArriveLogin ==
  ASSUME TypeOK, TypeOK', LoginInv, NEW r \in Reqs, Arrive(r), NEW e \in Emails
  PROVE  failed'[e] + Cardinality(Undecided(e)') < LoginMax + Cardinality(Reqs)
<1>0. req \in [Reqs -> Requests]
  BY DEF TypeOK
<1>1. failed' = failed /\ \A q \in Reqs \ {r} : req'[q] = req[q]
  BY <1>0 DEF Arrive, BeginRegister, BeginLogin, BeginRefresh, BeginLogout, BeginMe, Starts
<1>2. PICK n \in Nat : n = failed[e] /\ n = failed'[e]
  BY <1>1 DEF TypeOK
<1>3. CASE n < LoginMax
  BY <1>2, <1>3, CountedLogins
<1>4. CASE ~(n < LoginMax)
  <2>1. \A o, c, f, a, t, x, s : Starts(r, Call(o, c, a, t, f, x, s)) =>
          req'[r].pc = x /\ req'[r].email = a
    BY <1>0 DEF Starts, Call
  <2>2. ~Past(req'[r], e)
    <3>1. ASSUME NEW c \in Clients, NEW a \in Emails, NEW f \in Tokens, BeginLogin(r, c, a, f)
          PROVE  ~Past(req'[r], e)
      <4>1. CASE a # e
        <5>1. /\ Starts(r, Call("login", c, a, None, f, "done", 429)) => req'[r].email = a
              /\ Starts(r, Call("login", c, a, None, f, "select user", 0)) => req'[r].email = a
          BY <2>1
        <5> QED
          BY <3>1, <4>1, <5>1 DEF BeginLogin, Past
      <4>2. CASE a = e
        <5>1. LimitReached(e)
          BY <1>2, <1>4, AuthAssumption DEF LimitReached
        <5>2. Starts(r, Call("login", c, a, None, f, "done", 429)) => req'[r].pc = "done"
          BY <2>1
        <5> QED
          BY <3>1, <4>2, <5>1, <5>2 DEF BeginLogin, Past
      <4> QED
        BY <4>1, <4>2
    <3>2. (\E a \in Emails : BeginRegister(r, a)) => req'[r].pc = "insert user"
      BY <2>1 DEF BeginRegister
    <3>3. (\E c \in Clients, f \in Tokens : BeginRefresh(r, c, f))
            => req'[r].pc \in {"revoke", "done"}
      BY <2>1 DEF BeginRefresh
    <3>4. (\E c \in Clients : BeginLogout(r, c)) => req'[r].pc \in {"revoke", "done"}
      BY <2>1 DEF BeginLogout
    <3>5. (\E c \in Clients : BeginMe(r, c)) => req'[r].pc = "done"
      BY <2>1 DEF BeginMe
    <3> QED
      BY <3>1, <3>2, <3>3, <3>4, <3>5 DEF Arrive, Past
  <2>3. failed'[e] <= failed[e]
    BY <1>2
  <2> QED
    BY <1>1, <2>2, <2>3, NoMoreFailures
<1> QED
  BY <1>3, <1>4

(* A failure is recorded by a login that is then no longer undecided.      *)
LEMMA DecidedLogin ==
  ASSUME TypeInv, TypeOK', LoginInv, NEW r \in Reqs, SelectUser(r), NEW e \in Emails
  PROVE  failed'[e] + Cardinality(Undecided(e)') < LoginMax + Cardinality(Reqs)
<1>1. TypeOK /\ req[r].pc = "select user"
  BY DEF TypeInv, SelectUser
<1>2. PICK a \in Emails : a = req[r].email
  BY <1>1 DEF TypeInv, Fits
<1>3. 401 \in Statuses /\ "insert token" \in Statements /\ req[r].pc # "idle"
  BY <1>1, Names
<1>4. /\ req'[r].pc \in {"insert token", "done"}
      /\ \A q \in Reqs \ {r} : req'[q] = req[q]
  BY <1>1, <1>3, StatementMoves DEF SelectUser
<1>5. PICK n \in Nat : n = failed[e]
  BY <1>1 DEF TypeOK
<1>6. CASE a = e
  <2>1. r \in Undecided(e) /\ Undecided(e)' = Undecided(e) \ {r}
    BY <1>1, <1>2, <1>4, <1>6 DEF Undecided, Past
  <2>2. Cardinality(Undecided(e)') = Cardinality(Undecided(e)) - 1
    BY <2>1, CountedLogins, FS_RemoveElement
  <2>3. failed'[e] \in {n + 1, 0}
    BY <1>1, <1>2, <1>5, <1>6 DEF SelectUser, TypeOK
  <2>4. n + Cardinality(Undecided(e)) < LoginMax + Cardinality(Reqs)
    BY <1>5 DEF LoginInv
  <2> QED
    BY <2>2, <2>3, <2>4, CountedLogins
<1>7. CASE a # e
  <2>1. failed'[e] = failed[e]
    BY <1>1, <1>2, <1>7 DEF SelectUser, TypeOK
  <2>2. failed'[e] <= failed[e]
    BY <1>5, <2>1
  <2>3. \A q \in Reqs : Past(req'[q], e) => Past(req[q], e)
    BY <1>4 DEF Past
  <2> QED
    BY <1>1, <2>2, <2>3, NoMoreFailures
<1> QED
  BY <1>6, <1>7

(* The other statements are after the check, or of other requests.         *)
LEMMA OtherStatements ==
  ASSUME TypeOK, TypeOK', LoginInv, NEW r \in Reqs, Proceed(r), ~SelectUser(r), NEW e \in Emails
  PROVE  failed'[e] + Cardinality(Undecided(e)') < LoginMax + Cardinality(Reqs)
<1>1. failed' = failed
  BY DEF Proceed, InsertUser, InsertToken, RevokeToken, CommitRequest, Respond, LoseAnswer
<1>2. PICK n \in Nat : n = failed[e]
  BY DEF TypeOK
<1>3. req'[r].pc # "select user" /\ \A q \in Reqs \ {r} : req'[q] = req[q]
  <2>1. CASE Respond(r) \/ LoseAnswer(r)
    <3>1. req'[r] = Idle /\ \A q \in Reqs \ {r} : req'[q] = req[q]
      BY <2>1 DEF Respond, LoseAnswer, TypeOK
    <3> QED
      BY <3>1, IdleType
  <2>2. \A x, s : req' = [req EXCEPT ![r] = At(@, x, s)] =>
          req'[r].pc = x /\ \A q \in Reqs \ {r} : req'[q] = req[q]
    BY DEF TypeOK, At, Call
  <2>3. CASE InsertUser(r) \/ InsertToken(r) \/ RevokeToken(r) \/ CommitRequest(r)
    <3>1. \/ Goto(r, "commit") \/ Goto(r, "insert token")
          \/ Reply(r, 409) \/ Reply(r, Success)
      BY <2>3 DEF InsertUser, InsertToken, RevokeToken, CommitRequest
    <3>2. \A x : Goto(r, x) => req'[r].pc = x /\ \A q \in Reqs \ {r} : req'[q] = req[q]
      BY <2>2 DEF Goto
    <3>3. \A s : Reply(r, s) => req'[r].pc = "done" /\ \A q \in Reqs \ {r} : req'[q] = req[q]
      BY <2>2 DEF Reply
    <3>4. CASE Goto(r, "commit") \/ Goto(r, "insert token")
      <4>1. req'[r].pc \in {"commit", "insert token"} /\ \A q \in Reqs \ {r} : req'[q] = req[q]
        BY <3>2, <3>4
      <4> QED
        BY <4>1
    <3>5. CASE Reply(r, 409) \/ Reply(r, Success)
      BY <3>3, <3>5
    <3> QED
      BY <3>1, <3>4, <3>5
  <2> QED
    BY <2>1, <2>3 DEF Proceed
<1>4. failed'[e] <= failed[e]
  BY <1>1, <1>2
<1>5. \A q \in Reqs : Past(req'[q], e) => Past(req[q], e)
  BY <1>3 DEF Past
<1> QED
  BY <1>4, <1>5, NoMoreFailures

(* Every step keeps the failures below the bound.                          *)
LEMMA LoginStep ==
  ASSUME TypeInv, LoginInv, [Next]_vars
  PROVE  LoginInv'
<1>0. TypeOK /\ TypeOK'
  BY TypeStep DEF TypeInv
<1> SUFFICES ASSUME NEW e \in Emails
             PROVE  failed'[e] + Cardinality(Undecided(e)') < LoginMax + Cardinality(Reqs)
  BY DEF LoginInv
<1>1. PICK n \in Nat : n = failed[e]
  BY <1>0 DEF TypeOK
<1>2. CASE \E r \in Reqs : Arrive(r) \/ Proceed(r)
  BY <1>0, <1>2, ArriveLogin, DecidedLogin, OtherStatements
<1>3. ASSUME NEW a \in Emails, AttemptAges(a)
      PROVE  failed'[e] + Cardinality(Undecided(e)') < LoginMax + Cardinality(Reqs)
  <2>1. req' = req /\ failed'[e] \in {n, n - 1}
    BY <1>0, <1>1, <1>3 DEF AttemptAges, TypeOK
  <2>2. failed'[e] <= failed[e]
    BY <1>1, <2>1
  <2> QED
    BY <1>0, <2>1, <2>2, NoMoreFailures
<1>4. CASE Restart
  <2>1. failed'[e] = 0 /\ \A q \in Reqs : ~Past(req'[q], e)
    BY <1>4, IdleType DEF Restart, Past
  <2>2. failed'[e] <= failed[e]
    BY <1>1, <2>1
  <2> QED
    BY <1>0, <2>1, <2>2, NoMoreFailures
<1>5. CASE (\E t \in Tokens : TokenExpires(t)) \/ (\E c \in Clients : AccessExpires(c))
           \/ UNCHANGED vars
  <2>1. req' = req /\ failed' = failed
    BY <1>5 DEF TokenExpires, AccessExpires, vars
  <2>2. failed'[e] <= failed[e]
    BY <1>1, <2>1
  <2> QED
    BY <1>0, <2>1, <2>2, NoMoreFailures
<1> QED
  BY <1>2, <1>3, <1>4, <1>5 DEF Next

(* Logins that check the limit before any of them has failed get past it   *)
(* together, but the failures of an email never reach the limit plus the   *)
(* number of requests the server works on at the same time.                *)
THEOREM LoginBurstIsBounded == Spec => []LoginBurstBound
<1>1. Init => LoginInv
  <2> SUFFICES ASSUME Init, NEW e \in Emails
               PROVE  failed[e] + Cardinality(Undecided(e)) < LoginMax + Cardinality(Reqs)
    BY DEF LoginInv
  <2>1. failed[e] = 0 /\ Undecided(e) = {}
    BY IdleType DEF Init, Undecided, Past
  <2> QED
    BY <2>1, CountedLogins, FS_EmptySet
<1>2. TypeInv /\ LoginInv => LoginBurstBound
  <2> SUFFICES ASSUME TypeInv, LoginInv, NEW e \in Emails
               PROVE  failed[e] < LoginMax + Cardinality(Reqs)
    BY DEF LoginBurstBound
  <2>1. failed[e] \in Nat
    BY DEF TypeInv, TypeOK
  <2>2. failed[e] + Cardinality(Undecided(e)) < LoginMax + Cardinality(Reqs)
    BY DEF LoginInv
  <2> QED
    BY <2>1, <2>2, CountedLogins
<1> QED
  BY <1>1, <1>2, TypeInit, TypeStep, LoginStep, PTL DEF Spec
-----------------------------------------------------------------------------
(* One request at a time, as the tests make them.  LogoutIsFinal breaks    *)
(* when a refresh has presented its token before a logout commits and      *)
(* commits its successor afterwards; alone, the token a refresh presented  *)
(* is still live when it commits.                                          *)

Serial == \A q, r \in Reqs : q = r

OutIsRevoked == \A t \in out : db[Token(t)] = Revoked

(* What a refresh, a login and a logout know when nothing overlaps them.   *)
PresentedIsLive(r) ==
  req[r].op = "refresh" /\ req[r].pc \in {"revoke", "insert token", "commit"} =>
    db[Token(req[r].token)] = Live
FreshContinues(r) ==
  /\ req[r].op = "refresh" /\ req[r].pc = "commit" =>
       line[req[r].fresh] = line[req[r].token] \union {req[r].token}
  /\ req[r].op = "login" /\ req[r].pc = "commit" => line[req[r].fresh] = {}
LogoutSpends(r) ==
  req[r].op = "logout" /\ req[r].pc = "commit" =>
    lock[Token(req[r].token)] = r /\ latest[Token(req[r].token)] = Revoked

KnowsItsSession(r) == PresentedIsLive(r) /\ FreshContinues(r) /\ LogoutSpends(r)

LogoutInv == OutIsRevoked /\ LogoutIsFinal /\ \A r \in Reqs : KnowsItsSession(r)

SerialInv == Serial /\ SessionInv /\ HoldingInv /\ LogoutInv

(* The one request there is answers for all.                               *)
LEMMA AloneKeeps ==
  ASSUME Serial, NEW r \in Reqs, KnowsItsSession(r)'
  PROVE  \A q \in Reqs : KnowsItsSession(q)'
<1>1. \A q \in Reqs : q = r
  BY DEF Serial
<1>2. ASSUME NEW q \in Reqs PROVE KnowsItsSession(q)'
  <2>1. q = r
    BY <1>1
  <2> QED
    BY <2>1
<1> QED
  BY <1>2

(* Nothing is said of the lines and the logouts while they stay.           *)
LEMMA LinesUnchanged ==
  ASSUME LogoutInv, \A t \in Tokens : db'[Token(t)] = db[Token(t)], TypeOK, UNCHANGED history
  PROVE  OutIsRevoked' /\ LogoutIsFinal'
<1>1. out \subseteq Tokens
  BY DEF TypeOK
<1> QED
  BY <1>1 DEF LogoutInv, OutIsRevoked, LogoutIsFinal, history

(* A refresh begins with a live token.                                     *)
LEMMA ArriveAlone ==
  ASSUME SerialInv, NEW r \in Reqs, Arrive(r)
  PROVE  LogoutInv'
<1>1. TypeOK /\ UNCHANGED <<db, latest, lock>> /\ UNCHANGED history
  BY DEF SerialInv, SessionInv, TypeInv, Arrive, BeginRegister, BeginLogin, BeginRefresh,
         BeginLogout, BeginMe, store
<1>2. req'[r].pc \notin {"commit", "insert token"}
  BY <1>1, Arrivals DEF Newcomer
<1>3. req'[r].op = "refresh" /\ req'[r].pc = "revoke" => db[Token(req'[r].token)] = Live
  <2>1. req \in [Reqs -> Requests]
    BY <1>1 DEF TypeOK
  <2>2. CASE \E c \in Clients, f \in Tokens : BeginRefresh(r, c, f)
    BY <2>1, <2>2 DEF BeginRefresh, Starts, Call
  <2>3. CASE ~\E c \in Clients, f \in Tokens : BeginRefresh(r, c, f)
    <3>1. \A o, c, e, t, f, n, s : Starts(r, Call(o, c, e, t, f, n, s)) => req'[r].op = o
      BY <2>1 DEF Starts, Call
    <3>2. (\E e \in Emails : BeginRegister(r, e)) => req'[r].op = "register"
      BY <3>1 DEF BeginRegister
    <3>3. (\E c \in Clients, e \in Emails, f \in Tokens : BeginLogin(r, c, e, f))
            => req'[r].op = "login"
      BY <3>1 DEF BeginLogin
    <3>4. (\E c \in Clients : BeginLogout(r, c)) => req'[r].op = "logout"
      BY <3>1 DEF BeginLogout
    <3>5. (\E c \in Clients : BeginMe(r, c)) => req'[r].op = "me"
      BY <3>1 DEF BeginMe
    <3>6. req'[r].op # "refresh"
      BY <2>3, <3>2, <3>3, <3>4, <3>5 DEF Arrive
    <3> QED
      BY <3>6
  <2> QED
    BY <2>2, <2>3
<1>4. KnowsItsSession(r)'
  BY <1>1, <1>2, <1>3 DEF KnowsItsSession, PresentedIsLive, FreshContinues, LogoutSpends
<1>5. OutIsRevoked' /\ LogoutIsFinal'
  BY <1>1, LinesUnchanged DEF SerialInv
<1> QED
  BY <1>4, <1>5, AloneKeeps DEF SerialInv, LogoutInv

(* A registration and the check of a password write no token.              *)
LEMMA UserStatementAlone ==
  ASSUME SerialInv, NEW r \in Reqs, InsertUser(r) \/ SelectUser(r)
  PROVE  LogoutInv'
<1>1. TypeOK /\ Fits(req[r]) /\ db' = db /\ UNCHANGED history
  BY DEF SerialInv, SessionInv, TypeInv, InsertUser, SelectUser, Write, Rollback, store
<1>2. /\ \A n : Goto(r, n) => req'[r].op = req[r].op /\ req'[r].pc = n
      /\ \A s : Reply(r, s) => req'[r].op = req[r].op /\ req'[r].pc = "done"
  <2>1. \A n, s : req' = [req EXCEPT ![r] = At(@, n, s)] =>
          req'[r].op = req[r].op /\ req'[r].pc = n
    BY <1>1 DEF TypeOK, At, Call
  <2> QED
    BY <2>1 DEF Goto, Reply
<1>3. /\ req'[r].op = req[r].op
      /\ req[r].op = "register" \/ (req[r].op = "login" /\ req'[r].pc # "commit")
  <2>1. CASE InsertUser(r)
    <3>1. req[r].op = "register"
      BY <1>1, <2>1 DEF InsertUser, Ready, Fits
    <3>2. Goto(r, "commit") \/ Reply(r, 409)
      BY <2>1 DEF InsertUser
    <3>3. req'[r].op = req[r].op
      BY <1>2, <3>2
    <3> QED
      BY <3>1, <3>3
  <2>2. CASE SelectUser(r)
    <3>1. req[r].op = "login"
      BY <1>1, <2>2 DEF SelectUser, Fits
    <3>2. Goto(r, "insert token") \/ Reply(r, 401)
      BY <2>2 DEF SelectUser
    <3>3. req'[r].op = req[r].op /\ req'[r].pc \in {"insert token", "done"}
      BY <1>2, <3>2
    <3> QED
      BY <3>1, <3>3
  <2> QED
    BY <2>1, <2>2
<1>4. KnowsItsSession(r)'
  BY <1>3 DEF KnowsItsSession, PresentedIsLive, FreshContinues, LogoutSpends
<1>5. OutIsRevoked' /\ LogoutIsFinal'
  BY <1>1, LinesUnchanged DEF SerialInv
<1> QED
  BY <1>4, <1>5, AloneKeeps DEF SerialInv, LogoutInv

(* The token generated continues the line of a token that is still live.   *)
LEMMA InsertTokenAlone ==
  ASSUME SerialInv, NEW r \in Reqs, InsertToken(r)
  PROVE  LogoutInv'
<1>0. PICK f, old : f = req[r].fresh /\ old = req[r].token
  OBVIOUS
<1>1. /\ TypeInv /\ TypeOK /\ Fits(req[r]) /\ KnowsItsRows(r) /\ KnowsItsSession(r)
      /\ req[r].pc = "insert token" /\ db' = db /\ out' = out
      /\ OutIsRevoked /\ LogoutIsFinal
  BY DEF SerialInv, LogoutInv, SessionInv, TypeInv, InsertToken, Write
<1>2. /\ f \in Tokens /\ req[r].op \in {"login", "refresh"}
      /\ req[r].op = "refresh" => old \in Tokens
  BY <1>0, <1>1 DEF Fits
<1>3. db[Token(f)] = Absent
  BY <1>0, <1>1, <1>2 DEF KnowsItsRows, FreshIsNew
<1>4. req[r].op = "refresh" => db[Token(old)] = Live /\ old # f
  BY <1>0, <1>1, <1>3, ValueTypes DEF KnowsItsSession, PresentedIsLive
<1>5. Moves(r, {"commit"})
  BY <1>1, Names, GotoMoves DEF InsertToken
<1>6. /\ line'[f] = IF req[r].op = "refresh" THEN line[old] \union {old} ELSE {}
      /\ \A t \in Tokens : t # f => line'[t] = line[t]
  BY <1>0, <1>1, <1>2 DEF InsertToken, TypeOK
<1>7. KnowsItsSession(r)'
  BY <1>0, <1>1, <1>2, <1>4, <1>5, <1>6
     DEF Moves, KnowsItsSession, PresentedIsLive, FreshContinues, LogoutSpends
<1>8. OutIsRevoked' /\ LogoutIsFinal'
  BY <1>1, <1>3, <1>6, ValueTypes DEF OutIsRevoked, LogoutIsFinal
<1> QED
  BY <1>7, <1>8, AloneKeeps DEF SerialInv, LogoutInv

(* The token presented is revoked in the transaction.                      *)
LEMMA RevokeTokenAlone ==
  ASSUME SerialInv, NEW r \in Reqs, RevokeToken(r)
  PROVE  LogoutInv'
<1>0. PICK old : old = req[r].token
  OBVIOUS
<1>1. /\ TypeInv /\ TypeOK /\ Fits(req[r]) /\ Kept /\ KnowsItsRows(r) /\ KnowsItsSession(r)
      /\ req[r].pc = "revoke" /\ UNCHANGED history
  BY DEF SerialInv, LogoutInv, SessionInv, TypeInv, RevokeToken, Ready
<1>2. old \in Tokens /\ req[r].op \in {"refresh", "logout"}
  BY <1>0, <1>1 DEF Fits
<1>3. db[Token(old)] # Absent /\ latest[Token(old)] # Absent
  BY <1>0, <1>1, <1>2 DEF KnowsItsRows, PresentedIsKnown, Kept
<1>4. db' = db /\ latest'[Token(old)] = Revoked /\ lock'[Token(old)] = r
  <2>1. Write(r, Token(old), Revoked)
    BY <1>0, <1>3 DEF RevokeToken, Update, Found
  <2> QED
    BY <1>1, <1>2, <2>1, TokenWritten
<1>5. Moves(r, {IF req[r].op = "refresh" THEN "insert token" ELSE "commit"})
  BY <1>1, Names, GotoMoves DEF RevokeToken
<1>6. KnowsItsSession(r)'
  BY <1>0, <1>1, <1>2, <1>4, <1>5
     DEF Moves, KnowsItsSession, PresentedIsLive, FreshContinues, LogoutSpends
<1>7. OutIsRevoked' /\ LogoutIsFinal'
  BY <1>1, <1>4, LinesUnchanged DEF SerialInv
<1> QED
  BY <1>6, <1>7, AloneKeeps DEF SerialInv, LogoutInv

(* A refresh commits the successor of a token that no logout has ended,    *)
(* and a logout ends a token that no live one descends from.               *)
LEMMA CommitAlone ==
  ASSUME SerialInv, NEW r \in Reqs, CommitRequest(r)
  PROVE  LogoutInv'
<1>0. PICK f, old : f = req[r].fresh /\ old = req[r].token
  OBVIOUS
<1>1. /\ TypeInv /\ TypeOK /\ StoreType(Rows, Values) /\ Fits(req[r]) /\ Kept /\ Lineage
      /\ HoldsItsRows(r) /\ KnowsItsRows(r) /\ KnowsItsSession(r)
      /\ req[r].pc = "commit" /\ OutIsRevoked /\ LogoutIsFinal /\ line' = line
      /\ out \subseteq Tokens
  BY DEF SerialInv, LogoutInv, SessionInv, HoldingInv, TypeInv, TypeOK, CommitRequest
<1>2. \A t \in Tokens :
        db'[Token(t)] = IF lock[Token(t)] = r THEN latest[Token(t)] ELSE db[Token(t)]
  BY <1>1, TokenRows DEF CommitRequest, Commit, Found, StoreType
<1>3. \A t \in Tokens : lock[Token(t)] = r =>
        \/ t = old /\ req[r].op \in {"refresh", "logout"}
        \/ t = f /\ req[r].op \in {"login", "refresh"}
  BY <1>0, <1>1 DEF HoldsItsRows, HoldsItsTokens, Holding
<1>4. req[r].op \in {"refresh", "logout"} =>
        old \in Tokens /\ lock[Token(old)] = r /\ latest[Token(old)] = Revoked
  BY <1>0, <1>1 DEF Fits, KnowsItsRows, PresentedIsSpent, KnowsItsSession, LogoutSpends
<1>5. req[r].op \in {"login", "refresh"} =>
        /\ f \in Tokens /\ db[Token(f)] = Absent /\ latest[Token(f)] = Live
  BY <1>0, <1>1 DEF Fits, HoldsItsRows, FreshIsBorn
<1>6. /\ out' \subseteq Tokens
      /\ \A t \in out' : t \in out \/ (t = old /\ req[r].op = "logout" /\ db[Token(old)] = Live)
  BY <1>0, <1>1, <1>4 DEF CommitRequest
<1>7. ASSUME NEW t \in out' PROVE db'[Token(t)] = Revoked
  <2>1. CASE t \in out
    BY <1>1, <1>2, <1>3, <1>4, <1>5, <2>1, ValueTypes DEF OutIsRevoked
  <2>2. CASE t = old /\ req[r].op = "logout"
    BY <1>2, <1>4, <2>2
  <2> QED
    BY <1>6, <2>1, <2>2
<1>8. ASSUME NEW t \in Tokens, db'[Token(t)] = Live, NEW a \in line[t], a \in out'
      PROVE  FALSE
  <2>1. a \in Tokens
    BY <1>6, <1>8
  <2>2. CASE lock[Token(t)] # r
    <3>1. db[Token(t)] = Live
      BY <1>2, <1>8, <2>2
    <3>2. db[Token(a)] = Revoked
      BY <1>1, <1>8, <3>1, ValueTypes DEF Kept, Lineage, Spent
    <3>3. a \in out
      BY <1>6, <1>8, <3>2, ValueTypes
    <3> QED
      BY <1>1, <1>8, <3>1, <3>3 DEF LogoutIsFinal
  <2>3. CASE lock[Token(t)] = r
    <3>1. t = f /\ req[r].op \in {"login", "refresh"}
      BY <1>2, <1>3, <1>4, <1>8, <2>3, ValueTypes
    <3>2. a \in out
      BY <1>6, <1>8, <3>1
    <3>3. req[r].op = "refresh" /\ a \in line[old] \union {old}
      BY <1>0, <1>1, <1>8, <3>1 DEF KnowsItsSession, FreshContinues
    <3>4. db[Token(old)] = Live /\ old \in Tokens
      BY <1>0, <1>1, <1>4, <3>3 DEF KnowsItsSession, PresentedIsLive
    <3> QED
      BY <1>1, <3>2, <3>3, <3>4, ValueTypes DEF OutIsRevoked, LogoutIsFinal
  <2> QED
    BY <2>2, <2>3
<1>9. OutIsRevoked' /\ LogoutIsFinal'
  BY <1>1, <1>7, <1>8 DEF OutIsRevoked, LogoutIsFinal
<1>10. KnowsItsSession(r)'
  <2>1. req'[r].pc = "done"
    BY <1>1, Names, ReplyMoves DEF CommitRequest, Moves
  <2> QED
    BY <2>1 DEF KnowsItsSession, PresentedIsLive, FreshContinues, LogoutSpends
<1> QED
  BY <1>9, <1>10, AloneKeeps DEF SerialInv, LogoutInv

(* Answers, time and restarts commit nothing.                              *)
LEMMA RestAlone ==
  ASSUME SerialInv,
         \/ \E r \in Reqs : Respond(r) \/ LoseAnswer(r)
         \/ \E e \in Emails : AttemptAges(e)
         \/ \E t \in Tokens : TokenExpires(t)
         \/ \E c \in Clients : AccessExpires(c)
         \/ Restart
         \/ UNCHANGED vars
  PROVE  LogoutInv'
<1>1. TypeOK /\ db' = db /\ UNCHANGED history
  BY DEF SerialInv, SessionInv, TypeInv, Respond, LoseAnswer, AttemptAges, TokenExpires,
         AccessExpires, Restart, RollbackAll, store, vars, history
<1>2. OutIsRevoked' /\ LogoutIsFinal'
  BY <1>1, LinesUnchanged DEF SerialInv
<1>3. ASSUME NEW r \in Reqs PROVE KnowsItsSession(r)'
  <2>1. Idle.op = "none"
    BY DEF Idle, Call
  <2>2. CASE req'[r] = Idle
    BY <2>1, <2>2 DEF KnowsItsSession, PresentedIsLive, FreshContinues, LogoutSpends
  <2>3. CASE UNCHANGED <<latest, lock, req>>
    BY <1>1, <2>3 DEF SerialInv, LogoutInv, KnowsItsSession, PresentedIsLive, FreshContinues,
                      LogoutSpends, history
  <2>4. ASSUME NEW q \in Reqs, Respond(q) \/ LoseAnswer(q) PROVE req'[r] = Idle
    <3>1. q = r
      BY DEF SerialInv, Serial
    <3> QED
      BY <1>1, <2>4, <3>1 DEF Respond, LoseAnswer, TypeOK
  <2>5. Restart => req'[r] = Idle
    BY DEF Restart
  <2> QED
    BY <2>2, <2>3, <2>4, <2>5 DEF AttemptAges, TokenExpires, AccessExpires, store, vars
<1> QED
  BY <1>2, <1>3 DEF LogoutInv

(* No step of a request that is alone breaks the invariant.                *)
LEMMA SerialStep ==
  ASSUME SerialInv, [Next]_vars
  PROVE  SerialInv'
<1>1. SessionInv' /\ HoldingInv'
  BY SessionStep, HoldingStep DEF SerialInv
<1>2. LogoutInv'
  BY ArriveAlone, UserStatementAlone, InsertTokenAlone, RevokeTokenAlone, CommitAlone, RestAlone
     DEF Next, Proceed
<1> QED
  BY <1>1, <1>2 DEF SerialInv, Serial

(* Nothing was logged out yet.                                             *)
LEMMA SerialInit == Serial /\ Init => SerialInv
<1>1. ASSUME Init PROVE LogoutInv
  <2>1. Idle.op = "none"
    BY DEF Idle, Call
  <2>2. \A r \in Reqs : req[r].op = "none"
    BY <1>1, <2>1 DEF Init
  <2> QED
    BY <1>1, <2>2 DEF Init, LogoutInv, OutIsRevoked, LogoutIsFinal, KnowsItsSession,
                      PresentedIsLive, FreshContinues, LogoutSpends
<1> QED
  BY <1>1, SessionInit, HoldingInit DEF SerialInv

(* One request at a time, a logout is final: no token rotated from one     *)
(* that was logged out is live, through lost answers and restarts.         *)
THEOREM LogoutIsFinalAlone == Serial => (Spec => []LogoutIsFinal)
<1>1. SerialInv /\ [Next]_vars => SerialInv'
  BY SerialStep
<1>2. SerialInv => LogoutIsFinal
  BY DEF SerialInv, LogoutInv
<1>3. ASSUME Serial PROVE Spec => []LogoutIsFinal
  <2>1. Init => SerialInv
    BY <1>3, SerialInit
  <2> QED
    BY <1>1, <1>2, <2>1, PTL DEF Spec
<1> QED
  BY <1>3
=============================================================================
