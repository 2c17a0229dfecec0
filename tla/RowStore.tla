------------------------------ MODULE RowStore ------------------------------
(***************************************************************************)
(* The PostgreSQL database as the services use it: one transaction per     *)
(* HTTP request, at READ COMMITTED.  A SELECT reads what is committed and  *)
(* takes no lock.  An INSERT, UPDATE or DELETE locks its row until the     *)
(* transaction ends and waits while another transaction holds it; an       *)
(* inserted reference locks the row it refers to against deletion (FOR     *)
(* KEY SHARE).  Nothing of this is under src/: it is what the code relies  *)
(* on when it flushes in the repositories and commits in the services.     *)
(*                                                                         *)
(* A row is any key of the tables: the functions below have the set of all *)
(* rows as their domain, and a row that is not in its table is Absent.     *)
(***************************************************************************)
EXTENDS FiniteSets

CONSTANTS Reqs,      \* the requests the server works on at the same time
          NoReq      \* the holder of a lock nobody holds

ASSUME RowStoreAssumption == NoReq \notin Reqs

(* The server works on some requests at a time, however many.              *)
ASSUME RequestsAssumption == IsFiniteSet(Reqs) /\ Reqs # {}

VARIABLES db,        \* the committed value of every row
          latest,    \* its newest version, committed or not
          lock,      \* the request whose transaction wrote that version
          share      \* the requests holding the row FOR KEY SHARE

store == <<db, latest, lock, share>>

Absent == "absent"

-----------------------------------------------------------------------------

StoreType(Keys, Vals) ==
  /\ db \in [Keys -> Vals]
  /\ latest \in [Keys -> Vals]
  /\ lock \in [Keys -> Reqs \union {NoReq}]
  /\ share \in [Keys -> SUBSET Reqs]

(* What a statement of r finds once it holds the row, or is alone with it. *)
Found(r, x) == IF lock[x] = r THEN latest[x] ELSE db[x]

(* The other requests that keep r from writing, or from deleting, row x.   *)
Writers(r, x) == {lock[x]} \ {r, NoReq}
Holders(r, x) == Writers(r, x) \union (share[x] \ {r})

(* A reference to x is checked at once beside an update of x, and waits    *)
(* for a deletion of x that is not committed yet.                          *)
Deleters(r, x) == IF latest[x] = Absent THEN Writers(r, x) ELSE {}

(* Write every row of X, leaving the values of f in it.                    *)
WriteAll(r, X, f) ==
  /\ latest' = [x \in DOMAIN latest |-> IF x \in X THEN f[x] ELSE latest[x]]
  /\ lock' = [x \in DOMAIN lock |-> IF x \in X THEN r ELSE lock[x]]
  /\ db' = db

Write(r, x, v) ==
  /\ latest' = [latest EXCEPT ![x] = v]
  /\ lock' = [lock EXCEPT ![x] = r]
  /\ db' = db

(* UPDATE and DELETE by key: no row found is no error, and no lock.        *)
Update(r, x, v) ==
  IF Found(r, x) = Absent THEN UNCHANGED <<db, latest, lock>> ELSE Write(r, x, v)

KeyShare(r, x) == share' = [share EXCEPT ![x] = @ \union {r}]

Release(r) ==
  /\ lock' = [x \in DOMAIN lock |-> IF lock[x] = r THEN NoReq ELSE lock[x]]
  /\ share' = [x \in DOMAIN share |-> share[x] \ {r}]

Commit(r) ==
  /\ db' = [x \in DOMAIN db |-> Found(r, x)]
  /\ latest' = latest
  /\ Release(r)

Rollback(r) ==
  /\ db' = db
  /\ latest' = [x \in DOMAIN latest |-> IF lock[x] = r THEN db[x] ELSE latest[x]]
  /\ Release(r)

(* A whole transaction in one step: it writes row x, which nobody holds,   *)
(* and commits.                                                            *)
Replace(x, v) ==
  /\ lock[x] = NoReq
  /\ db' = [db EXCEPT ![x] = v]
  /\ latest' = [latest EXCEPT ![x] = v]
  /\ UNCHANGED <<lock, share>>

(* The server stops: its connections close and what they did not commit is *)
(* undone.                                                                 *)
RollbackAll ==
  /\ db' = db
  /\ latest' = db
  /\ lock' = [x \in DOMAIN lock |-> NoReq]
  /\ share' = [x \in DOMAIN share |-> {}]
=============================================================================
