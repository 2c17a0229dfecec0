--------------------------- MODULE RowStoreProofs ---------------------------
(***************************************************************************)
(* What the operations of RowStore do to the types of its variables, for   *)
(* any set of rows and any values.                                         *)
(***************************************************************************)
EXTENDS RowStore, TLAPS

(* The three functions an INSERT, UPDATE or DELETE changes keep their      *)
(* types.                                                                  *)
LEMMA FoundType ==
  ASSUME NEW Keys, NEW Vals, StoreType(Keys, Vals), NEW r, NEW x \in Keys
  PROVE  Found(r, x) \in Vals
BY DEF StoreType, Found

(* Writing a row of the store keeps it well typed.                         *)
LEMMA WriteType ==
  ASSUME NEW Keys, NEW Vals, StoreType(Keys, Vals),
         NEW r \in Reqs, NEW x, NEW v \in Vals, Write(r, x, v), share' = share
  PROVE  StoreType(Keys, Vals)'
BY DEF StoreType, Write

(* Writing several rows keeps it well typed.                               *)
LEMMA WriteAllType ==
  ASSUME NEW Keys, NEW Vals, StoreType(Keys, Vals),
         NEW r \in Reqs, NEW X, NEW f, \A x \in X : f[x] \in Vals,
         WriteAll(r, X, f), share' = share
  PROVE  StoreType(Keys, Vals)'
BY DEF StoreType, WriteAll

(* An UPDATE or DELETE by key keeps it well typed.                         *)
LEMMA UpdateType ==
  ASSUME NEW Keys, NEW Vals, StoreType(Keys, Vals),
         NEW r \in Reqs, NEW x, NEW v \in Vals, Update(r, x, v), share' = share
  PROVE  StoreType(Keys, Vals)'
<1>1. CASE Found(r, x) = Absent
  BY <1>1 DEF Update, StoreType
<1>2. CASE Found(r, x) # Absent
  BY <1>2, WriteType DEF Update
<1> QED
  BY <1>1, <1>2

(* Sharing a row keeps it well typed.                                      *)
LEMMA KeyShareType ==
  ASSUME NEW Keys, NEW Vals, StoreType(Keys, Vals),
         NEW r \in Reqs, NEW x, KeyShare(r, x), UNCHANGED <<db, latest, lock>>
  PROVE  StoreType(Keys, Vals)'
BY DEF StoreType, KeyShare

(* Ending a transaction, either way, keeps the types.                      *)
LEMMA CommitType ==
  ASSUME NEW Keys, NEW Vals, StoreType(Keys, Vals), NEW r, Commit(r)
  PROVE  StoreType(Keys, Vals)'
BY DEF StoreType, Commit, Release, Found

(* Undoing a transaction keeps it well typed.                              *)
LEMMA RollbackType ==
  ASSUME NEW Keys, NEW Vals, StoreType(Keys, Vals), NEW r, Rollback(r)
  PROVE  StoreType(Keys, Vals)'
BY DEF StoreType, Rollback, Release

(* So does a transaction of one step.                                      *)
LEMMA ReplaceType ==
  ASSUME NEW Keys, NEW Vals, StoreType(Keys, Vals), NEW x, NEW v \in Vals, Replace(x, v)
  PROVE  StoreType(Keys, Vals)'
BY DEF StoreType, Replace

(* Undoing all transactions keeps it well typed.                           *)
LEMMA RollbackAllType ==
  ASSUME NEW Keys, NEW Vals, StoreType(Keys, Vals), RollbackAll
  PROVE  StoreType(Keys, Vals)'
BY DEF StoreType, RollbackAll

(* A step that leaves the store alone keeps it well typed.                 *)
LEMMA StoreUnchanged ==
  ASSUME NEW Keys, NEW Vals, StoreType(Keys, Vals), UNCHANGED store
  PROVE  StoreType(Keys, Vals)'
BY DEF StoreType, store

-----------------------------------------------------------------------------
(* A row nobody has locked has no newer version than the committed one.    *)
Clean == \A x \in DOMAIN lock : lock[x] = NoReq => latest[x] = db[x]

(* A request that does not wait for the row finds its newest version.      *)
LEMMA FoundIsLatest ==
  ASSUME NEW Keys, NEW Vals, StoreType(Keys, Vals), Clean,
         NEW r, NEW x \in Keys, Writers(r, x) = {}
  PROVE  Found(r, x) = latest[x]
BY DEF StoreType, Clean, Writers, Found

(* Writing a row leaves the rows nobody locks alone.                       *)
LEMMA WriteClean ==
  ASSUME NEW Keys, NEW Vals, StoreType(Keys, Vals), Clean,
         NEW r \in Reqs, NEW x, NEW v, Write(r, x, v)
  PROVE  Clean'
BY RowStoreAssumption DEF StoreType, Clean, Write

(* So does writing several rows.                                           *)
LEMMA WriteAllClean ==
  ASSUME NEW Keys, NEW Vals, StoreType(Keys, Vals), Clean,
         NEW r \in Reqs, NEW X, NEW f, WriteAll(r, X, f)
  PROVE  Clean'
BY RowStoreAssumption DEF StoreType, Clean, WriteAll

(* So does an UPDATE or DELETE by key.                                     *)
LEMMA UpdateClean ==
  ASSUME NEW Keys, NEW Vals, StoreType(Keys, Vals), Clean,
         NEW r \in Reqs, NEW x, NEW v, Update(r, x, v)
  PROVE  Clean'
<1>1. CASE Found(r, x) = Absent
  BY <1>1 DEF Update, Clean
<1>2. CASE Found(r, x) # Absent
  BY <1>2, WriteClean DEF Update
<1> QED
  BY <1>1, <1>2

(* A commit publishes the newest version of the rows it unlocks.           *)
LEMMA CommitClean ==
  ASSUME NEW Keys, NEW Vals, StoreType(Keys, Vals), Clean, NEW r, Commit(r)
  PROVE  Clean'
BY DEF StoreType, Clean, Commit, Release, Found

(* A rollback takes back the newest version of the rows it unlocks.        *)
LEMMA RollbackClean ==
  ASSUME NEW Keys, NEW Vals, StoreType(Keys, Vals), Clean, NEW r, Rollback(r)
  PROVE  Clean'
BY DEF StoreType, Clean, Rollback, Release

(* A transaction of one step changes both versions of its row.             *)
LEMMA ReplaceClean ==
  ASSUME NEW Keys, NEW Vals, StoreType(Keys, Vals), Clean, NEW x, NEW v, Replace(x, v)
  PROVE  Clean'
BY DEF StoreType, Clean, Replace

(* After all of them are undone no row has a newer version.                *)
LEMMA RollbackAllClean ==
  ASSUME NEW Keys, NEW Vals, StoreType(Keys, Vals), RollbackAll
  PROVE  Clean'
BY DEF StoreType, Clean, RollbackAll
=============================================================================
