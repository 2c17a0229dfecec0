--------------------------- MODULE ListingsProofs ---------------------------
(***************************************************************************)
(* What a client who walks through a listing gets, for any number of rows, *)
(* any page size and any changes meanwhile.                                *)
(***************************************************************************)
EXTENDS Listings, FiniteSetTheorems, SequenceTheorems, TLAPS

-----------------------------------------------------------------------------
(* Rows, their order and their places.                                     *)

(* Sets of rows can be counted.                                            *)
LEMMA Counted ==
  ASSUME NEW S \in SUBSET Rows
  PROVE  /\ IsFiniteSet(S) /\ Cardinality(S) \in 0 .. Cardinality(Rows)
         /\ Cardinality(Rows) \in Nat
<1>1. IsFiniteSet(Rows)
  BY ListingsAssumption
<1>2. IsFiniteSet(S) /\ Cardinality(S) <= Cardinality(Rows)
  BY <1>1, FS_Subset
<1> QED
  BY <1>1, <1>2, FS_CardinalityType

(* A set of rows has no more of them than a set that contains it, and less *)
(* if it is not all of that.                                               *)
LEMMA Fewer ==
  ASSUME NEW T \in SUBSET Rows, NEW S \in SUBSET T
  PROVE  /\ Cardinality(S) <= Cardinality(T)
         /\ Cardinality(S) = Cardinality(T) => S = T
BY Counted, FS_Subset

(* created_at and id order the rows.                                       *)
LEMMA Order ==
  /\ \A x \in Rows : ~Before(x, x)
  /\ \A x, y \in Rows : x # y => Before(x, y) \/ Before(y, x)
  /\ \A x, y \in Rows : ~(Before(x, y) /\ Before(y, x))
  /\ \A x, y, z \in Rows : Before(x, y) /\ Before(y, z) => Before(x, z)
BY ListingsAssumption DEF Before

(* The rows of S ahead of x, and how many there are.                       *)
AheadIn(S, x) == {y \in S : Before(y, x)}
PlaceIn(S, x) == Cardinality(AheadIn(S, x))

(* Places are numbers, and fewer rows make for lower places.               *)
LEMMA Places ==
  ASSUME NEW S \in SUBSET Rows, NEW x
  PROVE  /\ PlaceIn(S, x) \in Nat
         /\ \A T \in SUBSET Rows :
              AheadIn(S, x) \subseteq AheadIn(T, x) => PlaceIn(S, x) <= PlaceIn(T, x)
         /\ x \in S => PlaceIn(S, x) < Cardinality(S)
<1>1. AheadIn(S, x) \in SUBSET S /\ AheadIn(S, x) \in SUBSET Rows
  BY DEF AheadIn
<1>2. PlaceIn(S, x) \in Nat /\ Cardinality(S) \in Nat
  BY <1>1, Counted DEF PlaceIn
<1>3. Cardinality(AheadIn(S, x)) <= Cardinality(S)
  BY <1>1, Fewer
<1>4. ASSUME NEW T \in SUBSET Rows, AheadIn(S, x) \subseteq AheadIn(T, x)
      PROVE  PlaceIn(S, x) <= PlaceIn(T, x)
  <2>1. AheadIn(T, x) \in SUBSET Rows
    BY DEF AheadIn
  <2> QED
    BY <1>4, <2>1, Fewer DEF PlaceIn
<1>5. ASSUME x \in S PROVE Cardinality(AheadIn(S, x)) # Cardinality(S)
  <2>1. x \notin AheadIn(S, x)
    BY <1>5, Order DEF AheadIn
  <2> QED
    BY <1>1, <1>5, <2>1, Fewer
<1> QED
  BY <1>2, <1>3, <1>4, <1>5 DEF PlaceIn

(* A sorted sequence has every row of its set, and the i-th has i - 1 rows *)
(* ahead of it.                                                            *)
LEMMA SortedPlaces ==
  ASSUME NEW S \in SUBSET Rows, NEW s \in Sorted(S)
  PROVE  /\ s \in Seq(S) /\ Len(s) = Cardinality(S)
         /\ \A i \in 1 .. Cardinality(S) : s[i] \in S /\ PlaceIn(S, s[i]) = i - 1
         /\ \A x \in S : \E i \in 1 .. Cardinality(S) : s[i] = x
<1> DEFINE n == Cardinality(S)
<1>1. n \in Nat /\ IsFiniteSet(S)
  BY Counted
<1>2. s \in [1 .. n -> S] /\ \A i, j \in 1 .. n : i # j => s[i] # s[j]
  BY DEF Sorted, SetToSeqs
<1>3. \A i, j \in 1 .. n : i < j => ~Before(s[j], s[i])
  BY <1>2 DEF Sorted
<1>4. s \in Seq(S) /\ Len(s) = n
  BY <1>1, <1>2
<1>5. s \in Injection(1 .. n, S)
  BY <1>2 DEF Injection, IsInjective
<1>6. Cardinality(1 .. n) = n
  BY <1>1, FS_Interval
<1>7. s \in Surjection(1 .. n, S)
  BY <1>1, <1>5, <1>6, FS_Injection
<1>8. \A x \in S : \E i \in 1 .. n : s[i] = x
  BY <1>7 DEF Surjection
<1>9. ASSUME NEW i \in 1 .. n PROVE PlaceIn(S, s[i]) = i - 1
  <2> DEFINE g == [j \in 1 .. i - 1 |-> s[j]]
             A == AheadIn(S, s[i])
  <2>1. \A j \in 1 .. n : Before(s[j], s[i]) <=> j < i
    <3> SUFFICES ASSUME NEW j \in 1 .. n PROVE Before(s[j], s[i]) <=> j < i
      OBVIOUS
    <3>1. s[i] \in Rows /\ s[j] \in Rows
      BY <1>2
    <3>2. CASE j < i
      BY <1>2, <1>3, <3>1, <3>2, Order
    <3>3. CASE j = i
      BY <3>1, <3>3, Order
    <3>4. CASE i < j
      BY <1>1, <1>3, <3>4
    <3> QED
      BY <1>1, <3>2, <3>3, <3>4
  <2>2. g \in [1 .. i - 1 -> A]
    BY <1>1, <1>2, <2>1 DEF AheadIn
  <2>3. \A j, k \in 1 .. i - 1 : g[j] = g[k] => j = k
    BY <1>1, <1>2
  <2>4. \A y \in A : \E j \in 1 .. i - 1 : g[j] = y
    <3> SUFFICES ASSUME NEW y \in A PROVE \E j \in 1 .. i - 1 : g[j] = y
      OBVIOUS
    <3>1. y \in S /\ Before(y, s[i])
      BY DEF AheadIn
    <3>2. PICK j \in 1 .. n : s[j] = y
      BY <1>8, <3>1
    <3>3. j \in 1 .. i - 1
      BY <1>1, <2>1, <3>1, <3>2
    <3> QED
      BY <3>2, <3>3
  <2>5. g \in Bijection(1 .. i - 1, A)
    BY <2>2, <2>3, <2>4 DEF Bijection, Injection, Surjection, IsInjective
  <2>6. i - 1 \in Nat /\ ExistsBijection(1 .. i - 1, A)
    BY <1>1, <2>5 DEF ExistsBijection
  <2> QED
    BY <2>6, FS_CountingElements DEF PlaceIn
<1> QED
  BY <1>2, <1>4, <1>8, <1>9

-----------------------------------------------------------------------------
(* The types, and how far a walk has come.                                 *)

WalkType ==
  /\ TypeOK
  /\ pc = "more" => offset + Limit < total
  /\ pc = "end" => total <= offset + Limit
  /\ pc = "idle" => offset = 0 /\ shown = <<>> /\ arrived = {} /\ left = {}

(* The numbers of a walk.                                                  *)
LEMMA Numbers ==
  ASSUME TypeOK
  PROVE  /\ offset \in Nat /\ total \in Nat /\ Limit \in Nat /\ Limit >= 1
         /\ Matching \in SUBSET Rows /\ Cardinality(Matching) \in 0 .. Cardinality(Rows)
         /\ shown \in Seq(Rows) /\ Len(shown) \in Nat /\ DOMAIN shown = 1 .. Len(shown)
<1>1. Cardinality(Rows) \in Nat /\ Limit \in Nat /\ Limit >= 1
  BY Counted, ListingsAssumption
<1>2. PICK n \in 0 .. Cardinality(Rows) : offset = n * Limit
  BY DEF TypeOK
<1>3. offset \in Nat
  BY <1>1, <1>2
<1>4. Matching \in SUBSET Rows
  BY DEF Matching
<1> QED
  BY <1>1, <1>3, <1>4, Counted DEF TypeOK

(* A change leaves the client where he is, and is recorded.                *)
LEMMA ChangeFrame ==
  ASSUME TypeOK, Change
  PROVE  /\ UNCHANGED <<kind, filter, pc, offset, total, shown>> /\ Record
         /\ row' \in [Rows -> Values] /\ role' \in [Groups -> Roles \union {Absent}]
         /\ home' \in Groups \union {Unlinked}
<1>1. CASE \E x \in Rows, v \in Values : ChangeRow(x, v)
  <2>1. PICK x \in Rows, v \in Values : ChangeRow(x, v)
    BY <1>1
  <2>2. row' = [row EXCEPT ![x] = v] /\ UNCHANGED <<role, home>>
    BY <2>1 DEF ChangeRow
  <2> QED
    BY <2>1, <2>2 DEF ChangeRow, TypeOK
<1>2. CASE \E g \in Groups, r \in Roles \union {Absent} : ChangeRole(g, r)
  <2>1. PICK g \in Groups, r \in Roles \union {Absent} : ChangeRole(g, r)
    BY <1>2
  <2>2. role' = [role EXCEPT ![g] = r] /\ UNCHANGED <<row, home>>
    BY <2>1 DEF ChangeRole
  <2> QED
    BY <2>1, <2>2 DEF ChangeRole, TypeOK
<1>3. CASE \E g \in Groups \union {Unlinked} : ChangeHome(g)
  BY <1>3 DEF ChangeHome, TypeOK
<1> QED
  BY <1>1, <1>2, <1>3 DEF Change

(* A step of the client changes no row, and the filter only between walks. *)
LEMMA WalkFrame ==
  ASSUME Walk
  PROVE  /\ UNCHANGED <<kind, table>>
         /\ pc # "idle" /\ pc' # "idle" => filter' = filter
BY DEF Walk, ListProjects, ListTasks, ListGroups, ListMembers, ListInvites, Start, Check, Count,
       SelectPage, NextPage, Finish

(* The listing depends on the rows, the roles and the filter.              *)
LEMMA SameListing ==
  ASSUME UNCHANGED <<kind, filter, table>>
  PROVE  Matching' = Matching /\ InReach' = InReach
BY DEF table, Matching, Matches, Exists, ProjectListed, TaskListed, GroupListed, MemberListed,
       InviteListed, Accessible, Asked, InReach

(* The first request of a walk.                                            *)
LEMMA StartFrame ==
  ASSUME ListProjects \/ ListTasks \/ ListGroups \/ ListMembers \/ ListInvites
  PROVE  /\ pc = "idle" /\ pc' = "check" /\ could' = InReach
         /\ UNCHANGED <<kind, table, offset, total, shown, arrived, left, late>>
         /\ TypeOK => filter' \in Filters
BY DEF ListProjects, ListTasks, ListGroups, ListMembers, ListInvites, Start, Filters

(* What a page adds to what is shown: the rows whose places are on it.     *)
PageShown ==
  LET n == Len(shown)
      c == Cardinality(Matching)
  IN /\ shown' \in Seq(Rows)
     /\ Len(shown') = n + (IF c <= offset THEN 0
                           ELSE IF c < offset + Limit THEN c - offset ELSE Limit)
     /\ \A i \in 1 .. n : shown'[i] = shown[i]
     /\ \A i \in n + 1 .. Len(shown') :
          shown'[i] \in Matching /\ PlaceIn(Matching, shown'[i]) = offset + (i - n) - 1
     /\ \A x \in Matching :
          offset <= PlaceIn(Matching, x) /\ PlaceIn(Matching, x) < offset + Limit =>
            \E i \in n + 1 .. Len(shown') : shown'[i] = x

LEMMA SelectFrame ==
  ASSUME TypeOK, SelectPage
  PROVE  PageShown
<1> DEFINE n == Len(shown)
           c == Cardinality(Matching)
           last == IF offset + Limit < c THEN offset + Limit ELSE c
           size == IF c <= offset THEN 0
                   ELSE IF c < offset + Limit THEN c - offset ELSE Limit
<1>1. /\ offset \in Nat /\ Limit \in Nat /\ Limit >= 1 /\ Matching \in SUBSET Rows
      /\ c \in Nat /\ shown \in Seq(Rows) /\ n \in Nat
  BY Numbers
<1>2. PICK s \in Sorted(Matching) : shown' = shown \o Page(s)
  BY DEF SelectPage
<1>3. /\ s \in Seq(Matching) /\ Len(s) = c
      /\ \A i \in 1 .. c : s[i] \in Matching /\ PlaceIn(Matching, s[i]) = i - 1
      /\ \A x \in Matching : \E i \in 1 .. c : s[i] = x
  BY <1>1, <1>2, SortedPlaces
<1>4. Page(s) = SubSeq(s, offset + 1, last)
  BY <1>3 DEF Page
<1> HIDE DEF c, n
<1>5. \A i \in offset + 1 .. last : s[i] \in Matching /\ s[i] \in Rows
  BY <1>1, <1>3
<1>6. /\ Page(s) \in Seq(Rows)
      /\ Len(Page(s)) = IF offset + 1 <= last THEN last - (offset + 1) + 1 ELSE 0
      /\ \A i \in 1 .. last - (offset + 1) + 1 : Page(s)[i] = s[offset + 1 + i - 1]
  BY <1>1, <1>4, <1>5, SubSeqProperties
<1>7. Len(Page(s)) = size /\ \A i \in 1 .. size : Page(s)[i] = s[offset + i]
  BY <1>1, <1>6
<1>8. /\ shown' \in Seq(Rows) /\ Len(shown') = n + size
      /\ \A i \in 1 .. n + size : shown'[i] = IF i <= n THEN shown[i] ELSE Page(s)[i - n]
  <2> DEFINE p == Page(s)
  <2>1. p \in Seq(Rows) /\ Len(p) = size
    BY <1>6, <1>7
  <2> HIDE DEF p, size
  <2>2. /\ shown \o p \in Seq(Rows) /\ Len(shown \o p) = Len(shown) + Len(p)
        /\ \A i \in 1 .. Len(shown) + Len(p) :
             (shown \o p)[i] = IF i <= Len(shown) THEN shown[i] ELSE p[i - Len(shown)]
    BY <1>1, <2>1, ConcatProperties
  <2>3. shown' = shown \o p
    BY <1>2 DEF p
  <2> QED
    BY <2>1, <2>2, <2>3 DEF n, p
<1>9. \A i \in n + 1 .. n + size : shown'[i] = s[offset + (i - n)]
  BY <1>1, <1>7, <1>8
<1>10. ASSUME NEW i \in n + 1 .. n + size
       PROVE  shown'[i] \in Matching /\ PlaceIn(Matching, shown'[i]) = offset + (i - n) - 1
  <2>1. PICK k \in 1 .. c : k = offset + (i - n)
    BY <1>1
  <2>2. shown'[i] = s[k]
    BY <1>9, <2>1
  <2>3. s[k] \in Matching /\ PlaceIn(Matching, s[k]) = k - 1
    BY <1>3
  <2>4. k - 1 = offset + (i - n) - 1
    BY <1>1, <2>1
  <2> QED
    BY <2>2, <2>3, <2>4
<1>11. ASSUME NEW x \in Matching, offset <= PlaceIn(Matching, x),
              PlaceIn(Matching, x) < offset + Limit
       PROVE  \E i \in n + 1 .. n + size : shown'[i] = x
  <2>1. PICK k \in 1 .. c : s[k] = x
    BY <1>3
  <2>2. PlaceIn(Matching, x) = k - 1
    BY <1>3, <2>1
  <2>3. PICK i \in n + 1 .. n + size : i = n + (k - offset)
    BY <1>1, <1>11, <2>2
  <2>4. offset + (i - n) = k
    BY <1>1, <2>3
  <2>5. shown'[i] = s[offset + (i - n)]
    BY <1>9
  <2> QED
    BY <2>1, <2>4, <2>5
<1>12. \A i \in 1 .. n : shown'[i] = shown[i]
  BY <1>1, <1>8
<1> QED
  BY <1>8, <1>10, <1>11, <1>12 DEF PageShown, c, n

(* Init is well typed.                                                     *)
LEMMA TypeInit == Init => WalkType
<1> SUFFICES ASSUME Init PROVE WalkType
  OBVIOUS
<1>1. Cardinality(Rows) \in Nat /\ Limit \in Nat
  BY Counted, ListingsAssumption
<1>2. 0 \in 0 .. Cardinality(Rows) /\ 0 = 0 * Limit
  BY <1>1
<1>3. offset \in {n * Limit : n \in 0 .. Cardinality(Rows)}
  BY <1>2 DEF Init
<1>4. filter \in Filters
  BY DEF Init, Filters
<1>5. row \in [Rows -> Values] /\ role \in [Groups -> Roles \union {Absent}]
  BY DEF Init, Values
<1> QED
  BY <1>1, <1>3, <1>4, <1>5 DEF Init, WalkType, TypeOK

(* Every step keeps the types.                                             *)
LEMMA TypeStep == WalkType /\ [Next]_vars => WalkType'
<1> SUFFICES ASSUME WalkType, [Next]_vars PROVE WalkType'
  OBVIOUS
<1>1. TypeOK
  BY DEF WalkType
<1>2. CASE Change
  <2>1. /\ UNCHANGED <<kind, filter, pc, offset, total, shown>> /\ Record
        /\ row' \in [Rows -> Values] /\ role' \in [Groups -> Roles \union {Absent}]
        /\ home' \in Groups \union {Unlinked}
    BY <1>1, <1>2, ChangeFrame
  <2>2. /\ Matching \in SUBSET Rows /\ Matching' \in SUBSET Rows /\ InReach' \in SUBSET Rows
    BY DEF Matching, InReach
  <2>3. /\ arrived' \subseteq Rows /\ left' \subseteq Rows /\ late' \subseteq Rows
        /\ could' \subseteq Rows
        /\ pc = "idle" => arrived' = arrived /\ left' = left
    BY <1>1, <2>1, <2>2 DEF Record, TypeOK
  <2>4. Filters' = Filters
    BY <2>1 DEF Filters
  <2> QED
    BY <1>1, <2>1, <2>3, <2>4 DEF WalkType, TypeOK
<1>3. CASE Walk
  <2>1. UNCHANGED <<kind, row, role, home>> /\ Filters' = Filters
    BY <1>3, WalkFrame DEF table, Filters
  <2>2. CASE ListProjects \/ ListTasks \/ ListGroups \/ ListMembers \/ ListInvites
    <3>1. InReach \subseteq Rows
      BY DEF InReach
    <3> QED
      BY <1>1, <2>1, <2>2, <3>1, StartFrame DEF WalkType, TypeOK
  <2>3. CASE Check
    BY <1>1, <2>1, <2>3 DEF Check, WalkType, TypeOK
  <2>4. CASE Count
    BY <1>1, <2>1, <2>4, Numbers DEF Count, WalkType, TypeOK, history
  <2>5. CASE SelectPage
    <3>1. shown' \in Seq(Rows)
      BY <1>1, <2>5, SelectFrame DEF PageShown
    <3>2. /\ UNCHANGED <<filter, offset, total, arrived, left, late>> /\ could' = {}
          /\ pc' = IF offset + Limit < total THEN "more" ELSE "end"
      BY <2>5 DEF SelectPage
    <3>3. offset \in Nat /\ total \in Nat /\ Limit \in Nat
      BY <1>1, Numbers
    <3> QED
      BY <1>1, <2>1, <3>1, <3>2, <3>3 DEF WalkType, TypeOK
  <2>6. CASE NextPage
    <3>1. /\ UNCHANGED <<filter, total, shown, arrived, left>> /\ late' = {} /\ could' = InReach
          /\ pc' = "check" /\ pc = "more" /\ offset' = offset + Limit
      BY <2>6 DEF NextPage
    <3>2. PICK n \in 0 .. Cardinality(Rows) : offset = n * Limit
      BY <1>1 DEF TypeOK
    <3>3. /\ Cardinality(Rows) \in Nat /\ Limit \in Nat /\ Limit >= 1
          /\ offset + Limit < Cardinality(Rows)
      BY <1>1, <3>1, Counted, Numbers DEF WalkType, TypeOK
    <3>4. (n + 1) * Limit = offset + Limit /\ n <= offset
      BY <3>2, <3>3
    <3>5. n + 1 \in 0 .. Cardinality(Rows)
      BY <3>2, <3>3, <3>4
    <3>6. offset' \in {m * Limit : m \in 0 .. Cardinality(Rows)}
      BY <3>1, <3>4, <3>5
    <3>7. InReach \subseteq Rows
      BY DEF InReach
    <3> QED
      BY <1>1, <2>1, <3>1, <3>6, <3>7 DEF WalkType, TypeOK
  <2>7. CASE Finish
    <3>1. Cardinality(Rows) \in Nat /\ Limit \in Nat
      BY Counted, ListingsAssumption
    <3>2. 0 \in 0 .. Cardinality(Rows) /\ 0 = 0 * Limit
      BY <3>1
    <3>3. offset' \in {m * Limit : m \in 0 .. Cardinality(Rows)}
      BY <2>7, <3>2 DEF Finish
    <3>4. Everything \in Filters
      BY <1>1 DEF Filters
    <3> QED
      BY <1>1, <2>1, <2>7, <3>1, <3>3, <3>4 DEF Finish, WalkType, TypeOK
  <2> QED
    BY <1>3, <2>2, <2>3, <2>4, <2>5, <2>6, <2>7 DEF Walk
<1>4. CASE UNCHANGED vars
  <2>1. Filters' = Filters
    BY <1>4 DEF vars, Filters
  <2> QED
    BY <1>1, <1>4, <2>1 DEF WalkType, TypeOK, vars, table, history
<1> QED
  BY <1>2, <1>3, <1>4 DEF Next

(* Every variable stays in its type, whatever the sizes.                   *)
THEOREM TypesHold == Spec => []TypeOK
<1>1. WalkType => TypeOK
  BY DEF WalkType
<1> QED
  BY <1>1, TypeInit, TypeStep, PTL DEF Spec

-----------------------------------------------------------------------------
(* The walk.                                                               *)

Walking == pc \notin {"idle", "refused"}

(* The places before this one have been asked for.                         *)
Reached == IF pc \in {"more", "end"} THEN offset + Limit ELSE offset

(* The rows that were in the listing all the time.                         *)
Kept == Matching \ (arrived \union left)

(* A row came into the listing, or went out of it, ahead of x.             *)
ArrivedAhead(x) == \E y \in arrived : Before(y, x)
LeftAhead(x) == \E y \in left : Before(y, x)
LateAhead(x) == \E y \in late : Before(y, x)

(* What a change records, and where it moves a row: not back, unless a row *)
(* came in ahead of it, and not ahead, unless one went out ahead of it.    *)
LEMMA ChangeMoves ==
  ASSUME TypeOK, Change
  PROVE  /\ Reached' = Reached /\ Walking' = Walking
         /\ UNCHANGED <<kind, filter, pc, offset, total, shown>>
         /\ Matching \in SUBSET Rows /\ Matching' \in SUBSET Rows
         /\ ~Walking => UNCHANGED <<arrived, left>>
         /\ late \subseteq late'
         /\ Walking =>
              /\ arrived' = arrived \union (Matching' \ Matching)
              /\ left' = left \union (Matching \ Matching')
              /\ \A x : /\ PlaceIn(Matching', x) <= PlaceIn(Matching, x)
                           \/ \E y \in arrived' : Before(y, x)
                        /\ PlaceIn(Matching, x) <= PlaceIn(Matching', x)
                           \/ \E y \in left' : Before(y, x)
         /\ pc = "select" =>
              \A x : PlaceIn(Matching', x) <= PlaceIn(Matching, x)
                     \/ \E y \in late' : Before(y, x)
<1>1. UNCHANGED <<kind, filter, pc, offset, total, shown>> /\ Record
  BY ChangeFrame
<1>2. Matching \in SUBSET Rows /\ Matching' \in SUBSET Rows
  BY DEF Matching
<1>3. /\ ~Walking => UNCHANGED <<arrived, left>>
      /\ Walking => /\ arrived' = arrived \union (Matching' \ Matching)
                    /\ left' = left \union (Matching \ Matching')
      /\ late \subseteq late'
      /\ pc = "select" => late' = late \union (Matching' \ Matching)
  BY <1>1 DEF Record, Walking
<1>4. ASSUME NEW x, NEW came, Matching' \ Matching \subseteq came
      PROVE  PlaceIn(Matching', x) <= PlaceIn(Matching, x) \/ \E y \in came : Before(y, x)
  <2> SUFFICES ASSUME \A y \in came : ~Before(y, x)
               PROVE  PlaceIn(Matching', x) <= PlaceIn(Matching, x)
    OBVIOUS
  <2>1. AheadIn(Matching', x) \subseteq AheadIn(Matching, x)
    BY <1>4 DEF AheadIn
  <2> QED
    BY <1>2, <2>1, Places
<1>5. ASSUME NEW x, NEW went, Matching \ Matching' \subseteq went
      PROVE  PlaceIn(Matching, x) <= PlaceIn(Matching', x) \/ \E y \in went : Before(y, x)
  <2> SUFFICES ASSUME \A y \in went : ~Before(y, x)
               PROVE  PlaceIn(Matching, x) <= PlaceIn(Matching', x)
    OBVIOUS
  <2>1. AheadIn(Matching, x) \subseteq AheadIn(Matching', x)
    BY <1>5 DEF AheadIn
  <2> QED
    BY <1>2, <2>1, Places
<1>6. Reached' = Reached /\ Walking' = Walking
  BY <1>1 DEF Reached, Walking
<1>7. Walking => /\ Matching' \ Matching \subseteq arrived'
                 /\ Matching \ Matching' \subseteq left'
  BY <1>3
<1>8. pc = "select" => Matching' \ Matching \subseteq late'
  BY <1>3
<1> QED
  BY <1>1, <1>2, <1>3, <1>4, <1>5, <1>6, <1>7, <1>8

-----------------------------------------------------------------------------
(* Rows that are shown twice: a row that was shown stays ahead of the next *)
(* page until one comes in ahead of it.                                    *)

ShownIsPassed ==
  Walking => \A x \in ToSet(shown) : ArrivedAhead(x) \/ PlaceIn(Matching, x) < Reached

RepeatInv == WalkType /\ RepeatsAreExplained /\ ShownIsPassed

LEMMA RepeatStep == RepeatInv /\ [Next]_vars => RepeatInv'
<1> SUFFICES ASSUME RepeatInv, [Next]_vars PROVE RepeatInv'
  OBVIOUS
<1>1. WalkType /\ TypeOK /\ WalkType'
  BY TypeStep DEF RepeatInv, WalkType
<1>2. /\ offset \in Nat /\ Limit \in Nat /\ Limit >= 1 /\ Matching \in SUBSET Rows
      /\ Len(shown) \in Nat /\ DOMAIN shown = 1 .. Len(shown)
  BY <1>1, Numbers
<1>3. CASE Change
  <2>1. /\ Reached' = Reached /\ Walking' = Walking /\ UNCHANGED <<pc, offset, shown>>
        /\ Matching' \in SUBSET Rows
        /\ arrived \subseteq arrived'
        /\ Walking => \A x : PlaceIn(Matching', x) <= PlaceIn(Matching, x)
                             \/ \E y \in arrived' : Before(y, x)
    BY <1>1, <1>3, ChangeMoves
  <2>2. RepeatsAreExplained'
    BY <2>1 DEF RepeatInv, RepeatsAreExplained
  <2>3. ASSUME Walking, NEW x \in ToSet(shown)
        PROVE  (\E y \in arrived' : Before(y, x)) \/ PlaceIn(Matching', x) < Reached
    <3>1. ArrivedAhead(x) \/ PlaceIn(Matching, x) < Reached
      BY <2>3 DEF RepeatInv, ShownIsPassed
    <3>2. PlaceIn(Matching, x) \in Nat /\ PlaceIn(Matching', x) \in Nat /\ Reached \in Nat
      <4>1. Reached \in Nat
        BY <1>2 DEF Reached
      <4> QED
        BY <1>2, <2>1, <4>1, Places
    <3> QED
      BY <2>1, <2>3, <3>1, <3>2 DEF ArrivedAhead
  <2> QED
    BY <1>1, <2>1, <2>2, <2>3 DEF RepeatInv, ShownIsPassed, ArrivedAhead
<1>4. CASE SelectPage
  <2>1. PageShown
    BY <1>1, <1>4, SelectFrame
  <2> DEFINE n == Len(shown)
  <2>2. /\ n \in Nat /\ shown' \in Seq(Rows) /\ Len(shown') \in Nat /\ Len(shown') <= n + Limit
        /\ DOMAIN shown' = 1 .. Len(shown')
        /\ \A i \in 1 .. n : shown'[i] = shown[i]
        /\ \A i \in n + 1 .. Len(shown') :
             shown'[i] \in Matching /\ PlaceIn(Matching, shown'[i]) = offset + (i - n) - 1
    BY <1>2, <2>1, Counted DEF PageShown
  <2>3. /\ UNCHANGED <<kind, filter, table, offset, arrived>> /\ Matching' = Matching
        /\ pc = "select" /\ Reached = offset /\ Reached' = offset + Limit
    BY <1>4, SameListing DEF SelectPage, Reached
  <2>4. \A x \in ToSet(shown) : ArrivedAhead(x) \/ PlaceIn(Matching, x) < offset
    BY <2>3 DEF RepeatInv, ShownIsPassed, Walking
  <2>5. ASSUME NEW i \in 1 .. n, NEW j \in n + 1 .. Len(shown'), shown'[i] = shown'[j]
        PROVE  ArrivedAhead(shown'[i])
    <3>1. PICK k \in Nat : k = offset + (j - n) - 1
      <4>1. offset + (j - n) - 1 \in Nat
        BY <1>2, <2>2
      <4> QED
        BY <4>1
    <3>2. PlaceIn(Matching, shown'[j]) = k /\ k >= offset
      BY <1>2, <2>2, <3>1
    <3>3. shown'[i] = shown[i] /\ shown[i] \in ToSet(shown)
      BY <1>2, <2>2 DEF ToSet
    <3>4. ArrivedAhead(shown[i]) \/ PlaceIn(Matching, shown[i]) < offset
      BY <2>4, <3>3
    <3> QED
      BY <1>2, <2>5, <3>1, <3>2, <3>3, <3>4
  <2>6. ASSUME NEW i \in n + 1 .. Len(shown'), NEW j \in n + 1 .. Len(shown'), i # j
        PROVE  shown'[i] # shown'[j]
    <3>1. PlaceIn(Matching, shown'[i]) = offset + (i - n) - 1
      BY <2>2
    <3>2. PlaceIn(Matching, shown'[j]) = offset + (j - n) - 1
      BY <2>2
    <3> QED
      BY <1>2, <2>2, <2>6, <3>1, <3>2
  <2>7. RepeatsAreExplained'
    <3> SUFFICES ASSUME NEW i \in 1 .. Len(shown'), NEW j \in 1 .. Len(shown'), i # j,
                        shown'[i] = shown'[j]
                 PROVE  ArrivedAhead(shown'[i])
      BY <2>2, <2>3 DEF RepeatsAreExplained, ArrivedAhead
    <3>1. CASE i \in 1 .. n /\ j \in 1 .. n
      <4>1. shown[i] = shown'[i] /\ shown[j] = shown'[j]
        BY <2>2, <3>1
      <4> QED
        BY <1>2, <3>1, <4>1 DEF RepeatInv, RepeatsAreExplained, ArrivedAhead
    <3>2. CASE i \in 1 .. n /\ j \in n + 1 .. Len(shown')
      BY <2>5, <3>2
    <3>3. CASE j \in 1 .. n /\ i \in n + 1 .. Len(shown')
      BY <2>5, <3>3
    <3>4. CASE i \in n + 1 .. Len(shown') /\ j \in n + 1 .. Len(shown')
      BY <2>6, <3>4
    <3> QED
      BY <2>2, <3>1, <3>2, <3>3, <3>4
  <2>8. ASSUME NEW i \in 1 .. Len(shown')
        PROVE  ArrivedAhead(shown'[i]) \/ PlaceIn(Matching, shown'[i]) < offset + Limit
    <3>1. CASE i \in 1 .. n
      <4>1. shown'[i] = shown[i] /\ shown[i] \in ToSet(shown)
        BY <1>2, <2>2, <3>1 DEF ToSet
      <4>2. PICK m \in Nat : m = PlaceIn(Matching, shown[i])
        BY <1>2, Places
      <4>3. ArrivedAhead(shown[i]) \/ m < offset
        BY <2>4, <4>1, <4>2
      <4>4. m < offset => m < offset + Limit
        BY <1>2
      <4> QED
        BY <4>1, <4>2, <4>3, <4>4
    <3>2. CASE i \in n + 1 .. Len(shown')
      <4>1. PlaceIn(Matching, shown'[i]) = offset + (i - n) - 1
        BY <2>2, <3>2
      <4>2. offset + (i - n) - 1 < offset + Limit
        BY <1>2, <2>2, <3>2
      <4> QED
        BY <4>1, <4>2
    <3> QED
      BY <2>2, <3>1, <3>2
  <2>9. ShownIsPassed'
    BY <2>2, <2>3, <2>8 DEF ShownIsPassed, ArrivedAhead, ToSet
  <2> QED
    BY <1>1, <2>7, <2>9 DEF RepeatInv
<1>5. CASE NextPage
  <2>1. /\ UNCHANGED <<kind, filter, table, shown, arrived>> /\ Matching' = Matching
        /\ Reached' = Reached /\ Walking
    BY <1>5, SameListing DEF NextPage, Reached, Walking
  <2> QED
    BY <1>1, <2>1 DEF RepeatInv, RepeatsAreExplained, ShownIsPassed, ArrivedAhead
<1>6. CASE Check \/ Count
  <2>1. /\ UNCHANGED <<kind, filter, table, shown, arrived>> /\ Matching' = Matching
        /\ Reached' = Reached /\ Walking
    BY <1>6, SameListing DEF Check, Count, Reached, Walking, history
  <2> QED
    BY <1>1, <2>1 DEF RepeatInv, RepeatsAreExplained, ShownIsPassed, ArrivedAhead
<1>7. CASE shown' = <<>>
  BY <1>1, <1>7 DEF RepeatInv, RepeatsAreExplained, ShownIsPassed, ToSet
<1>8. CASE ListProjects \/ ListTasks \/ ListGroups \/ ListMembers \/ ListInvites
  BY <1>1, <1>7, <1>8, StartFrame DEF WalkType
<1>9. CASE Finish
  BY <1>7, <1>9 DEF Finish
<1>10. CASE UNCHANGED vars
  <2>1. /\ UNCHANGED <<pc, offset, shown, arrived>> /\ Matching' = Matching
    BY <1>10, SameListing DEF vars, history
  <2> QED
    BY <1>1, <2>1
       DEF RepeatInv, RepeatsAreExplained, ShownIsPassed, ArrivedAhead, Walking, Reached
<1> QED
  BY <1>3, <1>4, <1>5, <1>6, <1>8, <1>9, <1>10 DEF Next, Walk

(* A walk shows a row twice only when one came into the listing ahead of   *)
(* it, whatever else came and went.                                        *)
THEOREM RepeatsExplained == Spec => []RepeatsAreExplained
<1>1. Init => RepeatInv
  BY TypeInit DEF Init, RepeatInv, RepeatsAreExplained, ShownIsPassed, ToSet
<1>2. RepeatInv => RepeatsAreExplained
  BY DEF RepeatInv
<1> QED
  BY <1>1, <1>2, RepeatStep, PTL DEF Spec

-----------------------------------------------------------------------------
(* Rows that are missed: a row that was not shown yet stays where the next *)
(* pages will be until one goes out ahead of it, and the last count has    *)
(* seen it.                                                                *)

KeptIsToCome ==
  Walking => \A x \in Kept : \/ x \in ToSet(shown) \/ LeftAhead(x)
                             \/ Reached <= PlaceIn(Matching, x)

KeptIsCounted ==
  pc = "select" => \A x \in Kept : LateAhead(x) \/ PlaceIn(Matching, x) < total

SkipInv == WalkType /\ SkipsAreExplained /\ KeptIsToCome /\ KeptIsCounted

LEMMA SkipStep == SkipInv /\ [Next]_vars => SkipInv'
<1> SUFFICES ASSUME SkipInv, [Next]_vars PROVE SkipInv'
  OBVIOUS
<1>1. WalkType /\ TypeOK /\ WalkType'
  BY TypeStep DEF SkipInv, WalkType
<1>2. /\ offset \in Nat /\ Limit \in Nat /\ Limit >= 1 /\ Matching \in SUBSET Rows
      /\ Len(shown) \in Nat /\ DOMAIN shown = 1 .. Len(shown) /\ total \in Nat
  BY <1>1, Numbers
<1>3. CASE Change
  <2>1. /\ Reached' = Reached /\ Walking' = Walking /\ UNCHANGED <<pc, offset, shown, total>>
        /\ Matching' \in SUBSET Rows
        /\ Walking => /\ Kept' \subseteq Kept /\ left \subseteq left'
                      /\ \A x : PlaceIn(Matching, x) <= PlaceIn(Matching', x)
                                \/ \E y \in left' : Before(y, x)
        /\ late \subseteq late'
        /\ pc = "select" =>
             \A x : PlaceIn(Matching', x) <= PlaceIn(Matching, x)
                    \/ \E y \in late' : Before(y, x)
    BY <1>1, <1>3, ChangeMoves DEF Kept
  <2>2. pc = "end" \/ pc = "select" => Walking
    BY DEF Walking
  <2>3. SkipsAreExplained'
    BY <2>1, <2>2 DEF SkipInv, SkipsAreExplained, Kept
  <2>4. Reached \in Nat
    BY <1>2 DEF Reached
  <2>5. ASSUME Walking, NEW x \in Kept'
        PROVE  \/ x \in ToSet(shown) \/ \E y \in left' : Before(y, x)
               \/ Reached <= PlaceIn(Matching', x)
    <3>1. x \in ToSet(shown) \/ LeftAhead(x) \/ Reached <= PlaceIn(Matching, x)
      BY <2>1, <2>5 DEF SkipInv, KeptIsToCome
    <3>2. PlaceIn(Matching, x) \in Nat /\ PlaceIn(Matching', x) \in Nat
      BY <1>2, <2>1, Places
    <3> QED
      BY <2>1, <2>4, <2>5, <3>1, <3>2 DEF LeftAhead
  <2>6. ASSUME pc = "select", NEW x \in Kept'
        PROVE  (\E y \in late' : Before(y, x)) \/ PlaceIn(Matching', x) < total
    <3>1. LateAhead(x) \/ PlaceIn(Matching, x) < total
      BY <2>1, <2>2, <2>6 DEF SkipInv, KeptIsCounted
    <3>2. PlaceIn(Matching, x) \in Nat /\ PlaceIn(Matching', x) \in Nat
      BY <1>2, <2>1, Places
    <3> QED
      BY <1>2, <2>1, <2>6, <3>1, <3>2 DEF LateAhead
  <2>7. KeptIsToCome'
    BY <2>1, <2>5 DEF KeptIsToCome, LeftAhead
  <2>8. KeptIsCounted'
    BY <2>1, <2>6 DEF KeptIsCounted, LateAhead
  <2> QED
    BY <1>1, <2>3, <2>7, <2>8 DEF SkipInv
<1>4. CASE SelectPage
  <2>1. PageShown
    BY <1>1, <1>4, SelectFrame
  <2> DEFINE n == Len(shown)
  <2>2. /\ n \in Nat /\ shown' \in Seq(Rows) /\ Len(shown') \in Nat /\ n <= Len(shown')
        /\ DOMAIN shown' = 1 .. Len(shown')
        /\ \A i \in 1 .. n : shown'[i] = shown[i]
        /\ \A x \in Matching :
             offset <= PlaceIn(Matching, x) /\ PlaceIn(Matching, x) < offset + Limit =>
               \E i \in n + 1 .. Len(shown') : shown'[i] = x
    BY <1>2, <2>1, Counted DEF PageShown
  <2>3. /\ UNCHANGED <<kind, filter, table, offset, total, arrived, left, late>>
        /\ Matching' = Matching /\ Kept' = Kept
        /\ pc = "select" /\ Reached = offset /\ Reached' = offset + Limit
    BY <1>4, SameListing DEF SelectPage, Reached, Kept
  <2>4. ToSet(shown) \subseteq ToSet(shown')
    BY <1>2, <2>2 DEF ToSet
  <2>5. ASSUME NEW x \in Kept
        PROVE  x \in ToSet(shown') \/ LeftAhead(x) \/ offset + Limit <= PlaceIn(Matching, x)
    <3>1. x \in Matching
      BY DEF Kept
    <3>2. PICK m \in Nat : m = PlaceIn(Matching, x)
      BY <1>2, Places
    <3>3. x \in ToSet(shown) \/ LeftAhead(x) \/ offset <= m
      BY <2>3, <3>2 DEF SkipInv, KeptIsToCome, Walking
    <3>4. ASSUME offset <= m, m < offset + Limit PROVE x \in ToSet(shown')
      <4>1. PICK i \in n + 1 .. Len(shown') : shown'[i] = x
        BY <2>2, <3>1, <3>2, <3>4
      <4> QED
        BY <2>2, <4>1 DEF ToSet
    <3>5. m < offset + Limit \/ offset + Limit <= m
      BY <1>2
    <3> QED
      BY <2>4, <3>2, <3>3, <3>4, <3>5
  <2>6. KeptIsToCome'
    BY <2>3, <2>5 DEF KeptIsToCome, LeftAhead
  <2>7. ASSUME pc' = "end", NEW x \in Kept
        PROVE  x \in ToSet(shown') \/ LeftAhead(x) \/ LateAhead(x)
    <3>1. PICK m \in Nat : m = PlaceIn(Matching, x)
      BY <1>2, Places
    <3>2. total <= offset + Limit
      BY <1>1, <2>3, <2>7 DEF WalkType
    <3>3. LateAhead(x) \/ m < total
      BY <2>3, <3>1 DEF SkipInv, KeptIsCounted
    <3> QED
      BY <1>2, <2>5, <3>1, <3>2, <3>3
  <2>8. SkipsAreExplained'
    BY <2>3, <2>7 DEF SkipsAreExplained, Kept, LeftAhead, LateAhead
  <2>9. KeptIsCounted'
    BY <1>4 DEF SelectPage, KeptIsCounted
  <2> QED
    BY <1>1, <2>6, <2>8, <2>9 DEF SkipInv
<1>5. CASE ListProjects \/ ListTasks \/ ListGroups \/ ListMembers \/ ListInvites
  <2>1. pc' = "check" /\ offset' = 0
    BY <1>1, <1>5, StartFrame DEF WalkType
  <2>2. Reached' = 0 /\ Matching' \in SUBSET Rows
    BY <2>1 DEF Reached, Matching
  <2>3. \A x : Reached' <= PlaceIn(Matching', x)
    BY <2>2, Places
  <2> QED
    BY <1>1, <2>1, <2>3 DEF SkipInv, SkipsAreExplained, KeptIsToCome, KeptIsCounted
<1>6. CASE Check \/ NextPage
  <2>1. /\ UNCHANGED <<kind, filter, table, shown, arrived, left>> /\ Matching' = Matching
        /\ Kept' = Kept /\ Reached' = Reached /\ Walking
        /\ pc' \notin {"select", "end"}
    BY <1>6, SameListing DEF Check, NextPage, Reached, Walking, Kept
  <2> QED
    BY <1>1, <2>1
       DEF SkipInv, SkipsAreExplained, KeptIsToCome, KeptIsCounted, LeftAhead
<1>7. CASE Count
  <2>1. /\ UNCHANGED <<kind, filter, table, shown, arrived, left>> /\ Matching' = Matching
        /\ Kept' = Kept /\ Reached' = Reached /\ Walking
        /\ pc' = "select" /\ total' = Cardinality(Matching)
    BY <1>7, SameListing DEF Count, Reached, Walking, Kept, history
  <2>2. \A x \in Kept : PlaceIn(Matching, x) < Cardinality(Matching)
    BY <1>2, Places DEF Kept
  <2>3. KeptIsCounted'
    BY <2>1, <2>2 DEF KeptIsCounted
  <2> QED
    BY <1>1, <2>1, <2>3 DEF SkipInv, SkipsAreExplained, KeptIsToCome, LeftAhead
<1>8. CASE Finish
  BY <1>1, <1>8 DEF Finish, SkipInv, SkipsAreExplained, KeptIsToCome, KeptIsCounted, Walking
<1>9. CASE UNCHANGED vars
  <2>1. /\ UNCHANGED <<pc, offset, total, shown, arrived, left, late>> /\ Matching' = Matching
    BY <1>9, SameListing DEF vars, history
  <2> QED
    BY <1>1, <2>1
       DEF SkipInv, SkipsAreExplained, KeptIsToCome, KeptIsCounted, LeftAhead, LateAhead, Walking,
           Reached, Kept
<1> QED
  BY <1>3, <1>4, <1>5, <1>6, <1>7, <1>8, <1>9 DEF Next, Walk

(* A walk misses a row that was there all the time only when one ahead of  *)
(* it went out of the listing, or came in after the last count.            *)
THEOREM SkipsExplained == Spec => []SkipsAreExplained
<1>1. Init => SkipInv
  BY TypeInit DEF Init, SkipInv, SkipsAreExplained, KeptIsToCome, KeptIsCounted, Walking
<1>2. SkipInv => SkipsAreExplained
  BY DEF SkipInv
<1> QED
  BY <1>1, <1>2, SkipStep, PTL DEF Spec

-----------------------------------------------------------------------------
(* A walk while nothing comes or goes shows a prefix of the listing.       *)

Quiet == Walking /\ arrived = {} /\ left = {}

ShownIsPrefix ==
  LET c == Cardinality(Matching) IN
  /\ Len(shown) = IF Reached < c THEN Reached ELSE c
  /\ \A i \in 1 .. Len(shown) : shown[i] \in Matching /\ PlaceIn(Matching, shown[i]) = i - 1

TotalIsExact == pc \in {"select", "more", "end"} => total = Cardinality(Matching)

QuietInv == WalkType /\ (Quiet => ShownIsPrefix /\ TotalIsExact)

LEMMA QuietStep == QuietInv /\ [Next]_vars => QuietInv'
<1> SUFFICES ASSUME QuietInv, [Next]_vars, Quiet' PROVE ShownIsPrefix' /\ TotalIsExact'
  BY TypeStep DEF QuietInv
<1>1. WalkType /\ TypeOK /\ WalkType'
  BY TypeStep DEF QuietInv, WalkType
<1>2. /\ offset \in Nat /\ Limit \in Nat /\ Limit >= 1 /\ Matching \in SUBSET Rows
      /\ Len(shown) \in Nat /\ DOMAIN shown = 1 .. Len(shown)
      /\ Cardinality(Matching) \in Nat
  BY <1>1, Numbers, Counted
<1>3. CASE Change
  <2>1. /\ Reached' = Reached /\ Walking /\ UNCHANGED <<pc, shown, total>>
        /\ arrived' = arrived \union (Matching' \ Matching)
        /\ left' = left \union (Matching \ Matching')
    BY <1>1, <1>3, ChangeMoves DEF Quiet
  <2>2. Matching' = Matching /\ Quiet
    BY <2>1 DEF Quiet
  <2> QED
    BY <2>1, <2>2 DEF QuietInv, ShownIsPrefix, TotalIsExact
<1>4. CASE SelectPage
  <2>1. /\ UNCHANGED <<kind, filter, table, offset, total, arrived, left>>
        /\ Matching' = Matching /\ pc = "select"
        /\ Reached = offset /\ Reached' = offset + Limit
    BY <1>4, SameListing DEF SelectPage, Reached
  <2>2. ShownIsPrefix /\ total = Cardinality(Matching)
    BY <2>1 DEF QuietInv, Quiet, Walking, TotalIsExact
  <2> DEFINE n == Len(shown)
             c == Cardinality(Matching)
  <2>3. PageShown
    BY <1>1, <1>4, SelectFrame
  <2>4. n = IF offset < c THEN offset ELSE c
    BY <2>1, <2>2 DEF ShownIsPrefix
  <2>5. Len(shown') = n + (IF c <= offset THEN 0
                           ELSE IF c < offset + Limit THEN c - offset ELSE Limit)
    BY <2>3 DEF PageShown
  <2>6. Len(shown') = IF offset + Limit < c THEN offset + Limit ELSE c
    BY <1>2, <2>4, <2>5
  <2>7. ASSUME NEW i \in 1 .. Len(shown')
        PROVE  shown'[i] \in Matching /\ PlaceIn(Matching, shown'[i]) = i - 1
    <3>1. CASE i \in 1 .. n
      <4>1. shown'[i] = shown[i]
        BY <2>3, <3>1 DEF PageShown
      <4>2. shown[i] \in Matching /\ PlaceIn(Matching, shown[i]) = i - 1
        BY <2>2, <3>1 DEF ShownIsPrefix
      <4> QED
        BY <4>1, <4>2
    <3>2. CASE i \in n + 1 .. Len(shown')
      <4>1. shown'[i] \in Matching /\ PlaceIn(Matching, shown'[i]) = offset + (i - n) - 1
        BY <2>3, <3>2 DEF PageShown
      <4>2. n = offset
        BY <1>2, <2>4, <2>5, <3>2
      <4>3. offset + (i - n) - 1 = i - 1
        BY <1>2, <4>2
      <4> QED
        BY <4>1, <4>3
    <3>3. i \in 1 .. n \/ i \in n + 1 .. Len(shown')
      BY <1>2, <2>6
    <3> QED
      BY <3>1, <3>2, <3>3
  <2> QED
    BY <2>1, <2>2, <2>6, <2>7 DEF ShownIsPrefix, TotalIsExact
<1>5. CASE ListProjects \/ ListTasks \/ ListGroups \/ ListMembers \/ ListInvites
  <2>1. pc' = "check" /\ offset' = 0 /\ shown' = <<>>
    BY <1>1, <1>5, StartFrame DEF WalkType
  <2>2. Reached' = 0 /\ Cardinality(Matching') \in Nat
    BY <1>1, <2>1, Counted DEF Reached, Matching
  <2> QED
    BY <2>1, <2>2 DEF ShownIsPrefix, TotalIsExact
<1>6. CASE Check \/ Count \/ NextPage
  <2>1. /\ UNCHANGED <<kind, filter, table, shown, arrived, left>> /\ Matching' = Matching
        /\ Reached' = Reached /\ Walking
        /\ pc' \in {"select", "more", "end"} => total' = Cardinality(Matching)
    BY <1>6, SameListing DEF Check, Count, NextPage, Reached, Walking, history
  <2>2. Quiet
    BY <2>1 DEF Quiet
  <2> QED
    BY <2>1, <2>2 DEF QuietInv, ShownIsPrefix, TotalIsExact
<1>7. CASE Finish
  BY <1>7 DEF Finish, Quiet, Walking
<1>8. CASE UNCHANGED vars
  <2>1. /\ UNCHANGED <<pc, offset, total, shown, arrived, left>> /\ Matching' = Matching
    BY <1>8, SameListing DEF vars, history
  <2> QED
    BY <2>1 DEF QuietInv, ShownIsPrefix, TotalIsExact, Quiet, Walking, Reached
<1> QED
  BY <1>3, <1>4, <1>5, <1>6, <1>7, <1>8 DEF Next, Walk

(* A prefix as long as the listing is the listing, in its order.           *)
LEMMA PrefixIsListing ==
  ASSUME WalkType, ShownIsPrefix, Len(shown) = Cardinality(Matching)
  PROVE  /\ ToSet(shown) = Matching
         /\ \A i, j \in DOMAIN shown : i < j => Before(shown[i], shown[j])
<1> DEFINE n == Len(shown)
<1>1. /\ n \in Nat /\ DOMAIN shown = 1 .. n /\ Matching \in SUBSET Rows /\ shown \in Seq(Rows)
  BY Numbers DEF WalkType
<1>2. \A i \in 1 .. n : shown[i] \in Matching /\ PlaceIn(Matching, shown[i]) = i - 1
  BY DEF ShownIsPrefix
<1>3. \A i, j \in 1 .. n : i # j => shown[i] # shown[j]
  BY <1>1, <1>2
<1>4. shown \in [1 .. n -> Matching]
  BY <1>1, <1>2
<1>5. shown \in Injection(1 .. n, Matching)
  BY <1>3, <1>4 DEF Injection, IsInjective
<1>6. IsFiniteSet(Matching) /\ Cardinality(1 .. n) = n
  <2>1. PICK m \in Nat : m = n
    BY <1>1
  <2>2. Cardinality(1 .. m) = m
    BY <2>1, FS_Interval
  <2> QED
    BY <1>1, <2>1, <2>2, Counted
<1>7. shown \in Surjection(1 .. n, Matching)
  BY <1>5, <1>6, FS_Injection
<1>8. ToSet(shown) = Matching
  BY <1>1, <1>4, <1>7 DEF Surjection, ToSet
<1>9. ASSUME NEW i \in 1 .. n, NEW j \in 1 .. n, i < j PROVE Before(shown[i], shown[j])
  <2>1. shown[i] \in Rows /\ shown[j] \in Rows /\ shown[i] # shown[j]
    BY <1>1, <1>2, <1>3, <1>9
  <2>2. ~Before(shown[j], shown[i])
    <3> SUFFICES ASSUME Before(shown[j], shown[i]) PROVE FALSE
      OBVIOUS
    <3>1. AheadIn(Matching, shown[j]) \subseteq AheadIn(Matching, shown[i])
      BY <1>1, <2>1, Order DEF AheadIn
    <3>2. PlaceIn(Matching, shown[j]) <= PlaceIn(Matching, shown[i])
      <4>1. AheadIn(Matching, shown[i]) \in SUBSET Rows
        BY <1>1 DEF AheadIn
      <4> QED
        BY <3>1, <4>1, Fewer DEF PlaceIn
    <3>3. PlaceIn(Matching, shown[i]) = i - 1 /\ PlaceIn(Matching, shown[j]) = j - 1
      BY <1>2
    <3> QED
      BY <1>1, <1>9, <3>2, <3>3
  <2> QED
    BY <2>1, <2>2, Order
<1> QED
  BY <1>1, <1>8, <1>9

(* A walk during which nothing comes or goes shows every row once, in the  *)
(* order of created_at and id, and as many as total says.                  *)
THEOREM QuietWalksExact == Spec => []QuietWalkIsExact
<1>1. Init => QuietInv
  BY TypeInit DEF Init, QuietInv, Quiet, Walking
<1>2. QuietInv => QuietWalkIsExact
  <2> SUFFICES ASSUME QuietInv, pc = "end", arrived = {}, left = {}
               PROVE  /\ ToSet(shown) = Matching
                      /\ Len(shown) = Cardinality(Matching) /\ total = Len(shown)
                      /\ \A i, j \in DOMAIN shown : i < j => Before(shown[i], shown[j])
    BY DEF QuietWalkIsExact, Before
  <2>1. ShownIsPrefix /\ total = Cardinality(Matching) /\ Reached = offset + Limit
    BY DEF QuietInv, Quiet, Walking, TotalIsExact, Reached
  <2>2. /\ TypeOK /\ total <= offset + Limit
    BY DEF QuietInv, WalkType
  <2>3. offset \in Nat /\ Limit \in Nat /\ total \in Nat
    BY <2>2, Numbers
  <2>4. Len(shown) = Cardinality(Matching)
    BY <2>1, <2>2, <2>3 DEF ShownIsPrefix
  <2> QED
    BY <2>1, <2>4, PrefixIsListing DEF QuietInv
<1> QED
  BY <1>1, <1>2, QuietStep, PTL DEF Spec

-----------------------------------------------------------------------------
(* What a page shows was within the caller's reach during the request.     *)

Answering == pc \in {"check", "count", "select"}

(* The check of these listings is about all their rows at once.            *)
Checked == {"tasks", "members", "invites"}

ReachInv ==
  /\ WalkType
  /\ Answering => InReach \subseteq could
  /\ pc \in {"count", "select"} /\ kind \in Checked => could = Rows

(* Whoever may list tasks, members or invites has access to all of them.   *)
LEMMA AllowedReachesAll ==
  ASSUME TypeOK, Allowed, kind \in Checked
  PROVE  InReach = Rows
<1>1. \A g \in Groups : role[g] # Absent => role[g] \in Roles
  BY DEF TypeOK
<1> QED
  BY <1>1 DEF Allowed, Checked, InReach, MayListTasks, MayListMembers, MayListInvites, Accessible

(* The WHERE of the projects and of the groups lists no row out of reach.  *)
LEMMA MatchesWithinReach ==
  ASSUME TypeOK, kind \notin Checked
  PROVE  Matching \subseteq InReach
<1>1. \A g \in Groups : role[g] # Absent => role[g] \in Roles
  BY DEF TypeOK
<1>2. kind \in {"projects", "groups"}
  BY ListingsAssumption DEF TypeOK, Checked
<1>3. CASE kind = "projects"
  BY <1>1, <1>3 DEF Matching, Matches, ProjectListed, Accessible, InReach
<1>4. CASE kind = "groups"
  BY <1>4 DEF Matching, Matches, GroupListed, InReach
<1> QED
  BY <1>2, <1>3, <1>4

LEMMA ReachStep == ReachInv /\ [Next]_vars => ReachInv'
<1> SUFFICES ASSUME ReachInv, [Next]_vars PROVE ReachInv'
  OBVIOUS
<1>1. WalkType /\ TypeOK /\ WalkType'
  BY TypeStep DEF ReachInv, WalkType
<1>2. CASE Change
  <2>1. UNCHANGED <<kind, pc>> /\ Record /\ InReach' \subseteq Rows
    BY <1>1, <1>2, ChangeFrame DEF InReach
  <2>2. Answering => could' = could \union InReach'
    BY <2>1 DEF Record, Answering
  <2>3. pc \in {"count", "select"} => Answering
    BY DEF Answering
  <2> QED
    BY <1>1, <2>1, <2>2, <2>3 DEF ReachInv, Answering
<1>3. CASE Check
  <2>1. /\ UNCHANGED <<kind, filter, table>> /\ InReach' = InReach /\ pc = "check"
        /\ \/ Allowed /\ pc' = "count" /\ could' = could
           \/ pc' = "refused"
    BY <1>3, SameListing DEF Check
  <2>2. Allowed /\ kind \in Checked => InReach = Rows
    BY <1>1, AllowedReachesAll
  <2>3. could \subseteq Rows
    BY <1>1 DEF TypeOK
  <2> QED
    BY <1>1, <2>1, <2>2, <2>3 DEF ReachInv, Answering
<1>4. CASE Count
  <2>1. /\ UNCHANGED <<kind, could>> /\ InReach' = InReach /\ pc = "count" /\ pc' = "select"
    BY <1>4, SameListing DEF Count, history
  <2> QED
    BY <1>1, <2>1 DEF ReachInv, Answering
<1>5. CASE NextPage
  <2>1. could' = InReach /\ InReach' = InReach /\ pc' = "check"
    BY <1>5, SameListing DEF NextPage
  <2> QED
    BY <1>1, <2>1 DEF ReachInv, Answering
<1>6. CASE ListProjects \/ ListTasks \/ ListGroups \/ ListMembers \/ ListInvites
  <2>1. could' = InReach /\ pc' = "check" /\ UNCHANGED <<kind, table>>
    BY <1>6, StartFrame
  <2>2. InReach' = InReach
    BY <2>1 DEF InReach, table
  <2> QED
    BY <1>1, <2>1, <2>2 DEF ReachInv, Answering
<1>7. CASE SelectPage \/ Finish
  BY <1>1, <1>7 DEF SelectPage, Finish, ReachInv, Answering
<1>8. CASE UNCHANGED vars
  <2>1. UNCHANGED <<kind, pc, could>> /\ InReach' = InReach
    BY <1>8, SameListing DEF vars, history
  <2> QED
    BY <1>1, <2>1 DEF ReachInv, Answering
<1> QED
  BY <1>2, <1>3, <1>4, <1>5, <1>6, <1>7, <1>8 DEF Next, Walk

(* A page shows only rows that the caller had access to at some time       *)
(* during the request, whatever he loses meanwhile.                        *)
THEOREM ReachHolds == Spec => ShownWithinReach
<1>1. Init => ReachInv
  BY TypeInit DEF Init, ReachInv, Answering
<1>2. ReachInv /\ [Next]_vars => [\A i \in DOMAIN shown' \ DOMAIN shown : shown'[i] \in could]_shown
  <2> SUFFICES ASSUME ReachInv, [Next]_vars, NEW i \in DOMAIN shown' \ DOMAIN shown
               PROVE  shown'[i] \in could
    OBVIOUS
  <2>1. WalkType /\ TypeOK
    BY DEF ReachInv, WalkType
  <2>2. CASE SelectPage
    <3>1. PageShown /\ pc = "select"
      BY <2>1, <2>2, SelectFrame DEF SelectPage
    <3>2. /\ Len(shown) \in Nat /\ DOMAIN shown = 1 .. Len(shown)
          /\ shown' \in Seq(Rows) /\ DOMAIN shown' = 1 .. Len(shown')
      BY <2>1, <3>1, Numbers DEF PageShown
    <3>3. i \in Len(shown) + 1 .. Len(shown')
      BY <3>2
    <3>4. shown'[i] \in Matching
      BY <3>1, <3>3 DEF PageShown
    <3>5. InReach \subseteq could /\ (kind \in Checked => could = Rows)
      BY <3>1 DEF ReachInv, Answering
    <3>6. Matching \subseteq Rows
      BY DEF Matching
    <3> QED
      BY <2>1, <3>4, <3>5, <3>6, MatchesWithinReach
  <2>3. CASE ~SelectPage
    <3>1. shown' = shown \/ shown' = <<>>
      BY <2>1, <2>3, ChangeFrame
         DEF Next, Walk, ListProjects, ListTasks, ListGroups, ListMembers, ListInvites, Start,
             Check, Count, NextPage, Finish, vars
    <3> QED
      BY <3>1
  <2> QED
    BY <2>2, <2>3
<1> QED
  BY <1>1, <1>2, ReachStep, PTL DEF Spec, ShownWithinReach
=============================================================================
