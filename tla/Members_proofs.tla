----------------------------- MODULE Members_proofs -----------------------------
(***************************************************************************)
(* Theorems about Members, for any number of instances, rows and requests   *)
(* at a time: types, the primary node, and the default account.  A behaviour*)
(* is about nodes or about accounts, and each has an invariant of its own.  *)
(***************************************************************************)
EXTENDS Members, FiniteSetTheorems, SequenceTheorems, WellFoundedInduction, TLAPS

--------------------------------------------------------------------------------
(* Types *)

Pcs == {"idle", "insert", "save", "register", "clear", "seek", "first", "promote", "delete"}
ReqType == [pc : Pcs, id : Ids \cup {0}, inst : Instances \cup {None}, flag : BOOLEAN,
            todo : Seq(BOOLEAN)]

\* Rows belong to instances that exist: none outlives its instance.
RowsLive == \A x \in Ids : row[x].inst \in live \cup {None}

\* What a request that goes on will need.
Ready(q) ==
    /\ q.pc # "idle" => q.inst \in Instances
    /\ q.pc \in {"save", "seek", "promote", "delete"} => q.id \in Ids
    /\ q.pc = "register" => q.todo # <<>>

TypeInv ==
    /\ kind \in {"nodes", "accounts"}
    /\ live \in SUBSET Instances
    /\ row \in [Ids -> Rows \cup {Absent}]
    /\ used \in 0..MaxRows
    /\ disturbed \in SUBSET Instances
    /\ req \in [Requests -> ReqType]
    /\ \A r \in Requests : Ready(req[r])

LEMMA RowType ==
    ASSUME TypeInv, NEW id \in Ids
    PROVE  row[id].inst \in Instances \cup {None} /\ row[id].flag \in BOOLEAN
<1>1. row[id] \in Rows \cup {Absent}
  BY DEF TypeInv
<1>2. CASE row[id] \in Rows
  BY <1>2 DEF Rows
<1>3. CASE row[id] = Absent
  BY <1>3 DEF Absent
<1> QED
  BY <1>1, <1>2, <1>3

LEMMA IdleType == Idle \in ReqType /\ Ready(Idle)
<1>1. <<>> \in Seq(BOOLEAN)
  BY EmptySeq
<1>2. ASSUME NEW todo \in Seq(BOOLEAN)
      PROVE  [pc |-> "idle", id |-> 0, inst |-> None, flag |-> FALSE, todo |-> todo] \in ReqType
  BY DEF ReqType, Pcs
<1>3. Idle \in ReqType
  BY <1>1, <1>2, Zenon DEF Idle
<1>4. Ready(Idle)
  BY DEF Idle, Ready
<1> QED
  BY <1>3, <1>4

\* What is copied of a master: a flag for each of its accounts.
LEMMA CopiedType ==
    ASSUME TypeInv, MaxRows \in Nat, NEW m PROVE Copied(m) \in Seq(BOOLEAN)
<1> DEFINE ids == RowsOf(row, m)
           n == Cardinality(ids)
           f == [k \in 1..n |-> \E id \in ids : Rank(id, ids) = k /\ row[id].flag]
<1>1. ids \in SUBSET Ids /\ IsFiniteSet(Ids)
  BY FS_Interval DEF RowsOf, Ids
<1>2. n \in Nat
  BY <1>1, FS_Subset, FS_CardinalityType
<1>3. f \in [1..n -> BOOLEAN]
  OBVIOUS
<1>4. f \in Seq(BOOLEAN)
  <2> HIDE DEF f, n
  <2> QED
    BY <1>2, <1>3
<1> QED
  BY <1>4 DEF Copied

LEMMA RegisteredType ==
    ASSUME TypeInv, MaxRows \in Nat, NEW flags \in Registered PROVE flags \in Seq(BOOLEAN)
<1>1. <<TRUE>> \in Seq(BOOLEAN) /\ <<FALSE, TRUE>> \in Seq(BOOLEAN)
  OBVIOUS
<1> QED
  BY <1>1, CopiedType DEF Registered

\* A request that goes on, or ends.
LEMMA GoesType ==
    ASSUME TypeInv, NEW r \in Requests, NEW q \in ReqType, Ready(q), req' = [req EXCEPT ![r] = q],
           UNCHANGED kind, live' \in SUBSET Instances, row' \in [Ids -> Rows \cup {Absent}],
           used' \in 0..MaxRows, disturbed' \in SUBSET Instances
    PROVE  TypeInv'
<1>1. req' \in [Requests -> ReqType] /\ \A s \in Requests : Ready(req'[s])
  BY DEF TypeInv
<1> QED
  BY <1>1 DEF TypeInv, Ready, Ids

LEMMA EndType ==
    ASSUME TypeInv, NEW r \in Requests, End(r),
           UNCHANGED kind, live' \in SUBSET Instances, row' \in [Ids -> Rows \cup {Absent}],
           used' \in 0..MaxRows, disturbed' \in SUBSET Instances
    PROVE  TypeInv'
  BY IdleType, GoesType DEF End

LEMMA GotoType ==
    ASSUME TypeInv, NEW r \in Requests, NEW pc \in Pcs, Goto(r, pc), Ready([req[r] EXCEPT !.pc = pc]),
           UNCHANGED kind, live' \in SUBSET Instances, row' \in [Ids -> Rows \cup {Absent}],
           used' \in 0..MaxRows, disturbed' \in SUBSET Instances
    PROVE  TypeInv'
<1>1. [req[r] EXCEPT !.pc = pc] \in ReqType
  BY DEF TypeInv, ReqType
<1> QED
  BY <1>1, GoesType DEF Goto

\* A request that takes on work.
LEMMA StartType ==
    ASSUME TypeInv, NEW r \in Requests, NEW q \in ReqType, Ready(q), Start(r, q),
           live' \in SUBSET Instances, disturbed' \in SUBSET Instances
    PROVE  TypeInv'
<1>1. row' \in [Ids -> Rows \cup {Absent}] /\ used' \in 0..MaxRows /\ UNCHANGED kind
  BY DEF Start, TypeInv
<1>2. req' = [req EXCEPT ![r] = q]
  BY DEF Start
<1> QED
  BY <1>1, <1>2, GoesType

LEMMA BeginType ==
    ASSUME TypeInv, NEW r \in Requests, NEW q \in ReqType, Ready(q), Begin(r, q)
    PROVE  TypeInv'
<1>1. Start(r, q) /\ live' \in SUBSET Instances /\ disturbed' \in SUBSET Instances
  BY DEF Begin, TypeInv
<1> QED
  BY <1>1, StartType

\* A row is written for a request that will clear the others, seek a default, or end.
LEMMA WriteType ==
    ASSUME TypeInv, NEW r \in Requests, NEW id \in Ids, Write(r, id), used' \in 0..MaxRows,
           req[r].pc = "insert" \/ (req[r].pc = "save" /\ id = req[r].id), req[r].inst \in live
    PROVE  TypeInv'
<1> DEFINE q == IF NextAfter(r) = "idle" THEN Idle
                ELSE [req[r] EXCEPT !.pc = NextAfter(r), !.id = id]
<1>1. req[r] \in ReqType /\ Ready(req[r]) /\ req[r].inst \in Instances /\ req[r].flag \in BOOLEAN
  BY DEF TypeInv, ReqType
<1>2. NextAfter(r) \in {"clear", "seek", "idle"}
  BY DEF NextAfter
<1>3. q \in ReqType /\ Ready(q)
  <2>1. CASE NextAfter(r) = "idle"
    BY <2>1, IdleType
  <2>2. CASE NextAfter(r) \in {"clear", "seek"}
    BY <1>1, <2>2 DEF ReqType, Ready, Pcs
  <2> QED
    BY <1>2, <2>1, <2>2
<1>4. req' = [req EXCEPT ![r] = q] /\ UNCHANGED <<kind, live>>
  BY DEF Write
<1>5. row' \in [Ids -> Rows \cup {Absent}]
  BY <1>1 DEF Write, TypeInv, Rows
<1>6. disturbed' \in SUBSET Instances
  BY DEF Write, TypeInv, Unset
<1> HIDE DEF q
<1> QED
  BY <1>3, <1>4, <1>5, <1>6, GoesType DEF TypeInv

\* The first row of an instance by id is one of them.
LEMMA FirstRow ==
    ASSUME NEW S \in SUBSET Nat, S # {}
    PROVE  (CHOOSE id \in S : \A x \in S : id <= x) \in S
<1> DEFINE R == {ss \in Nat \X Nat : ss[1] < ss[2]}
<1>1. IsWellFoundedOn(R, Nat)
  BY NatLessThanWellFounded DEF OpToRel
<1>2. PICK x \in S : \A y \in S : <<y, x>> \notin R
  <2> HIDE DEF R
  <2> QED
    BY <1>1, WFMin
<1>3. \A y \in S : x <= y
  <2> SUFFICES ASSUME NEW y \in S, ~(x <= y) PROVE FALSE
    OBVIOUS
  <2>1. <<y, x>> \in Nat \X Nat /\ y < x
    OBVIOUS
  <2>2. <<y, x>>[1] < <<y, x>>[2]
    BY <2>1
  <2>3. <<y, x>> \in R
    BY <2>1, <2>2, Zenon
  <2> QED
    BY <1>2, <2>3
<1> QED
  BY <1>3

LEMMA InsertRegisteredType ==
    ASSUME TypeInv, MaxRows \in Nat, NEW r \in Requests, InsertRegistered(r)
    PROVE  TypeInv'
<1> DEFINE i == req[r].inst
           q == IF Len(req[r].todo) = 1 THEN Idle ELSE [req[r] EXCEPT !.todo = Tail(req[r].todo)]
<1>1. /\ req[r] \in ReqType /\ req[r].pc = "register" /\ i \in Instances
      /\ req[r].todo \in Seq(BOOLEAN) /\ req[r].todo # <<>>
  BY DEF InsertRegistered, TypeInv, Ready, ReqType
<1>2. UNCHANGED <<kind, live>>
  BY DEF InsertRegistered
<1>3. CASE End(r) /\ disturbed' = disturbed \cup {i} /\ UNCHANGED <<row, used>>
  BY <1>1, <1>2, <1>3, EndType DEF TypeInv
<1>4. CASE /\ i \in live /\ used < MaxRows /\ used' = used + 1
           /\ row' = [row EXCEPT ![used + 1] = [inst |-> i, flag |-> Head(req[r].todo)]]
           /\ req' = [req EXCEPT ![r] = q] /\ disturbed' \subseteq disturbed \cup {i}
  <2>1. Head(req[r].todo) \in BOOLEAN /\ Tail(req[r].todo) \in Seq(BOOLEAN)
    BY <1>1, HeadTailProperties
  <2>2. row' \in [Ids -> Rows \cup {Absent}] /\ used' \in 0..MaxRows
    <3> DEFINE h == Head(req[r].todo)
    <3>1. [inst |-> i, flag |-> h] \in Rows
      BY <1>1, <2>1 DEF Rows
    <3> HIDE DEF h
    <3>2. row' = [row EXCEPT ![used + 1] = [inst |-> i, flag |-> h]]
      BY <1>4 DEF h
    <3>3. used + 1 \in Ids /\ used + 1 \in 0..MaxRows /\ row \in [Ids -> Rows \cup {Absent}]
      BY <1>4 DEF TypeInv, Ids
    <3> QED
      BY <1>4, <3>1, <3>2, <3>3
  <2>3. q \in ReqType /\ Ready(q)
    <3>1. CASE Len(req[r].todo) = 1
      BY <3>1, IdleType
    <3>2. CASE Len(req[r].todo) # 1
      <4>1. Len(Tail(req[r].todo)) # 0
        BY <1>1, <3>2, HeadTailProperties, LenProperties
      <4>2. Tail(req[r].todo) # <<>>
        BY <4>1, <2>1, EmptySeq
      <4> QED
        BY <1>1, <2>1, <3>2, <4>2 DEF ReqType, Ready
    <3> QED
      BY <3>1, <3>2
  <2>4. disturbed' \in SUBSET Instances
    BY <1>1, <1>4 DEF TypeInv
  <2> HIDE DEF q
  <2> QED
    BY <1>2, <1>4, <2>2, <2>3, <2>4, GoesType DEF TypeInv
<1>5. Overtaken(r) \subseteq {i}
  BY DEF Overtaken
<1> QED
  BY <1>3, <1>4, <1>5 DEF InsertRegistered, End

LEMMA StepTypes == ASSUME MaxRows \in Nat PROVE TypeInv /\ [Next]_vars => TypeInv'
<1> SUFFICES ASSUME TypeInv, [Next]_vars PROVE TypeInv'
  OBVIOUS
<1>0. /\ \A r \in Requests : req[r] \in ReqType /\ Ready(req[r])
      /\ live \in SUBSET Instances /\ disturbed \in SUBSET Instances
      /\ row \in [Ids -> Rows \cup {Absent}] /\ used \in 0..MaxRows
  BY DEF TypeInv
<1>1. ASSUME NEW r \in Requests, CheckCreate(r) PROVE TypeInv'
  <2>1. PICK i \in live, flag \in BOOLEAN :
            Begin(r, [Idle EXCEPT !.pc = "insert", !.inst = i, !.flag = flag])
    BY <1>1 DEF CheckCreate
  <2> DEFINE q == [Idle EXCEPT !.pc = "insert", !.inst = i, !.flag = flag]
  <2>2. q \in ReqType /\ Ready(q)
    BY <1>0, IdleType DEF ReqType, Ready, Pcs
  <2> HIDE DEF q
  <2> QED
    BY <2>1, <2>2, BeginType DEF q
<1>2. ASSUME NEW r \in Requests, CheckUpdate(r) PROVE TypeInv'
  <2>1. PICK id \in Ids, i \in Instances, flag \in BOOLEAN :
            /\ Exists(id)
            /\ Begin(r, [Idle EXCEPT !.pc = "save", !.id = id, !.inst = i, !.flag = flag])
    BY <1>2 DEF CheckUpdate
  <2> DEFINE q == [Idle EXCEPT !.pc = "save", !.id = id, !.inst = i, !.flag = flag]
  <2>2. q \in ReqType /\ Ready(q)
    BY IdleType DEF ReqType, Ready, Pcs
  <2> HIDE DEF q
  <2> QED
    BY <2>1, <2>2, BeginType DEF q
<1>f. ASSUME NEW r \in Requests, Fail(r) PROVE TypeInv'
  BY <1>0, <1>f, EndType DEF Fail
<1>3. ASSUME NEW r \in Requests, Insert(r) PROVE TypeInv'
  <2>1. CASE Fail(r)
    BY <1>f, <2>1
  <2>2. CASE req[r].inst \in live /\ used < MaxRows /\ used' = used + 1 /\ Write(r, used + 1)
    BY <1>0, <1>3, <2>2, WriteType DEF Insert, Ids
  <2> QED
    BY <1>3, <2>1, <2>2 DEF Insert
<1>4. ASSUME NEW r \in Requests, Save(r) PROVE TypeInv'
  <2>1. CASE Fail(r)
    BY <1>f, <2>1
  <2>2. CASE req[r].inst \in live /\ Write(r, req[r].id) /\ UNCHANGED used
    BY <1>0, <1>4, <2>2, WriteType DEF Save, Ready
  <2> QED
    BY <1>4, <2>1, <2>2 DEF Save
<1>5. ASSUME NEW r \in Requests, ClearOthers(r) PROVE TypeInv'
  <2>1. ASSUME NEW x \in Ids PROVE [row[x] EXCEPT !.flag = FALSE] \in Rows \cup {Absent}
    <3>1. CASE row[x] \in Rows
      BY <3>1 DEF Rows
    <3>2. CASE row[x] = Absent
      <4>1. row[x] \in [inst : {None}, flag : {FALSE}]
        BY <3>2 DEF Absent
      <4>2. [row[x] EXCEPT !.flag = FALSE] = row[x]
        BY <4>1
      <4> QED
        BY <3>2, <4>2
    <3> QED
      BY <1>0, <3>1, <3>2
  <2>2. row' \in [Ids -> Rows \cup {Absent}]
    BY <1>0, <1>5, <2>1 DEF ClearOthers, Unflagged
  <2>3. disturbed' \in SUBSET Instances
    BY <1>0, <1>5 DEF ClearOthers, Bereaved, Ready
  <2> QED
    BY <1>0, <1>5, <2>2, <2>3, EndType DEF ClearOthers
<1>6. ASSUME NEW r \in Requests, SeekDefault(r) PROVE TypeInv'
  <2>1. Ready([req[r] EXCEPT !.pc = "promote"]) /\ "promote" \in Pcs
    BY <1>0, <1>6 DEF SeekDefault, Ready, ReqType, Pcs
  <2> QED
    BY <1>0, <1>6, <2>1, EndType, GotoType DEF SeekDefault
<1>7. ASSUME NEW r \in Requests, SeekFirst(r) PROVE TypeInv'
  <2> DEFINE left == RowsOf(row, req[r].inst)
             id == CHOOSE id \in left : \A x \in left : id <= x
             q == [req[r] EXCEPT !.pc = "promote", !.id = id]
  <2>1. CASE left = {}
    BY <1>0, <1>7, <2>1, EndType DEF SeekFirst
  <2>2. CASE left # {}
    <3>1. left \in SUBSET Nat
      BY DEF RowsOf, Ids
    <3>2. id \in left
      BY <2>2, <3>1, FirstRow
    <3>3. id \in Ids
      BY <3>2 DEF RowsOf
    <3> HIDE DEF id
    <3>4. q \in ReqType /\ Ready(q)
      BY <1>0, <1>7, <3>3 DEF SeekFirst, ReqType, Ready, Pcs
    <3>5. req' = [req EXCEPT ![r] = q]
      BY <1>7, <2>2 DEF SeekFirst, id
    <3> HIDE DEF q
    <3> QED
      BY <1>0, <1>7, <3>4, <3>5, GoesType DEF SeekFirst
  <2> QED
    BY <2>1, <2>2
<1>8. ASSUME NEW r \in Requests, Promote(r) PROVE TypeInv'
  <2>1. req[r].id \in Ids /\ Mispicked(r) \in SUBSET Instances
    BY <1>0, <1>8 DEF Promote, Ready, Mispicked
  <2>2. row' \in [Ids -> Rows \cup {Absent}]
    <3>1. Exists(req[r].id) => [row[req[r].id] EXCEPT !.flag = TRUE] \in Rows
      BY <1>0, <2>1 DEF Exists, Rows
    <3> QED
      BY <1>0, <1>8, <3>1 DEF Promote
  <2> QED
    BY <1>0, <1>8, <2>1, <2>2, EndType DEF Promote
<1>9. ASSUME NEW r \in Requests, ReadAccount(r) PROVE TypeInv'
  <2>1. PICK id \in Ids :
            /\ Exists(id)
            /\ Begin(r, [Idle EXCEPT !.pc = "delete", !.id = id, !.inst = row[id].inst,
                                     !.flag = row[id].flag])
    BY <1>9 DEF ReadAccount
  <2> DEFINE q == [Idle EXCEPT !.pc = "delete", !.id = id, !.inst = row[id].inst,
                               !.flag = row[id].flag]
  <2>2. row[id].inst \in Instances /\ row[id].flag \in BOOLEAN
    BY <1>0, <2>1 DEF Exists, Rows
  <2>3. q \in ReqType /\ Ready(q)
    BY <2>2, IdleType DEF ReqType, Ready, Pcs
  <2> HIDE DEF q
  <2> QED
    BY <2>1, <2>3, BeginType DEF q
<1>10. ASSUME NEW r \in Requests, DeleteAccount(r) PROVE TypeInv'
  <2>1. req[r].id \in Ids /\ Misread(r) \in SUBSET Instances
    BY <1>0, <1>10 DEF DeleteAccount, Ready, Misread
  <2>2. Ready([req[r] EXCEPT !.pc = "first"]) /\ "first" \in Pcs
    BY <1>0, <1>10 DEF DeleteAccount, Ready, ReqType, Pcs
  <2> QED
    BY <1>0, <1>10, <2>1, <2>2, EndType, GotoType DEF DeleteAccount
<1>11. ASSUME NEW r \in Requests, Abandon(r) PROVE TypeInv'
  <2>1. req[r].pc \in Halfway => req[r].inst \in Instances
    BY <1>0 DEF Ready, Halfway
  <2> QED
    BY <1>0, <1>11, <2>1, EndType DEF Abandon
<1>12. ASSUME NEW r \in Requests, NEW i \in Instances, NEW flags \in Registered,
              RegisterInstance(r, i, flags)
       PROVE  TypeInv'
  <2> DEFINE q == [Idle EXCEPT !.pc = "register", !.inst = i, !.todo = flags]
  <2>1. flags \in Seq(BOOLEAN) /\ flags # <<>>
    BY <1>12, RegisteredType DEF RegisterInstance
  <2>2. q \in ReqType /\ Ready(q)
    BY <2>1, IdleType DEF ReqType, Ready, Pcs
  <2>3. Start(r, q) /\ live' \in SUBSET Instances /\ disturbed' \in SUBSET Instances
    BY <1>0, <1>12 DEF RegisterInstance
  <2> HIDE DEF q
  <2> QED
    BY <2>2, <2>3, StartType
<1>13. ASSUME NEW r \in Requests, InsertRegistered(r) PROVE TypeInv'
  BY <1>13, InsertRegisteredType
<1>14. ASSUME NEW id \in Ids, DeleteNode(id) PROVE TypeInv'
  BY <1>14 DEF DeleteNode, TypeInv, Ready, Ids
<1>15. ASSUME NEW i \in Instances, CreateInstance(i) PROVE TypeInv'
  BY <1>15 DEF CreateInstance, TypeInv, Ready, Ids
<1>16. ASSUME NEW i \in Instances, DeleteInstance(i) PROVE TypeInv'
  BY <1>16 DEF DeleteInstance, TypeInv, Ready, Ids
<1>17. CASE UNCHANGED vars
  BY <1>17 DEF vars, TypeInv, Ready, Ids
<1> QED
  BY <1>1, <1>2, <1>3, <1>4, <1>5, <1>6, <1>7, <1>8, <1>9, <1>10, <1>11, <1>12, <1>13, <1>14,
     <1>15, <1>16, <1>17 DEF Next

LEMMA InitTypes == ASSUME MaxRows \in Nat PROVE Init => TypeInv
<1> SUFFICES ASSUME Init PROVE TypeInv
  OBVIOUS
<1> QED
  BY IdleType DEF Init, TypeInv

\* The tables and the requests have their types.
THEOREM MemberTypes == ASSUME MaxRows \in Nat PROVE Spec => []TypeOK
<1>1. Init => TypeInv
  BY InitTypes
<1>2. TypeInv /\ [Next]_vars => TypeInv'
  BY StepTypes
<1>3. TypeInv => TypeOK
  BY DEF TypeInv, TypeOK, ReqType, Pcs
<1> QED
  BY <1>1, <1>2, <1>3, PTL DEF Spec

--------------------------------------------------------------------------------
(* Inductive invariant: what a behaviour about deploy hosts goes through *)

Row == [inst : Instances \cup {None}, flag : BOOLEAN]
ReqState == [pc : {"idle", "insert", "save", "register", "clear"}, id : Nat,
             inst : Instances \cup {None}, flag : BOOLEAN, todo : {<<>>, <<TRUE>>}]

NodeTypes ==
    /\ row \in [Ids -> Row]
    /\ req \in [Requests -> ReqState]
    /\ live \subseteq Instances

\* A request is about the instance that it writes for.
Concerned(r) ==
    /\ req[r].pc # "idle" => req[r].inst \in Instances
    /\ req[r].pc = "register" => req[r].todo = <<TRUE>>
    /\ req[r].pc = "save" => req[r].id \in Ids

\* One primary at most, or a request that is about to see to that.
Single(i) == \A x, y \in Flagged(i) : x = y
Watched(i) == \E r \in Requests : req[r].pc = "clear" /\ req[r].inst = i
PrimaryInv == \A i \in live \ disturbed : Single(i) \/ Watched(i)

NodeInv == NodeTypes /\ RowsLive /\ (\A r \in Requests : Concerned(r)) /\ PrimaryInv
IInv == used \in Nat /\ (kind = "nodes" => NodeInv)

--------------------------------------------------------------------------------
(* What the parts of a step do *)

\* No flag is set, except for rows of instance i.
FlagsShrink(i) == \A x \in Ids : row'[x].flag /\ row'[x].inst # i => row'[x] = row[x]

LEMMA Shrunk ==
    ASSUME NEW i, NEW j \in Instances \ {i}, FlagsShrink(i), Single(j)
    PROVE  Single(j)'
  BY DEF FlagsShrink, Single, Flagged, RowsOf

\* A request other than a clearing one may go or change without anybody missing it.
LEMMA StillWatched ==
    ASSUME NEW r \in Requests, req[r].pc # "clear",
           \A s \in Requests \ {r} : req'[s] = req[s], NEW i, Watched(i)
    PROVE  Watched(i)'
  BY DEF Watched

--------------------------------------------------------------------------------
(* Steps *)

\* A request that takes on work leaves rows and flags alone.
LEMMA StartInv ==
    ASSUME NodeInv, kind = "nodes", NEW r \in Requests, NEW q \in ReqState, Start(r, q),
           q.pc \in {"insert", "save", "register"}, q.inst \in Instances,
           q.pc = "register" => q.todo = <<TRUE>>, q.pc = "save" => q.id \in Ids,
           live \subseteq live', live' \subseteq Instances,
           \A i \in live' \ disturbed' : i \in live \ disturbed \/ Flagged(i) = {}
    PROVE  NodeInv'
<1>1. /\ req[r] = Idle
      /\ req' = [req EXCEPT ![r] = q]
      /\ UNCHANGED row
  BY DEF Start
<1>2. req[r].pc # "clear" /\ \A s \in Requests \ {r} : req'[s] = req[s]
  BY <1>1 DEF Idle
<1>3. NodeTypes'
  BY <1>1 DEF NodeInv, NodeTypes
<1>4. RowsLive'
  BY <1>1 DEF NodeInv, RowsLive
<1>5. \A s \in Requests : Concerned(s)'
  BY <1>1 DEF NodeInv, NodeTypes, Concerned, Ids
<1>6. PrimaryInv'
  <2> SUFFICES ASSUME NEW i \in live' \ disturbed' PROVE Single(i)' \/ Watched(i)'
    BY DEF PrimaryInv
  <2>1. Single(i) \/ Watched(i)
    BY DEF NodeInv, PrimaryInv, Single
  <2>2. Single(i) => Single(i)'
    BY <1>1 DEF Single, Flagged, RowsOf
  <2> QED
    BY <1>2, <2>1, <2>2, StillWatched
<1> QED
  BY <1>3, <1>4, <1>5, <1>6 DEF NodeInv

\* A request that goes on or ends, having set no flag.
LEMMA GoesInv ==
    ASSUME NodeInv, NEW r \in Requests,
           req' \in [Requests -> ReqState], \A s \in Requests \ {r} : req'[s] = req[s],
           req[r].pc # "clear" \/ req[r].inst \in disturbed', Concerned(r)',
           row' \in [Ids -> Row], live' \subseteq live,
           \A x \in Ids : row'[x].inst \in live' \cup {None},
           \A x \in Ids : row'[x].flag => row'[x] = row[x],
           disturbed \subseteq disturbed'
    PROVE  NodeInv'
<1>1. NodeTypes' /\ RowsLive'
  BY DEF NodeInv, NodeTypes, RowsLive, Ids
<1>2. \A s \in Requests : Concerned(s)'
  BY DEF NodeInv, Concerned, Ids
<1>3. PrimaryInv'
  <2> SUFFICES ASSUME NEW i \in live' \ disturbed' PROVE Single(i)' \/ Watched(i)'
    BY DEF PrimaryInv
  <2>1. CASE Single(i)
    BY <2>1 DEF Single, Flagged, RowsOf, Ids
  <2>2. CASE Watched(i)
    BY <2>2 DEF Watched
  <2> QED
    BY <2>1, <2>2 DEF NodeInv, PrimaryInv
<1> QED
  BY <1>1, <1>2, <1>3 DEF NodeInv

\* A row is written; if it is primary the request goes on to clear the others.
LEMMA WriteInv ==
    ASSUME NodeInv, kind = "nodes", None \notin Instances, NEW r \in Requests, NEW id \in Ids,
           Ids \subseteq Nat,
           req[r].pc \in {"insert", "save"}, req[r].inst \in live, Write(r, id)
    PROVE  NodeInv'
<1> DEFINE i == req[r].inst
<1>0. req[r] \in ReqState
  BY DEF NodeInv, NodeTypes, Concerned
<1>1. /\ row' = [row EXCEPT ![id] = [inst |-> i, flag |-> req[r].flag]]
      /\ live' = live /\ disturbed' = disturbed
      /\ req' = [req EXCEPT ![r] = IF req[r].flag THEN [req[r] EXCEPT !.pc = "clear", !.id = id]
                                   ELSE Idle]
  BY DEF Write, NextAfter, Unset
<1>2. row' \in [Ids -> Row] /\ \A x \in Ids : row'[x].inst \in live \cup {None}
  BY <1>0, <1>1 DEF NodeInv, NodeTypes, RowsLive, Row, ReqState
<1>3. CASE req[r].flag
  <2>1. /\ req'[r].pc = "clear" /\ req'[r].inst = i
        /\ req' \in [Requests -> ReqState]
        /\ \A s \in Requests \ {r} : req'[s] = req[s]
        /\ Concerned(r)'
    BY <1>0, <1>1, <1>3 DEF NodeInv, NodeTypes, ReqState, Concerned
  <2>2. \A s \in Requests : Concerned(s)'
    BY <2>1 DEF NodeInv, Concerned, Ids
  <2>3. PrimaryInv'
    <3> SUFFICES ASSUME NEW j \in live \ disturbed PROVE Single(j)' \/ Watched(j)'
      BY <1>1 DEF PrimaryInv
    <3>1. CASE j = i
      BY <2>1, <3>1 DEF Watched
    <3>2. CASE j # i /\ Single(j)
      BY <1>1, <3>2 DEF Single, Flagged, RowsOf, NodeInv, NodeTypes
    <3>3. CASE Watched(j)
      BY <2>1, <3>3, StillWatched
    <3> QED
      BY <3>1, <3>2, <3>3 DEF NodeInv, PrimaryInv
  <2> QED
    BY <1>1, <1>2, <2>1, <2>2, <2>3 DEF NodeInv, NodeTypes, RowsLive, Ids
<1>4. CASE ~req[r].flag
  <2>1. /\ req' \in [Requests -> ReqState]
        /\ \A s \in Requests \ {r} : req'[s] = req[s]
        /\ Concerned(r)'
    BY <1>0, <1>1, <1>4 DEF NodeInv, NodeTypes, ReqState, Idle, Concerned
  <2>2. \A x \in Ids : row'[x].flag => row'[x] = row[x]
    BY <1>1, <1>4 DEF NodeInv, NodeTypes, Row
  <2> QED
    BY <1>1, <1>2, <2>1, <2>2, GoesInv DEF NodeInv, NodeTypes
<1> QED
  BY <1>3, <1>4

\* Whoever clears the others leaves one at most, and the instance undisturbed.
LEMMA ClearInv ==
    ASSUME NodeInv, NEW r \in Requests, ClearOthers(r)
    PROVE  NodeInv'
<1> DEFINE i == req[r].inst
<1>0. /\ row' = Unflagged(row, i, req[r].id) /\ live' = live
      /\ disturbed \ {i} \subseteq disturbed' /\ req' = [req EXCEPT ![r] = Idle]
  BY DEF ClearOthers, End, Bereaved
<1>1. \A x \in Ids : row'[x] = IF x # req[r].id /\ row[x].inst = i
                               THEN [row[x] EXCEPT !.flag = FALSE] ELSE row[x]
  BY <1>0 DEF Unflagged
<1>2. /\ row' \in [Ids -> Row]
      /\ \A x \in Ids : row'[x].inst = row[x].inst /\ (row'[x].flag => row'[x] = row[x])
  <2>1. \A x \in Ids : row'[x] \in Row
    BY <1>1 DEF NodeInv, NodeTypes, Row
  <2> QED
    BY <1>0, <1>1, <2>1 DEF Unflagged, NodeInv, NodeTypes, Row
<1>3. /\ req' \in [Requests -> ReqState]
      /\ \A s \in Requests \ {r} : req'[s] = req[s]
      /\ Concerned(r)'
  BY <1>0 DEF NodeInv, NodeTypes, ReqState, Idle, Concerned
<1>4. \A s \in Requests : Concerned(s)'
  BY <1>3 DEF NodeInv, Concerned, Ids
<1>5. PrimaryInv'
  <2> SUFFICES ASSUME NEW j \in live \ disturbed' PROVE Single(j)' \/ Watched(j)'
    BY <1>0 DEF PrimaryInv
  <2>1. CASE j = i
    BY <1>1, <2>1 DEF NodeInv, NodeTypes, Row, Single, Flagged, RowsOf
  <2>2. CASE j # i /\ Single(j)
    BY <1>2, <2>2 DEF Single, Flagged, RowsOf
  <2>3. CASE j # i /\ Watched(j)
    BY <1>3, <2>3 DEF Watched
  <2> QED
    BY <1>0, <2>1, <2>2, <2>3 DEF NodeInv, PrimaryInv
<1> QED
  BY <1>0, <1>2, <1>3, <1>4, <1>5 DEF NodeInv, NodeTypes, RowsLive, Ids

\* A registration clears nothing, and is known to disturb an instance that has rows.
LEMMA RegisteredInv ==
    ASSUME NodeInv, kind = "nodes", None \notin Instances, MaxRows \in Nat, NEW r \in Requests,
           InsertRegistered(r), used \in Nat
    PROVE  NodeInv'
<1> DEFINE i == req[r].inst
<1>0. /\ req[r].pc = "register" /\ i \in Instances /\ req[r].todo = <<TRUE>>
      /\ live' = live
  BY DEF InsertRegistered, NodeInv, Concerned
<1>1. Len(<<TRUE>>) = 1 /\ Head(<<TRUE>>) = TRUE
  <2>1. Len(<<TRUE>>) = 1
    OBVIOUS
  <2>2. Head(<<TRUE>>) = <<TRUE>>[1]
    OBVIOUS
  <2> QED
    BY <2>1, <2>2
<1>2. End(r)
  BY <1>0, <1>1 DEF InsertRegistered
<1>3. /\ req' \in [Requests -> ReqState]
      /\ \A s \in Requests \ {r} : req'[s] = req[s]
      /\ Concerned(r)'
  BY <1>2 DEF End, NodeInv, NodeTypes, ReqState, Idle, Concerned
<1>4. CASE UNCHANGED row /\ disturbed' = disturbed \cup {i}
  BY <1>0, <1>3, <1>4, GoesInv DEF NodeInv, NodeTypes, RowsLive
<1>5. CASE /\ i \in live /\ used + 1 \in Ids
           /\ row' = [row EXCEPT ![used + 1] = [inst |-> i, flag |-> TRUE]]
           /\ disturbed' = disturbed \cup {j \in {i} : Flagged(i) # {}}
  <2>1. NodeTypes' /\ RowsLive'
    BY <1>0, <1>3, <1>5 DEF NodeInv, NodeTypes, RowsLive, Row, Ids
  <2>2. \A s \in Requests : Concerned(s)'
    BY <1>3 DEF NodeInv, Concerned, Ids
  <2>3. PrimaryInv'
    <3> SUFFICES ASSUME NEW j \in live \ disturbed' PROVE Single(j)' \/ Watched(j)'
      BY <1>0 DEF PrimaryInv
    <3>1. j \in live \ disturbed
      BY <1>5
    <3>2. CASE j = i
      <4>1. Flagged(i) = {}
        BY <1>5, <3>2
      <4> QED
        BY <1>5, <3>2, <4>1 DEF Single, Flagged, RowsOf, NodeInv, NodeTypes
    <3>3. CASE j # i /\ Single(j)
      BY <1>5, <3>3 DEF Single, Flagged, RowsOf, NodeInv, NodeTypes
    <3>4. CASE Watched(j)
      BY <1>0, <1>3, <3>4, StillWatched
    <3> QED
      BY <3>1, <3>2, <3>3, <3>4 DEF NodeInv, PrimaryInv
  <2> QED
    BY <2>1, <2>2, <2>3 DEF NodeInv
<1>6. Head(req[r].todo) = TRUE
  BY <1>0, <1>1, Zenon
<1>7. CASE i \in live /\ used < MaxRows
           /\ row' = [row EXCEPT ![used + 1] = [inst |-> i, flag |-> Head(req[r].todo)]]
           /\ disturbed' = disturbed \cup Overtaken(r)
  <2>1. row' = [row EXCEPT ![used + 1] = [inst |-> i, flag |-> TRUE]]
    BY <1>6, <1>7, Zenon
  <2>2. used + 1 \in Ids
    BY <1>7 DEF Ids
  <2>3. Overtaken(r) = {j \in {i} : Flagged(i) # {}}
    BY <1>6 DEF Overtaken
  <2> QED
    BY <1>5, <1>7, <2>1, <2>2, <2>3
<1> QED
  BY <1>4, <1>7 DEF InsertRegistered

LEMMA StepInv ==
    ASSUME None \notin Instances, MaxRows \in Nat
    PROVE  IInv /\ [Next]_vars => IInv'
<1> SUFFICES ASSUME IInv, [Next]_vars PROVE IInv'
  OBVIOUS
<1>k. kind' = kind /\ used' \in Nat
  <2>0. used \in Nat
    BY DEF IInv
  <2>1. ASSUME NEW r \in Requests,
               \/ CheckCreate(r) \/ CheckUpdate(r) \/ ReadAccount(r)
               \/ \E i \in Instances, flags \in Registered : RegisterInstance(r, i, flags)
        PROVE  kind' = kind /\ used' = used
    BY <2>1 DEF CheckCreate, CheckUpdate, ReadAccount, RegisterInstance, Begin, Start
  <2>2. ASSUME NEW r \in Requests, Insert(r) \/ Save(r)
        PROVE  kind' = kind /\ used' \in {used, used + 1}
    BY <2>2 DEF Insert, Save, Fail, Write
  <2>3. ASSUME NEW r \in Requests, InsertRegistered(r) PROVE kind' = kind /\ used' \in {used, used + 1}
    BY <2>3 DEF InsertRegistered
  <2>4. ASSUME NEW r \in Requests,
               \/ ClearOthers(r) \/ SeekDefault(r) \/ SeekFirst(r) \/ Promote(r)
               \/ DeleteAccount(r) \/ Abandon(r)
        PROVE  kind' = kind /\ used' = used
    BY <2>4 DEF ClearOthers, SeekDefault, SeekFirst, Promote, DeleteAccount, Abandon
  <2>5. ASSUME \/ \E id \in Ids : DeleteNode(id)
               \/ \E i \in Instances : CreateInstance(i) \/ DeleteInstance(i)
               \/ UNCHANGED vars
        PROVE  kind' = kind /\ used' = used
    BY <2>5 DEF DeleteNode, CreateInstance, DeleteInstance, vars
  <2> QED
    BY <2>0, <2>1, <2>2, <2>3, <2>4, <2>5 DEF Next
<1> SUFFICES ASSUME kind = "nodes" PROVE NodeInv'
  BY <1>k DEF IInv
<1>0. NodeInv /\ Ids \subseteq Nat
  BY DEF IInv, Ids
<1>e. ASSUME NEW r \in Requests, End(r)
      PROVE  /\ req' \in [Requests -> ReqState]
             /\ \A s \in Requests \ {r} : req'[s] = req[s]
             /\ Concerned(r)'
  BY <1>0, <1>e DEF End, NodeInv, NodeTypes, ReqState, Idle, Concerned
<1>1. ASSUME NEW r \in Requests, CheckCreate(r) PROVE NodeInv'
  <2>1. PICK i \in live, flag \in BOOLEAN :
            Begin(r, [Idle EXCEPT !.pc = "insert", !.inst = i, !.flag = flag])
    BY <1>1 DEF CheckCreate
  <2> DEFINE q == [Idle EXCEPT !.pc = "insert", !.inst = i, !.flag = flag]
  <2>2. q \in ReqState /\ q.pc = "insert" /\ q.inst = i /\ i \in Instances
    BY <1>0 DEF Idle, ReqState, NodeInv, NodeTypes
  <2> HIDE DEF q
  <2>3. Start(r, q) /\ live' = live /\ disturbed \subseteq disturbed'
    BY <2>1 DEF Begin, q
  <2> QED
    BY <1>0, <2>2, <2>3, StartInv DEF NodeInv, NodeTypes
<1>2. ASSUME NEW r \in Requests, CheckUpdate(r) PROVE NodeInv'
  <2>1. PICK id \in Ids, i \in Instances, flag \in BOOLEAN :
            Begin(r, [Idle EXCEPT !.pc = "save", !.id = id, !.inst = i, !.flag = flag])
    BY <1>2 DEF CheckUpdate
  <2> DEFINE q == [Idle EXCEPT !.pc = "save", !.id = id, !.inst = i, !.flag = flag]
  <2>2. q \in ReqState /\ q.pc = "save" /\ q.id = id /\ q.inst = i
    BY <1>0 DEF Idle, ReqState
  <2> HIDE DEF q
  <2>3. Start(r, q) /\ live' = live /\ disturbed \subseteq disturbed'
    BY <2>1 DEF Begin, q
  <2> QED
    BY <1>0, <2>2, <2>3, StartInv DEF NodeInv, NodeTypes
<1>f. ASSUME NEW r \in Requests, req[r].pc # "clear", Fail(r) PROVE NodeInv'
  BY <1>0, <1>e, <1>f, GoesInv DEF Fail, NodeInv, NodeTypes, RowsLive
<1>3. ASSUME NEW r \in Requests, Insert(r) PROVE NodeInv'
  <2>1. CASE Fail(r)
    BY <1>3, <1>f, <2>1 DEF Insert
  <2>2. CASE req[r].inst \in live /\ used < MaxRows /\ Write(r, used + 1)
    <3>1. used + 1 \in Ids
      BY <2>2 DEF Ids, IInv
    <3> QED
      BY <1>0, <1>3, <2>2, <3>1, WriteInv DEF Insert
  <2> QED
    BY <1>3, <2>1, <2>2 DEF Insert
<1>4. ASSUME NEW r \in Requests, Save(r) PROVE NodeInv'
  <2>1. CASE Fail(r)
    BY <1>4, <1>f, <2>1 DEF Save
  <2>2. CASE req[r].inst \in live /\ Write(r, req[r].id)
    <3>1. req[r].id \in Ids
      BY <1>0, <1>4 DEF Save, NodeInv, Concerned
    <3> QED
      BY <1>0, <1>4, <2>2, <3>1, WriteInv DEF Save
  <2> QED
    BY <1>4, <2>1, <2>2 DEF Save
<1>5. ASSUME NEW r \in Requests, ClearOthers(r) PROVE NodeInv'
  BY <1>0, <1>5, ClearInv
<1>6. ASSUME NEW r \in Requests,
             \/ SeekDefault(r) \/ SeekFirst(r) \/ Promote(r) \/ ReadAccount(r) \/ DeleteAccount(r)
      PROVE  NodeInv'
  <2>1. req[r].pc \notin {"seek", "first", "promote", "delete"}
    BY <1>0 DEF NodeInv, NodeTypes, ReqState
  <2> QED
    BY <1>6, <2>1 DEF SeekDefault, SeekFirst, Promote, ReadAccount, DeleteAccount
<1>7. ASSUME NEW r \in Requests, Abandon(r) PROVE NodeInv'
  <2>1. req[r].pc = "clear" => req[r].inst \in disturbed'
    BY <1>0, <1>7 DEF Abandon, NodeInv, Concerned, Halfway, Idle
  <2> QED
    BY <1>0, <1>e, <1>7, <2>1, GoesInv DEF Abandon, NodeInv, NodeTypes, RowsLive
<1>r. \A i \in Instances \ live : Flagged(i) = {}
  BY <1>0 DEF NodeInv, RowsLive, Flagged, RowsOf
<1>8. ASSUME NEW r \in Requests, NEW i \in Instances, NEW flags \in Registered,
             RegisterInstance(r, i, flags)
      PROVE  NodeInv'
  <2>1. flags = <<TRUE>>
    BY <1>8 DEF Registered
  <2> DEFINE q == [Idle EXCEPT !.pc = "register", !.inst = i, !.todo = flags]
  <2>2. /\ q \in ReqState /\ q.pc = "register" /\ q.inst = i /\ q.todo = <<TRUE>>
    BY <2>1 DEF Idle, ReqState
  <2> HIDE DEF q
  <2>3. Start(r, q) /\ live' = live \cup {i} /\ disturbed \ {i} \subseteq disturbed' /\ i \notin live
    BY <1>8 DEF RegisterInstance, Unborn, q
  <2> QED
    BY <1>0, <1>r, <2>2, <2>3, StartInv DEF NodeInv, NodeTypes
<1>9. ASSUME NEW r \in Requests, InsertRegistered(r) PROVE NodeInv'
  BY <1>0, <1>9, RegisteredInv DEF IInv
<1>10. ASSUME NEW id \in Ids, DeleteNode(id) PROVE NodeInv'
  <2>1. row' = [row EXCEPT ![id] = Absent] /\ UNCHANGED <<live, req, disturbed>>
    BY <1>10 DEF DeleteNode
  <2>2. NodeTypes' /\ RowsLive'
    BY <1>0, <2>1 DEF NodeInv, NodeTypes, RowsLive, Row, Absent, Ids
  <2>3. \A j : (Single(j) => Single(j)') /\ (Watched(j) => Watched(j)')
    BY <1>0, <2>1 DEF NodeInv, NodeTypes, Single, Watched, Flagged, RowsOf, Absent
  <2> QED
    BY <1>0, <2>1, <2>2, <2>3 DEF NodeInv, PrimaryInv, Concerned
<1>11. ASSUME NEW i \in Instances, CreateInstance(i) PROVE NodeInv'
  <2>1. live' = live \cup {i} /\ disturbed' = disturbed \ {i} /\ UNCHANGED <<row, req>> /\ i \notin live
    BY <1>11 DEF CreateInstance, Unborn
  <2>2. NodeTypes' /\ RowsLive'
    BY <1>0, <2>1 DEF NodeInv, NodeTypes, RowsLive, Ids
  <2>3. \A j : (Single(j) <=> Single(j)') /\ (Watched(j) <=> Watched(j)')
    BY <2>1 DEF Single, Watched, Flagged, RowsOf, Ids
  <2>4. Single(i)
    BY <1>r, <2>1 DEF Single
  <2>5. PrimaryInv'
    BY <1>0, <2>1, <2>3, <2>4 DEF NodeInv, PrimaryInv
  <2> QED
    BY <1>0, <2>1, <2>2, <2>5 DEF NodeInv, Concerned
<1>12. ASSUME NEW i \in Instances, DeleteInstance(i) PROVE NodeInv'
  <2>1. /\ live' = live \ {i} /\ UNCHANGED <<req, disturbed>>
        /\ row' = [id \in Ids |-> IF row[id].inst = i THEN Absent ELSE row[id]]
    BY <1>12 DEF DeleteInstance
  <2>2. NodeTypes' /\ RowsLive'
    BY <1>0, <2>1 DEF NodeInv, NodeTypes, RowsLive, Row, Absent, Ids
  <2>3. \A j : (Single(j) => Single(j)') /\ (Watched(j) => Watched(j)')
    BY <1>0, <2>1 DEF NodeInv, NodeTypes, Single, Watched, Flagged, RowsOf, Absent
  <2> QED
    BY <1>0, <2>1, <2>2, <2>3 DEF NodeInv, PrimaryInv, Concerned
<1>13. CASE UNCHANGED vars
  <2>1. UNCHANGED <<row, live, req, disturbed>>
    BY <1>13 DEF vars
  <2>2. \A j : (Single(j) <=> Single(j)') /\ (Watched(j) <=> Watched(j)')
    BY <2>1 DEF Single, Watched, Flagged, RowsOf, Ids
  <2>3. NodeTypes' /\ RowsLive' /\ \A r \in Requests : Concerned(r)'
    BY <1>0, <2>1 DEF NodeInv, NodeTypes, RowsLive, Concerned, Ids
  <2> QED
    BY <1>0, <2>1, <2>2, <2>3 DEF NodeInv, PrimaryInv
<1> QED
  BY <1>1, <1>2, <1>3, <1>4, <1>5, <1>6, <1>7, <1>8, <1>9, <1>10, <1>11, <1>12, <1>13 DEF Next

--------------------------------------------------------------------------------
(* The primary node *)

\* However the requests on deploy hosts interleave, die and meet a registration,
\* an instance that was not known to be disturbed has one primary node at most,
\* or a request under way that clears the others (services.py,
\* _ensure_single_primary_host).
THEOREM PrimarySingle == ASSUME None \notin Instances, MaxRows \in Nat PROVE Spec => []SinglePrimary
<1>1. Init => IInv
  <2> SUFFICES ASSUME Init PROVE NodeInv /\ used \in Nat
    BY DEF IInv
  <2>1. Absent \in Row /\ Idle \in ReqState
    BY DEF Absent, Row, Idle, ReqState
  <2>2. NodeTypes
    BY <2>1 DEF Init, NodeTypes
  <2>3. RowsLive
    BY DEF Init, RowsLive, Absent
  <2>4. \A r \in Requests : Concerned(r)
    BY DEF Init, Concerned, Idle
  <2>5. PrimaryInv /\ used \in Nat
    BY DEF Init, PrimaryInv
  <2> QED
    BY <2>2, <2>3, <2>4, <2>5 DEF NodeInv
<1>2. IInv => SinglePrimary
  BY DEF IInv, NodeInv, PrimaryInv, Single, Watched, SinglePrimary
<1>3. IInv /\ [Next]_vars => IInv'
  BY StepInv
<1> QED
  BY <1>1, <1>2, <1>3, PTL DEF Spec

--------------------------------------------------------------------------------
(* Inductive invariant of a behaviour about accounts *)

\* Ids beyond the last one given are unknown.
Fresh == /\ \A x \in Ids : x > used => row[x] = Absent
         /\ \A r \in Requests : req[r].id <= used

\* A request that will give instance i a default if it has none.
Due(r, i) ==
    /\ req[r].inst = i
    /\ \/ req[r].pc \in {"seek", "first", "promote"}
       \/ req[r].pc = "register" /\ DefaultDue(req[r].todo)

AtMostOne(i) == Single(i) \/ Watched(i)
AtLeastOne(i) == RowsOf(row, i) = {} \/ Flagged(i) # {} \/ \E r \in Requests : Due(r, i)
Good(i) == AtMostOne(i) /\ AtLeastOne(i)
DefaultInv == \A i \in live \ disturbed : Good(i)

--------------------------------------------------------------------------------
(* What a step on accounts leaves alone *)

\* No row of instance i changes, comes or goes.
Keeps(i) == \A x \in Ids : row[x].inst = i \/ row'[x].inst = i => row'[x] = row[x]

LEMMA Kept ==
    ASSUME NEW i, Keeps(i)
    PROVE  RowsOf(row, i)' = RowsOf(row, i) /\ Flagged(i)' = Flagged(i)
<1>1. RowsOf(row, i)' = RowsOf(row, i)
  BY DEF Keeps, RowsOf, Ids
<1>2. Flagged(i)' = Flagged(i)
  BY DEF Keeps, Flagged, RowsOf, Ids
<1> QED
  BY <1>1, <1>2

\* One request moves and no flag of i does: i stays in order unless that request was
\* the one that clears the others, or the one that sees to a default.
LEMMA StaysGood ==
    ASSUME NEW r \in Requests, \A s \in Requests \ {r} : req'[s] = req[s], NEW i, Good(i),
           Flagged(i)' = Flagged(i), RowsOf(row, i) = {} => RowsOf(row, i)' = {},
           req[r].pc = "clear" /\ req[r].inst = i => Single(i),
           Due(r, i) => Due(r, i)' \/ Flagged(i) # {} \/ RowsOf(row, i)' = {}
    PROVE  Good(i)'
<1>1. AtMostOne(i)'
  <2>1. Single(i) => Single(i)'
    BY DEF Single
  <2>2. Watched(i) => Single(i) \/ Watched(i)'
    BY DEF Watched
  <2> QED
    BY <2>1, <2>2 DEF Good, AtMostOne
<1>2. AtLeastOne(i)'
  <2>1. ASSUME NEW s \in Requests \ {r}, Due(s, i) PROVE Due(s, i)'
    BY <2>1 DEF Due
  <2> QED
    BY <2>1 DEF Good, AtLeastOne
<1> QED
  BY <1>1, <1>2 DEF Good

\* The same of an instance whose rows all stay as they are.
LEMMA KeepsGood ==
    ASSUME NEW r \in Requests, \A s \in Requests \ {r} : req'[s] = req[s], NEW i, Good(i), Keeps(i),
           req[r].pc = "clear" => req[r].inst # i, Due(r, i) => Due(r, i)'
    PROVE  Good(i)'
  BY Kept, StaysGood

\* One flagged row is all there is to have.
LEMMA OneIsGood ==
    ASSUME NEW i, NEW x, Flagged(i)' = {x}
    PROVE  Good(i)'
  BY DEF Good, AtMostOne, AtLeastOne, Single

LEMMA NoRowIsGood ==
    ASSUME NEW i, RowsOf(row, i)' = {}
    PROVE  Good(i)'
  BY DEF Good, AtMostOne, AtLeastOne, Single, Flagged

\* The requests that are not moved.
LEMMA OthersStay ==
    ASSUME TypeInv, NEW r \in Requests, NEW q, req' = [req EXCEPT ![r] = q]
    PROVE  req'[r] = q /\ \A s \in Requests \ {r} : req'[s] = req[s]
  BY DEF TypeInv

LEMMA GotoStays ==
    ASSUME TypeInv, NEW r \in Requests, NEW pc, Goto(r, pc)
    PROVE  /\ req'[r].pc = pc /\ req'[r].inst = req[r].inst
           /\ req'[r].id = req[r].id /\ req'[r].flag = req[r].flag
           /\ \A s \in Requests \ {r} : req'[s] = req[s]
<1>1. req[r] \in ReqType
  BY DEF TypeInv
<1> DEFINE q == [req[r] EXCEPT !.pc = pc]
<1>2. q.pc = pc /\ q.inst = req[r].inst /\ q.id = req[r].id /\ q.flag = req[r].flag
  BY <1>1 DEF ReqType
<1>3. req' = [req EXCEPT ![r] = q]
  BY DEF Goto
<1> HIDE DEF q
<1> QED
  BY <1>2, <1>3, OthersStay

LEMMA TodoStays ==
    ASSUME TypeInv, NEW r \in Requests, NEW todo, req' = [req EXCEPT ![r].todo = todo]
    PROVE  /\ req'[r].pc = req[r].pc /\ req'[r].inst = req[r].inst
           /\ req'[r].id = req[r].id /\ req'[r].todo = todo
           /\ \A s \in Requests \ {r} : req'[s] = req[s]
<1>1. req[r] \in ReqType
  BY DEF TypeInv
<1> DEFINE q == [req[r] EXCEPT !.todo = todo]
<1>2. q.pc = req[r].pc /\ q.inst = req[r].inst /\ q.id = req[r].id /\ q.todo = todo
  BY <1>1 DEF ReqType
<1>3. req' = [req EXCEPT ![r] = q]
  OBVIOUS
<1> HIDE DEF q
<1> QED
  BY <1>2, <1>3, OthersStay

--------------------------------------------------------------------------------
(* Ids and instances of rows *)

LEMMA StepFresh ==
    ASSUME TypeInv, TypeInv', None \notin Instances, MaxRows \in Nat, Fresh, RowsLive, [Next]_vars
    PROVE  Fresh' /\ RowsLive'
<1>t. /\ row \in [Ids -> Rows \cup {Absent}] /\ used \in Nat /\ Ids \subseteq Nat
      /\ req \in [Requests -> ReqType] /\ \A r \in Requests : Ready(req[r])
      /\ \A r \in Requests : req[r].id \in Nat
      /\ Idle.id = 0 /\ Absent.inst = None
  BY DEF TypeInv, Ids, ReqType, Idle, Absent
<1>s. ASSUME used' \in Nat, used <= used',
             \A r \in Requests : req'[r].id \in {0, req[r].id} \/ req'[r].id <= used'
      PROVE  \A r \in Requests : req'[r].id <= used'
  BY <1>s, <1>t DEF Fresh
<1>e. ASSUME NEW r \in Requests, End(r) PROVE \A s \in Requests : req'[s].id \in {0, req[s].id}
  BY <1>e, <1>t DEF End
<1>r. ASSUME UNCHANGED row, live \subseteq live', used' = used,
             \A r \in Requests : req'[r].id \in {0, req[r].id} \/ req'[r].id <= used
      PROVE  Fresh' /\ RowsLive'
  <2>1. \A r \in Requests : req'[r].id <= used'
    BY <1>r, <1>s, <1>t
  <2> QED
    BY <1>r, <2>1 DEF Fresh, RowsLive, Ids, Absent
\* One row is written, by an id that was given.
<1>w. ASSUME NEW id \in Ids, \A x \in Ids \ {id} : row'[x] = row[x],
             row'[id].inst \in live \cup {None}, live' = live, used' \in Nat, used <= used', id <= used',
             \A r \in Requests : req'[r].id \in {0, req[r].id} \/ req'[r].id <= used'
      PROVE  Fresh' /\ RowsLive'
  <2>1. \A r \in Requests : req'[r].id <= used'
    BY <1>w, <1>s
  <2>0. \A x \in Ids : x > used' => x # id /\ x > used
    BY <1>w, <1>t
  <2>2. \A x \in Ids : x > used' => row'[x] = Absent
    BY <2>0, <1>w DEF Fresh
  <2>3. \A x \in Ids : row'[x].inst \in live' \cup {None}
    BY <1>w, <1>t DEF RowsLive
  <2> QED
    BY <2>1, <2>2, <2>3 DEF Fresh, RowsLive, Ids, Absent
<1>k. ASSUME NEW x \in Ids, row[x] # Absent PROVE x <= used
  BY <1>k, <1>t DEF Fresh
<1>1. ASSUME NEW r \in Requests, NEW q, Start(r, q), live \subseteq live', q.id = 0 \/ q.id <= used
      PROVE  Fresh' /\ RowsLive'
  BY <1>1, <1>r, <1>t DEF Start
<1>2. ASSUME NEW r \in Requests, CheckCreate(r) PROVE Fresh' /\ RowsLive'
  BY <1>2, <1>1 DEF CheckCreate, Begin, Idle
<1>3. ASSUME NEW r \in Requests, CheckUpdate(r) PROVE Fresh' /\ RowsLive'
  <2>1. PICK id \in Ids, i \in Instances, flag \in BOOLEAN :
            Exists(id) /\ Begin(r, [Idle EXCEPT !.pc = "save", !.id = id, !.inst = i, !.flag = flag])
    BY <1>3 DEF CheckUpdate
  <2>2. id <= used
    BY <2>1, <1>k DEF Exists
  <2> QED
    BY <1>1, <2>1, <2>2 DEF Begin, Idle
<1>4. ASSUME NEW r \in Requests, ReadAccount(r) PROVE Fresh' /\ RowsLive'
  <2>1. PICK id \in Ids :
            /\ Exists(id)
            /\ Begin(r, [Idle EXCEPT !.pc = "delete", !.id = id, !.inst = row[id].inst,
                                     !.flag = row[id].flag])
    BY <1>4 DEF ReadAccount
  <2>2. id <= used
    BY <2>1, <1>k DEF Exists
  <2> QED
    BY <1>1, <2>1, <2>2 DEF Begin, Idle
<1>5. ASSUME NEW r \in Requests, Fail(r) PROVE Fresh' /\ RowsLive'
  BY <1>5, <1>e, <1>r DEF Fail
<1>6. ASSUME NEW r \in Requests, NEW id \in Ids, req[r].inst \in live, Write(r, id),
             used' \in {used, used + 1}, id <= used'
      PROVE  Fresh' /\ RowsLive'
  <2>1. \A s \in Requests : req'[s].id \in {0, req[s].id} \/ req'[s].id <= used'
    BY <1>6, <1>t DEF Write, ReqType
  <2>2. /\ row'[id].inst = req[r].inst /\ \A x \in Ids \ {id} : row'[x] = row[x]
        /\ live' = live
    BY <1>6, <1>t DEF Write
  <2> QED
    BY <1>6, <1>t, <1>w, <2>1, <2>2
<1>7. ASSUME NEW r \in Requests, Insert(r) \/ Save(r) PROVE Fresh' /\ RowsLive'
  <2>1. CASE Fail(r)
    BY <2>1, <1>5
  <2>2. CASE req[r].inst \in live /\ used < MaxRows /\ used' = used + 1 /\ Write(r, used + 1)
    <3>1. used + 1 \in Ids
      BY <1>t, <2>2 DEF Ids
    <3> QED
      BY <1>6, <1>t, <2>2, <3>1
  <2>3. CASE req[r].pc = "save" /\ req[r].inst \in live /\ Write(r, req[r].id) /\ UNCHANGED used
    <3>1. req[r].id \in Ids /\ req[r].id <= used
      BY <1>t, <2>3 DEF Ready, Fresh
    <3> QED
      BY <1>6, <1>t, <2>3, <3>1
  <2> QED
    BY <1>7, <2>1, <2>2, <2>3 DEF Insert, Save
<1>8. ASSUME NEW r \in Requests, ClearOthers(r) PROVE Fresh' /\ RowsLive'
  <2>1. /\ row' = Unflagged(row, req[r].inst, req[r].id) /\ UNCHANGED <<live, used>> /\ End(r)
        /\ req[r].pc = "clear" /\ req[r].inst \in Instances
    BY <1>8, <1>t DEF ClearOthers, Ready
  <2>2. \A x \in Ids : row'[x].inst = row[x].inst
    BY <1>t, <2>1, RowType DEF Unflagged, Rows, Absent
  <2>3. \A x \in Ids : row[x] = Absent => row'[x] = Absent
    BY <1>t, <2>1 DEF Unflagged, Absent
  <2>4. \A s \in Requests : req'[s].id <= used'
    BY <2>1, <1>e, <1>s, <1>t
  <2> QED
    BY <2>1, <2>2, <2>3, <2>4 DEF Fresh, RowsLive, Ids, Absent
<1>9. ASSUME NEW r \in Requests, SeekDefault(r) PROVE Fresh' /\ RowsLive'
  <2>1. \A s \in Requests : req'[s].id \in {0, req[s].id}
    BY <1>9, <1>e, GotoStays DEF SeekDefault
  <2> QED
    BY <1>9, <2>1, <1>r DEF SeekDefault
<1>10. ASSUME NEW r \in Requests, SeekFirst(r) PROVE Fresh' /\ RowsLive'
  <2> DEFINE left == RowsOf(row, req[r].inst)
             first == CHOOSE id \in left : \A x \in left : id <= x
  <2>1. CASE left = {}
    BY <1>10, <1>e, <1>r, <2>1 DEF SeekFirst
  <2>2. CASE left # {}
    <3>1. first \in left /\ left \subseteq Ids
      BY <2>2, <1>t, FirstRow DEF RowsOf
    <3>2. row[first].inst \in Instances
      BY <1>10, <1>t, <3>1 DEF RowsOf, SeekFirst, Ready
    <3>3. first <= used
      BY <1>k, <1>t, <3>1, <3>2
    <3>4. req' = [req EXCEPT ![r].pc = "promote", ![r].id = first]
      BY <1>10, <2>2 DEF SeekFirst
    <3> HIDE DEF first
    <3>5. \A s \in Requests : req'[s].id \in {0, req[s].id} \/ req'[s].id <= used
      BY <1>t, <3>3, <3>4 DEF ReqType
    <3> QED
      BY <1>10, <1>r, <3>5 DEF SeekFirst
  <2> QED
    BY <2>1, <2>2
<1>11. ASSUME NEW r \in Requests, Promote(r) PROVE Fresh' /\ RowsLive'
  <2>1. CASE Exists(req[r].id)
    <3>1. req[r].id \in Ids /\ req[r].id <= used
      BY <1>11, <1>t DEF Promote, Ready, Fresh
    <3>2. /\ row'[req[r].id].inst = row[req[r].id].inst
          /\ \A x \in Ids \ {req[r].id} : row'[x] = row[x]
      BY <1>11, <1>t, <2>1, <3>1 DEF Promote, Exists, Rows
    <3>3. UNCHANGED <<live, used>> /\ End(r)
      BY <1>11 DEF Promote
    <3> QED
      BY <1>e, <1>t, <1>w, <3>1, <3>2, <3>3 DEF RowsLive
  <2>2. CASE ~Exists(req[r].id)
    BY <1>11, <1>e, <1>r, <2>2 DEF Promote
  <2> QED
    BY <2>1, <2>2
<1>12. ASSUME NEW r \in Requests, DeleteAccount(r) PROVE Fresh' /\ RowsLive'
  <2>1. req[r].id \in Ids /\ req[r].id <= used
    BY <1>12, <1>t DEF DeleteAccount, Ready, Fresh
  <2>2. \A s \in Requests : req'[s].id \in {0, req[s].id}
    BY <1>12, <1>e, GotoStays DEF DeleteAccount
  <2>3. /\ row'[req[r].id].inst = None /\ \A x \in Ids \ {req[r].id} : row'[x] = row[x]
        /\ UNCHANGED <<live, used>>
    BY <1>12, <1>t, <2>1 DEF DeleteAccount
  <2> QED
    BY <1>t, <1>w, <2>1, <2>2, <2>3
<1>13. ASSUME NEW r \in Requests, Abandon(r) PROVE Fresh' /\ RowsLive'
  BY <1>13, <1>e, <1>r DEF Abandon
<1>14. ASSUME NEW r \in Requests, NEW i \in Instances, NEW flags, RegisterInstance(r, i, flags)
       PROVE  Fresh' /\ RowsLive'
  BY <1>14, <1>1 DEF RegisterInstance, Idle
<1>15. ASSUME NEW r \in Requests, InsertRegistered(r) PROVE Fresh' /\ RowsLive'
  <2>1. CASE End(r) /\ UNCHANGED <<row, used, live>>
    BY <1>e, <1>r, <2>1
  <2>2. CASE /\ req[r].inst \in live /\ used < MaxRows /\ used' = used + 1 /\ live' = live
             /\ row' = [row EXCEPT ![used + 1] = [inst |-> req[r].inst, flag |-> Head(req[r].todo)]]
             /\ End(r) \/ req' = [req EXCEPT ![r].todo = Tail(@)]
    <3>1. used + 1 \in Ids
      BY <1>t, <2>2 DEF Ids
    <3>2. \A s \in Requests : req'[s].id \in {0, req[s].id}
      BY <2>2, <1>e, TodoStays
    <3>3. row'[used + 1].inst = req[r].inst /\ \A x \in Ids \ {used + 1} : row'[x] = row[x]
      BY <1>t, <2>2, <3>1
    <3> QED
      BY <1>t, <1>w, <2>2, <3>1, <3>2, <3>3
  <2> QED
    BY <1>15, <2>1, <2>2 DEF InsertRegistered
<1>16. ASSUME NEW id \in Ids, DeleteNode(id) PROVE Fresh' /\ RowsLive'
  <2>1. /\ row'[id].inst = None /\ \A x \in Ids \ {id} : row'[x] = row[x]
        /\ UNCHANGED <<live, used, req>> /\ id <= used
    BY <1>16, <1>k, <1>t DEF DeleteNode, Exists
  <2> QED
    BY <1>t, <1>w, <2>1
<1>17. ASSUME NEW i \in Instances, CreateInstance(i) PROVE Fresh' /\ RowsLive'
  BY <1>17, <1>r DEF CreateInstance
<1>18. ASSUME NEW i \in Instances, DeleteInstance(i) PROVE Fresh' /\ RowsLive'
  <2>1. /\ row' = [x \in Ids |-> IF row[x].inst = i THEN Absent ELSE row[x]]
        /\ UNCHANGED <<used, req>> /\ live' = live \ {i}
    BY <1>18 DEF DeleteInstance
  <2>2. \A x \in Ids : row'[x].inst \in live' \cup {None}
    BY <1>t, <2>1 DEF RowsLive
  <2> QED
    BY <2>1, <2>2 DEF Fresh, RowsLive, Ids, Absent
<1>19. CASE UNCHANGED vars
  BY <1>19, <1>r DEF vars
<1> QED
  BY <1>2, <1>3, <1>4, <1>7, <1>8, <1>9, <1>10, <1>11, <1>12, <1>13, <1>14, <1>15, <1>16, <1>17,
     <1>18, <1>19 DEF Next

--------------------------------------------------------------------------------
(* Steps on accounts *)

\* A request saves a row: an instance that loses its default by it is known to, one
\* whose default it becomes has a request that clears the others, and one whose new
\* account is no default has a request that looks for one.
LEMMA WriteGood ==
    ASSUME TypeInv, kind = "accounts", None \notin Instances, NEW r \in Requests, NEW id \in Ids,
           Write(r, id), req[r].inst \in live,
           \/ req[r].pc = "insert" /\ row[id] = Absent
           \/ req[r].pc = "save",
           NEW i \in live \ disturbed', Good(i)
    PROVE  Good(i)'
<1>t. /\ row \in [Ids -> Rows \cup {Absent}] /\ i \in Instances /\ i # None
      /\ req[r] \in ReqType /\ req[r].flag \in BOOLEAN
  BY DEF TypeInv, ReqType
<1> DEFINE q == IF NextAfter(r) = "idle" THEN Idle ELSE [req[r] EXCEPT !.pc = NextAfter(r), !.id = id]
<1>1. req'[r] = q /\ \A s \in Requests \ {r} : req'[s] = req[s]
  <2>1. req' = [req EXCEPT ![r] = q]
    BY DEF Write
  <2> HIDE DEF q
  <2> QED
    BY <2>1, OthersStay
<1>2. NextAfter(r) # "idle" => q.pc = NextAfter(r) /\ q.inst = req[r].inst
  BY <1>t DEF ReqType
<1> HIDE DEF q
<1>3. /\ row'[id].inst = req[r].inst /\ row'[id].flag = req[r].flag
      /\ \A x \in Ids \ {id} : row'[x] = row[x]
  BY <1>t DEF Write
\* It had no flag of the instance, unless it keeps it.
<1>4. id \in Flagged(i) => req[r].flag /\ req[r].inst = i
  <2>1. i \notin Unset(r, id)
    BY DEF Write
  <2>2. id \in Flagged(i) => req[r].pc = "save"
    BY <1>t DEF Flagged, RowsOf, Absent
  <2> QED
    BY <1>t, <2>1, <2>2 DEF Unset
<1>5. req[r].pc # "clear" /\ ~Due(r, i)
  BY DEF Due
<1>6. CASE req[r].flag /\ req[r].inst = i
  <2>1. Watched(i)'
    BY <1>1, <1>2, <1>6 DEF Watched, NextAfter
  <2>2. id \in Flagged(i)'
    BY <1>3, <1>6 DEF Flagged, RowsOf
  <2> QED
    BY <2>1, <2>2 DEF Good, AtMostOne, AtLeastOne
<1>7. CASE ~(req[r].flag /\ req[r].inst = i)
  <2>1. Flagged(i)' = Flagged(i)
    BY <1>3, <1>4, <1>7 DEF Flagged, RowsOf
  <2>2. CASE req[r].inst # i
    <3>1. RowsOf(row, i) = {} => RowsOf(row, i)' = {}
      BY <1>3, <2>2 DEF RowsOf
    <3> QED
      BY <1>1, <1>5, <2>1, <3>1, StaysGood
  <2>3. CASE req[r].inst = i /\ req[r].pc = "save"
    <3>1. RowsOf(row, i) # {}
      BY <1>t, <1>7, <2>3 DEF Write, Unset
    <3> QED
      BY <1>1, <1>5, <2>1, <3>1, StaysGood
  <2>4. CASE req[r].inst = i /\ req[r].pc = "insert"
    <3>1. Due(r, i)'
      BY <1>1, <1>2, <1>7, <2>4 DEF NextAfter, Due
    <3>2. AtMostOne(i)'
      <4>1. Single(i) => Single(i)'
        BY <2>1 DEF Single
      <4>2. Watched(i) => Watched(i)'
        BY <1>1, <1>5, StillWatched
      <4> QED
        BY <4>1, <4>2 DEF Good, AtMostOne
    <3> QED
      BY <3>1, <3>2 DEF Good, AtLeastOne
  <2> QED
    BY <2>2, <2>3, <2>4
<1> QED
  BY <1>6, <1>7

\* Whoever clears the others leaves its own account as the default, if it still is.
LEMMA ClearGood ==
    ASSUME TypeInv, kind = "accounts", None \notin Instances, NEW r \in Requests, ClearOthers(r),
           NEW i \in live \ disturbed', i \in disturbed => i = req[r].inst,
           i \notin disturbed => Good(i)
    PROVE  Good(i)'
<1>t. /\ row \in [Ids -> Rows \cup {Absent}] /\ i \in Instances
      /\ \A x \in Ids : row[x].flag \in BOOLEAN
  BY RowType DEF TypeInv
<1>1. req'[r] = Idle /\ \A s \in Requests \ {r} : req'[s] = req[s]
  BY OthersStay DEF ClearOthers, End
<1>2. \A x \in Ids : /\ row'[x].inst = row[x].inst
                     /\ row'[x].flag = (row[x].flag /\ ~(x # req[r].id /\ row[x].inst = req[r].inst))
  <2> SUFFICES ASSUME NEW x \in Ids
               PROVE  /\ row'[x].inst = row[x].inst
                      /\ row'[x].flag = (row[x].flag /\ ~(x # req[r].id /\ row[x].inst = req[r].inst))
    OBVIOUS
  <2>1. row'[x] = IF x # req[r].id /\ row[x].inst = req[r].inst
                  THEN [row[x] EXCEPT !.flag = FALSE] ELSE row[x]
    BY DEF ClearOthers, Unflagged
  <2>2. row[x] \in [inst : Instances \cup {None}, flag : BOOLEAN]
    <3>1. CASE row[x] \in Rows
      BY <3>1 DEF Rows
    <3>2. CASE row[x] = Absent
      BY <3>2 DEF Absent
    <3> QED
      BY <1>t, <3>1, <3>2
  <2>3. [row[x] EXCEPT !.flag = FALSE].inst = row[x].inst
    BY <2>2
  <2>4. [row[x] EXCEPT !.flag = FALSE].flag = FALSE /\ row[x].flag \in BOOLEAN
    BY <2>2
  <2>5. CASE x # req[r].id /\ row[x].inst = req[r].inst
    BY <2>1, <2>3, <2>4, <2>5
  <2>6. CASE ~(x # req[r].id /\ row[x].inst = req[r].inst)
    BY <2>1, <2>4, <2>6
  <2> QED
    BY <2>5, <2>6
<1>3. RowsOf(row, i)' = RowsOf(row, i)
  BY <1>2 DEF RowsOf
<1>n. req[r].pc = "clear" /\ ~Due(r, i)
  BY DEF ClearOthers, Due
<1>4. CASE req[r].inst # i
  <2>1. Flagged(i)' = Flagged(i)
    BY <1>2, <1>4 DEF Flagged, RowsOf
  <2> QED
    BY <1>1, <1>3, <1>4, <1>n, <2>1, StaysGood
<1>5. CASE req[r].inst = i /\ req[r].id \in Flagged(i)
  <2>1. Flagged(i)' = {req[r].id}
    BY <1>2, <1>5 DEF Flagged, RowsOf
  <2> DEFINE x == req[r].id
  <2>2. PICK y : y = x
    OBVIOUS
  <2>3. Flagged(i)' = {y}
    BY <2>1, <2>2
  <2> QED
    BY <2>3, OneIsGood
<1>6. CASE req[r].inst = i /\ req[r].id \notin Flagged(i)
  <2>1. Flagged(i) = {} /\ i \notin disturbed
    BY <1>t, <1>6 DEF ClearOthers, Bereaved
  <2>2. Flagged(i)' = {}
    BY <1>2, <2>1 DEF Flagged, RowsOf
  <2> QED
    BY <1>1, <1>3, <1>n, <2>1, <2>2, StaysGood DEF Single
<1> QED
  BY <1>4, <1>5, <1>6

LEMMA SeekGood ==
    ASSUME TypeInv, NEW r \in Requests, SeekDefault(r), NEW i \in live \ disturbed, Good(i)
    PROVE  Good(i)'
<1>1. Keeps(i) /\ req[r].pc = "seek"
  BY DEF SeekDefault, Keeps
<1>2. CASE Flagged(req[r].inst) = {}
  <2>1. Goto(r, "promote")
    BY <1>2 DEF SeekDefault
  <2>2. Due(r, i) => Due(r, i)'
    BY <2>1, GotoStays DEF Due
  <2> QED
    BY <1>1, <2>1, <2>2, GotoStays, KeepsGood
<1>3. CASE Flagged(req[r].inst) # {}
  <2>1. End(r)
    BY <1>3 DEF SeekDefault
  <2>2. \A s \in Requests \ {r} : req'[s] = req[s]
    BY <2>1, OthersStay DEF End
  <2>3. Due(r, i) => Flagged(i) # {}
    BY <1>3 DEF Due
  <2> QED
    BY <1>1, <2>2, <2>3, Kept, StaysGood
<1> QED
  BY <1>2, <1>3

LEMMA FirstGood ==
    ASSUME TypeInv, NEW r \in Requests, SeekFirst(r), NEW i \in live \ disturbed, Good(i)
    PROVE  Good(i)'
<1> DEFINE left == RowsOf(row, req[r].inst)
           q == [req[r] EXCEPT !.pc = "promote", !.id = CHOOSE id \in left : \A x \in left : id <= x]
<1>1. Keeps(i) /\ req[r].pc = "first" /\ req[r] \in ReqType
  BY DEF SeekFirst, Keeps, TypeInv
<1>2. CASE left = {}
  <2>1. \A s \in Requests \ {r} : req'[s] = req[s]
    BY <1>2, OthersStay DEF SeekFirst, End
  <2>2. Due(r, i) => RowsOf(row, i) = {}
    BY <1>2 DEF Due
  <2> QED
    BY <1>1, <2>1, <2>2, Kept, StaysGood
<1>3. CASE left # {}
  <2>1. q.pc = "promote" /\ q.inst = req[r].inst
    BY <1>1 DEF ReqType
  <2>2. req' = [req EXCEPT ![r] = q]
    BY <1>3 DEF SeekFirst
  <2> HIDE DEF q
  <2>3. req'[r] = q /\ \A s \in Requests \ {r} : req'[s] = req[s]
    BY <2>2, OthersStay
  <2>4. Due(r, i) => Due(r, i)'
    BY <2>1, <2>3 DEF Due
  <2> QED
    BY <1>1, <2>3, <2>4, KeepsGood
<1> QED
  BY <1>2, <1>3

\* The account that was picked becomes the default where it is now.
LEMMA PromoteGood ==
    ASSUME TypeInv, None \notin Instances, NEW r \in Requests, Promote(r),
           NEW i \in live \ disturbed', Good(i)
    PROVE  Good(i)'
<1>t. /\ row \in [Ids -> Rows \cup {Absent}] /\ i \in Instances /\ i # None
      /\ req[r].id \in Ids /\ req[r].pc = "promote" /\ i \notin Mispicked(r)
  BY DEF TypeInv, Promote, Ready
<1>1. \A s \in Requests \ {r} : req'[s] = req[s]
  BY OthersStay DEF Promote, End
<1>2. CASE req[r].id \in RowsOf(row, i)
  <2>1. Exists(req[r].id)
    BY <1>t, <1>2 DEF Exists, RowsOf, Absent
  <2>2. /\ row'[req[r].id].inst = i /\ row'[req[r].id].flag = TRUE
        /\ \A x \in Ids \ {req[r].id} : row'[x] = row[x]
    BY <1>t, <1>2, <2>1 DEF Promote, RowsOf, Exists, Rows
  <2>3. Flagged(i) \ {req[r].id} = {}
    BY <1>t, <1>2 DEF Mispicked
  <2>4. PICK y : y = req[r].id
    OBVIOUS
  <2>5. Flagged(i)' = {y}
    BY <1>t, <2>2, <2>3, <2>4 DEF Flagged, RowsOf
  <2> QED
    BY <2>5, OneIsGood
<1>3. CASE req[r].id \notin RowsOf(row, i)
  <2>1. Keeps(i)
    <3>1. CASE Exists(req[r].id)
      <4>1. /\ row'[req[r].id].inst = row[req[r].id].inst
            /\ \A x \in Ids \ {req[r].id} : row'[x] = row[x]
        BY <1>t, <3>1 DEF Promote, Exists, Rows
      <4> QED
        BY <1>t, <1>3, <4>1 DEF Keeps, RowsOf
    <3>2. CASE ~Exists(req[r].id)
      BY <3>2 DEF Promote, Keeps
    <3> QED
      BY <3>1, <3>2
  <2>2. Due(r, i) => Flagged(i) # {}
    BY <1>t, <1>3 DEF Mispicked, Due
  <2> QED
    BY <1>1, <1>t, <2>1, <2>2, Kept, StaysGood
<1> QED
  BY <1>2, <1>3

\* Of a default account that is deleted the request knows, and looks for the first left.
LEMMA DeleteGood ==
    ASSUME TypeInv, None \notin Instances, NEW r \in Requests, DeleteAccount(r),
           NEW i \in live \ disturbed', Good(i)
    PROVE  Good(i)'
<1>t. /\ row \in [Ids -> Rows \cup {Absent}] /\ i \in Instances /\ i # None
      /\ req[r].id \in Ids /\ req[r].pc = "delete" /\ i \notin Misread(r)
  BY DEF TypeInv, DeleteAccount, Ready
<1>1. \A s \in Requests \ {r} : req'[s] = req[s]
  BY OthersStay, GotoStays DEF DeleteAccount, End
<1>2. row'[req[r].id].inst = None /\ \A x \in Ids \ {req[r].id} : row'[x] = row[x]
  BY <1>t DEF DeleteAccount, Absent
<1>3. CASE req[r].id \in Flagged(i)
  <2>1. req[r].flag /\ req[r].inst = i
    BY <1>t, <1>3 DEF Misread
  <2>2. Due(r, i)'
    BY <2>1, GotoStays DEF DeleteAccount, Due
  <2>3. AtMostOne(i)'
    <3>1. Single(i) => Single(i)'
      BY <1>2, <1>t DEF Single, Flagged, RowsOf
    <3>2. Watched(i) => Watched(i)'
      BY <1>1, <1>t, StillWatched
    <3> QED
      BY <3>1, <3>2 DEF Good, AtMostOne
  <2> QED
    BY <2>2, <2>3 DEF Good, AtLeastOne
<1>4. CASE req[r].id \notin Flagged(i)
  <2>1. Flagged(i)' = Flagged(i)
    BY <1>2, <1>4, <1>t DEF Flagged, RowsOf
  <2>2. RowsOf(row, i) = {} => RowsOf(row, i)' = {}
    BY <1>2, <1>t DEF RowsOf
  <2>3. ~Due(r, i)
    BY <1>t DEF Due
  <2> QED
    BY <1>1, <1>t, <2>1, <2>2, <2>3, StaysGood
<1> QED
  BY <1>3, <1>4

\* A request that died took nothing with it that an instance waits for.
LEMMA AbandonGood ==
    ASSUME TypeInv, NEW r \in Requests, Abandon(r), NEW i \in live \ disturbed', Good(i)
    PROVE  Good(i)'
<1>1. \A s \in Requests \ {r} : req'[s] = req[s]
  BY OthersStay DEF Abandon, End
<1>2. Keeps(i)
  BY DEF Abandon, Keeps
<1>3. req[r].inst = i => req[r].pc \notin Halfway
  BY DEF Abandon
<1> QED
  BY <1>1, <1>2, <1>3, KeepsGood DEF Halfway, Due

\* A registration gives its instance a default, or knows that it does not.
LEMMA RegisteredGood ==
    ASSUME TypeInv, None \notin Instances, NEW r \in Requests, InsertRegistered(r), Fresh,
           MaxRows \in Nat, NEW i \in live \ disturbed', Good(i)
    PROVE  Good(i)'
<1> DEFINE todo == req[r].todo
<1>t. /\ row \in [Ids -> Rows \cup {Absent}] /\ i \in Instances /\ i # None /\ used \in Nat
      /\ req[r].pc = "register" /\ todo \in Seq(BOOLEAN) /\ todo # <<>>
  BY DEF TypeInv, InsertRegistered, Ready, ReqType
<1>1. CASE End(r) /\ disturbed' = disturbed \cup {req[r].inst} /\ UNCHANGED <<row, used>>
  <2>1. \A s \in Requests \ {r} : req'[s] = req[s]
    BY <1>1, OthersStay DEF End
  <2>2. Keeps(i) /\ req[r].inst # i
    BY <1>1 DEF Keeps
  <2> QED
    BY <2>1, <2>2, KeepsGood DEF Due
<1>2. CASE /\ used < MaxRows
           /\ row' = [row EXCEPT ![used + 1] = [inst |-> req[r].inst, flag |-> Head(todo)]]
           /\ IF Len(todo) = 1 THEN End(r) ELSE req' = [req EXCEPT ![r].todo = Tail(@)]
           /\ disturbed' = disturbed \cup Overtaken(r)
  <2>1. used + 1 \in Ids /\ row[used + 1] = Absent
    BY <1>t, <1>2 DEF Ids, Fresh
  <2>2. PICK n \in Ids : n = used + 1
    BY <2>1
  <2>3. /\ row'[n].inst = req[r].inst /\ row'[n].flag = Head(todo)
        /\ \A x \in Ids \ {n} : row'[x] = row[x] /\ n \notin RowsOf(row, i)
    BY <1>t, <1>2, <2>1, <2>2 DEF RowsOf, Absent
  <2>4. /\ \A s \in Requests \ {r} : req'[s] = req[s]
        /\ Len(todo) # 1 => /\ req'[r].pc = "register" /\ req'[r].inst = req[r].inst
                            /\ req'[r].todo = Tail(todo)
    <3>1. CASE Len(todo) = 1
      BY <1>2, <3>1, OthersStay DEF End
    <3>2. CASE Len(todo) # 1
      BY <1>2, <1>t, <3>2, TodoStays
    <3> QED
      BY <3>1, <3>2
  <2>n. n \notin RowsOf(row, i)
    BY <1>t, <2>1, <2>2 DEF RowsOf, Absent
  <2>5. CASE req[r].inst # i
    <3>1. Keeps(i)
      BY <2>3, <2>5, <2>n DEF Keeps, RowsOf
    <3> QED
      BY <1>t, <2>4, <2>5, <3>1, KeepsGood DEF Due
  <2>6. CASE req[r].inst = i /\ Head(todo)
    <3>1. Flagged(i) = {}
      BY <1>t, <1>2, <2>6 DEF Overtaken
    <3>2. Flagged(i)' = {n}
      BY <2>3, <2>6, <3>1 DEF Flagged, RowsOf
    <3> QED
      BY <3>2, OneIsGood
  <2>7. CASE req[r].inst = i /\ ~Head(todo)
    <3>1. Flagged(i)' = Flagged(i)
      BY <2>3, <2>7, <2>n DEF Flagged, RowsOf
    <3>2. DefaultDue(todo) => Due(r, i)'
      <4> SUFFICES ASSUME NEW k \in DOMAIN todo, todo[k] PROVE Due(r, i)'
        BY DEF DefaultDue
      <4>1. k \in 1..Len(todo) /\ Len(todo) \in Nat
        BY <1>t, LenProperties
      <4>h. Head(todo) = todo[1]
        OBVIOUS
      <4>2. k # 1
        BY <2>7, <4>h
      <4>3. Tail(todo)[k - 1] /\ k - 1 \in DOMAIN Tail(todo) /\ Len(todo) # 1
        BY <1>t, <4>1, <4>2, HeadTailProperties
      <4> QED
        BY <2>4, <2>7, <4>3 DEF Due, DefaultDue
    <3>3. RowsOf(row, i) # {} \/ DefaultDue(todo)
      BY <1>t, <1>2, <2>7 DEF Overtaken
    <3>4. CASE DefaultDue(todo)
      <4>1. AtMostOne(i)'
        <5>1. Single(i) => Single(i)'
          BY <3>1 DEF Single
        <5>2. Watched(i) => Watched(i)'
          BY <1>t, <2>4, StillWatched
        <5> QED
          BY <5>1, <5>2 DEF Good, AtMostOne
      <4> QED
        BY <3>2, <3>4, <4>1 DEF Good, AtLeastOne
    <3>5. CASE RowsOf(row, i) # {} /\ ~DefaultDue(todo)
      <4>1. ~Due(r, i) /\ req[r].pc # "clear"
        BY <1>t, <3>5 DEF Due
      <4> QED
        BY <2>4, <3>1, <3>5, <4>1, StaysGood
    <3> QED
      BY <3>3, <3>4, <3>5
  <2> QED
    BY <1>t, <2>5, <2>6, <2>7, HeadTailProperties
<1> QED
  BY <1>1, <1>2 DEF InsertRegistered

LEMMA StepDefault ==
    ASSUME TypeInv, None \notin Instances, MaxRows \in Nat, kind = "accounts", Fresh, RowsLive,
           DefaultInv, [Next]_vars
    PROVE  DefaultInv'
<1> SUFFICES ASSUME NEW i \in live' \ disturbed' PROVE Good(i)'
  BY DEF DefaultInv
<1>t. live \subseteq Instances /\ Idle.pc = "idle" /\ used \in Nat
  BY DEF TypeInv, Idle
<1>g. i \in live \ disturbed => Good(i)
  BY DEF DefaultInv
\* An idle request takes on work.
<1>b. ASSUME NEW r \in Requests, NEW q, Start(r, q), i \in live \ disturbed
      PROVE  Good(i)'
  <2>1. Keeps(i) /\ req[r] = Idle
    BY <1>b DEF Start, Keeps
  <2>2. \A s \in Requests \ {r} : req'[s] = req[s]
    BY <1>b, OthersStay DEF Start
  <2> QED
    BY <1>b, <1>g, <1>t, <2>1, <2>2, KeepsGood DEF Due
<1>1. ASSUME NEW r \in Requests, CheckCreate(r) \/ CheckUpdate(r) \/ ReadAccount(r) PROVE Good(i)'
  <2>1. PICK q : Begin(r, q)
    BY <1>1 DEF CheckCreate, CheckUpdate, ReadAccount
  <2> QED
    BY <1>b, <2>1 DEF Begin
<1>f. ASSUME NEW r \in Requests, Fail(r), req[r].pc \in {"insert", "save"} PROVE Good(i)'
  <2>1. Keeps(i) /\ i \in live \ disturbed
    BY <1>f DEF Fail, Keeps
  <2>2. \A s \in Requests \ {r} : req'[s] = req[s]
    BY <1>f, OthersStay DEF Fail, End
  <2> QED
    BY <1>f, <1>g, <2>1, <2>2, KeepsGood DEF Due
<1>2. ASSUME NEW r \in Requests, Insert(r) PROVE Good(i)'
  <2>1. CASE Fail(r)
    BY <1>2, <1>f, <2>1 DEF Insert
  <2>2. CASE req[r].inst \in live /\ used < MaxRows /\ Write(r, used + 1)
    <3>1. used + 1 \in Ids /\ row[used + 1] = Absent
      BY <1>t, <2>2 DEF Ids, Fresh
    <3>2. i \in live \ disturbed
      BY <2>2 DEF Write
    <3> QED
      BY <1>2, <1>g, <2>2, <3>1, <3>2, WriteGood DEF Insert
  <2> QED
    BY <1>2, <2>1, <2>2 DEF Insert
<1>3. ASSUME NEW r \in Requests, Save(r) PROVE Good(i)'
  <2>1. CASE Fail(r)
    BY <1>3, <1>f, <2>1 DEF Save
  <2>2. CASE req[r].inst \in live /\ Write(r, req[r].id)
    <3>1. req[r].id \in Ids
      BY <1>3 DEF Save, TypeInv, Ready
    <3>2. i \in live \ disturbed
      BY <2>2 DEF Write
    <3> QED
      BY <1>3, <1>g, <2>2, <3>1, <3>2, WriteGood DEF Save
  <2> QED
    BY <1>3, <2>1, <2>2 DEF Save
<1>4. ASSUME NEW r \in Requests, ClearOthers(r) PROVE Good(i)'
  <2>1. i \in live /\ (i \in disturbed => i = req[r].inst)
    BY <1>4 DEF ClearOthers
  <2> QED
    BY <1>4, <1>g, <2>1, ClearGood
<1>5. ASSUME NEW r \in Requests, SeekDefault(r) PROVE Good(i)'
  BY <1>5, <1>g, SeekGood DEF SeekDefault
<1>6. ASSUME NEW r \in Requests, SeekFirst(r) PROVE Good(i)'
  BY <1>6, <1>g, FirstGood DEF SeekFirst
<1>7. ASSUME NEW r \in Requests, Promote(r) PROVE Good(i)'
  BY <1>7, <1>g, PromoteGood DEF Promote
<1>8. ASSUME NEW r \in Requests, DeleteAccount(r) PROVE Good(i)'
  BY <1>8, <1>g, DeleteGood DEF DeleteAccount
<1>9. ASSUME NEW r \in Requests, Abandon(r) PROVE Good(i)'
  BY <1>9, <1>g, AbandonGood DEF Abandon
\* A new instance has no rows.
<1>n. ASSUME i \notin live, i \in Instances, UNCHANGED row PROVE Good(i)'
  <2>1. RowsOf(row, i)' = {}
    BY <1>n DEF RowsLive, RowsOf
  <2> QED
    BY <2>1, NoRowIsGood
<1>10. ASSUME NEW r \in Requests, NEW j \in Instances, NEW flags, RegisterInstance(r, j, flags)
       PROVE  Good(i)'
  <2>1. CASE i = j
    BY <1>10, <1>n, <2>1 DEF RegisterInstance, Unborn, Start
  <2>2. CASE i # j
    BY <1>10, <1>b, <2>2 DEF RegisterInstance
  <2> QED
    BY <2>1, <2>2
<1>11. ASSUME NEW r \in Requests, InsertRegistered(r) PROVE Good(i)'
  BY <1>11, <1>g, RegisteredGood DEF InsertRegistered
<1>12. ASSUME NEW id \in Ids, DeleteNode(id) PROVE Good(i)'
  BY <1>12 DEF DeleteNode
\* No request moves and no row of i does.
<1>u. ASSUME UNCHANGED req, Keeps(i), i \in live \ disturbed PROVE Good(i)'
  <2>1. Flagged(i)' = Flagged(i) /\ RowsOf(row, i)' = RowsOf(row, i)
    BY <1>u, Kept
  <2>2. (Single(i) => Single(i)') /\ (Watched(i) => Watched(i)')
    BY <1>u, <2>1 DEF Single, Watched
  <2>3. \A r \in Requests : Due(r, i) => Due(r, i)'
    BY <1>u DEF Due
  <2> QED
    BY <1>u, <1>g, <2>1, <2>2, <2>3 DEF Good, AtMostOne, AtLeastOne
<1>13. ASSUME NEW j \in Instances, CreateInstance(j) PROVE Good(i)'
  <2>1. CASE i = j
    BY <1>13, <1>n, <2>1 DEF CreateInstance, Unborn
  <2>2. CASE i # j
    BY <1>13, <1>u, <2>2 DEF CreateInstance, Keeps
  <2> QED
    BY <2>1, <2>2
<1>14. ASSUME NEW j \in Instances, DeleteInstance(j) PROVE Good(i)'
  <2>1. i # j /\ i \in live \ disturbed /\ UNCHANGED req /\ i # None
    BY <1>14, <1>t DEF DeleteInstance
  <2>2. Keeps(i)
    BY <1>14, <2>1 DEF DeleteInstance, Keeps, Absent
  <2> QED
    BY <1>u, <2>1, <2>2
<1>15. CASE UNCHANGED vars
  BY <1>15, <1>u DEF vars, Keeps
<1> QED
  BY <1>1, <1>2, <1>3, <1>4, <1>5, <1>6, <1>7, <1>8, <1>9, <1>10, <1>11, <1>12, <1>13, <1>14,
     <1>15 DEF Next

LEMMA SameKind == ASSUME [Next]_vars PROVE kind' = kind
<1>1. ASSUME NEW r \in Requests, NEW q, Start(r, q) PROVE kind' = kind
  BY <1>1 DEF Start
<1>2. ASSUME NEW r \in Requests, CheckCreate(r) \/ CheckUpdate(r) \/ ReadAccount(r)
      PROVE  kind' = kind
  <2>1. PICK q : Begin(r, q)
    BY <1>2 DEF CheckCreate, CheckUpdate, ReadAccount
  <2> QED
    BY <1>1, <2>1 DEF Begin
<1>3. ASSUME NEW r \in Requests, Insert(r) \/ Save(r) PROVE kind' = kind
  <2>1. Fail(r) \/ \E id : Write(r, id)
    BY <1>3 DEF Insert, Save
  <2> QED
    BY <2>1 DEF Fail, Write
<1>4. ASSUME NEW r \in Requests,
             \/ ClearOthers(r) \/ SeekDefault(r) \/ SeekFirst(r) \/ Promote(r) \/ DeleteAccount(r)
             \/ Abandon(r) \/ InsertRegistered(r)
      PROVE  kind' = kind
  BY <1>4 DEF ClearOthers, SeekDefault, SeekFirst, Promote, DeleteAccount, Abandon, InsertRegistered
<1>5. ASSUME NEW r \in Requests, NEW i \in Instances, NEW flags, RegisterInstance(r, i, flags)
      PROVE  kind' = kind
  BY <1>1, <1>5 DEF RegisterInstance
<1>6. ASSUME NEW i, CreateInstance(i) \/ DeleteInstance(i) \/ DeleteNode(i) PROVE kind' = kind
  BY <1>6 DEF CreateInstance, DeleteInstance, DeleteNode
<1> QED
  BY <1>2, <1>3, <1>4, <1>5, <1>6 DEF Next, vars

--------------------------------------------------------------------------------
(* The default account *)

AccountsInv == TypeInv /\ Fresh /\ RowsLive /\ (kind = "accounts" => DefaultInv)

\* However requests on accounts interleave, two accounts of an instance are default only
\* while a request is about to clear the other, and none of several is only while one is
\* about to pick a default (services.py, _ensure_single_default_account and its two
\* fallbacks).  Six things are excepted, each until a request next sets a default and
\* clears the others: an update that switches the default off, moves it away or brings an
\* instance its only account; a clear whose own account has lost the flag since; a pick
\* that is gone or no longer needed; a delete of an account that became the default or
\* moved after it was read; a registration refused a row, overtaken by others or copying
\* a master without one default; and a request that died between its first write and
\* its last.
THEOREM DefaultAccount ==
    ASSUME None \notin Instances, MaxRows \in Nat PROVE Spec => []OneDefault
<1>1. Init => AccountsInv
  <2> SUFFICES ASSUME Init PROVE AccountsInv
    OBVIOUS
  <2>1. TypeInv
    BY InitTypes
  <2>2. Fresh /\ RowsLive /\ DefaultInv
    BY DEF Init, Fresh, RowsLive, DefaultInv, Absent, Idle
  <2> QED
    BY <2>1, <2>2 DEF AccountsInv
<1>2. AccountsInv /\ [Next]_vars => AccountsInv'
  <2> SUFFICES ASSUME AccountsInv, [Next]_vars PROVE AccountsInv'
    OBVIOUS
  <2>1. TypeInv' /\ kind' = kind
    BY StepTypes, SameKind DEF AccountsInv
  <2>2. Fresh' /\ RowsLive'
    BY <2>1, StepFresh DEF AccountsInv
  <2>3. kind = "accounts" => DefaultInv'
    BY StepDefault DEF AccountsInv
  <2> QED
    BY <2>1, <2>2, <2>3 DEF AccountsInv
<1>3. AccountsInv => OneDefault
  BY DEF AccountsInv, OneDefault, DefaultInv, Good, AtMostOne, AtLeastOne, Single, Watched, Due
<1> QED
  BY <1>1, <1>2, <1>3, PTL DEF Spec
================================================================================
