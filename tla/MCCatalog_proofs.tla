---------------------------- MODULE MCCatalog_proofs ----------------------------
(***************************************************************************)
(* Theorems about what users describe to the program: hosts, parameter      *)
(* templates and the parameters of a deployment.                            *)
(***************************************************************************)
EXTENDS MCCatalog, ParamTemplate_proofs, SequenceTheorems

--------------------------------------------------------------------------------
(* Hosts: types *)

AllTypes == {"business", "inner", "adm", "std"}
PagePcs == {"idle", "loaded", "checked", "reading", "syncing"}
PageType == [pc : PagePcs, loaded : SUBSET H!Ids, list : Seq(H!Entries),
             existing : SUBSET H!Ids, keep : SUBSET H!Ids]

\* Rows listed with an id come first, by id.
Ordered(list) ==
    \A m, n \in 1..Len(list) :
        m < n /\ list[n].id # H!New => list[m].id # H!New /\ list[m].id < list[n].id

\* Ids that a page knows have been given.
Given(q) ==
    /\ \A n \in q.loaded \cup q.existing \cup q.keep : n <= usedRows
    /\ \A n \in 1..Len(q.list) : q.list[n].id <= usedRows
    /\ Ordered(q.list)

HostTyped ==
    /\ table \in H!Tables
    /\ host \in BOOLEAN
    /\ rows \in [H!Ids -> H!Types \cup {Gone}]
    /\ usedRows \in 0..MaxId
    /\ ~host => H!Existing = {}
    /\ \A n \in H!Existing : n <= usedRows
    /\ pages \in [Editors -> PageType]
    /\ \A f \in Editors : Given(pages[f])
    /\ disturbed \in BOOLEAN /\ stale \in BOOLEAN

LEMMA HostConstants ==
    /\ MaxId \in Nat /\ MaxList \in Nat
    /\ H!Ids = 1..MaxId
    /\ H!New = 0
    /\ H!Types \subseteq AllTypes
    /\ Gone \notin AllTypes
  BY CatalogAssumption DEF H!Ids, H!New, H!Types, AllTypes

LEMMA IdlePage ==
    /\ H!Idle \in PageType /\ Given(H!Idle)
    /\ H!Idle.pc = "idle" /\ H!Idle.list = <<>>
    /\ H!Idle.loaded = {} /\ H!Idle.existing = {} /\ H!Idle.keep = {}
<1>1. <<>> \in Seq(H!Entries)
  BY EmptySeq
<1>2. ASSUME NEW list \in Seq(H!Entries)
      PROVE  [pc |-> "idle", loaded |-> {}, list |-> list, existing |-> {}, keep |-> {}] \in PageType
  BY DEF PageType, PagePcs
<1>3. H!Idle \in PageType
  BY <1>1, <1>2, Zenon DEF H!Idle
<1>4. /\ H!Idle.pc = "idle" /\ H!Idle.list = <<>>
      /\ H!Idle.loaded = {} /\ H!Idle.existing = {} /\ H!Idle.keep = {}
  BY DEF H!Idle
<1>5. Given(H!Idle)
  BY <1>4 DEF Given, Ordered
<1> QED
  BY <1>3, <1>4, <1>5

\* What a page sends is an ordered list of rows it knew, and of new ones.
LEMMA ListType ==
    ASSUME HostTyped, NEW known \in SUBSET H!Ids, \A n \in known : n <= usedRows,
           NEW list \in H!Lists(known)
    PROVE  /\ list \in Seq(H!Entries)
           /\ DOMAIN list = 1..Len(list)
           /\ \A n \in 1..Len(list) : list[n].id <= usedRows
           /\ Ordered(list)
<1>1. PICK k \in 0..MaxList : list \in [1..k -> H!Entries]
  BY DEF H!Lists
<1>2. list \in Seq(H!Entries) /\ Len(list) = k /\ DOMAIN list = 1..Len(list)
  BY <1>1, HostConstants
<1>3. \A n \in DOMAIN list : list[n].id \in known \cup {H!New}
  BY DEF H!Lists
<1>4. usedRows \in Nat
  BY HostConstants DEF HostTyped
<1>5. ASSUME NEW n \in 1..Len(list) PROVE list[n].id <= usedRows
  <2>1. CASE list[n].id \in known
    BY <2>1
  <2>2. CASE list[n].id = 0
    BY <2>2, <1>4
  <2> QED
    BY <1>2, <1>3, <2>1, <2>2, HostConstants
<1>6. Ordered(list)
  BY <1>2 DEF H!Lists, Ordered
<1> QED
  BY <1>2, <1>5, <1>6

LEMMA TailType ==
    ASSUME NEW list \in Seq(H!Entries), list # <<>>
    PROVE  /\ Head(list) = list[1] /\ list[1] \in H!Entries
           /\ Tail(list) \in Seq(H!Entries)
           /\ Len(list) \in Nat /\ Len(list) >= 1 /\ Len(Tail(list)) = Len(list) - 1
           /\ \A n \in 1..Len(Tail(list)) : Tail(list)[n] = list[n + 1] /\ n + 1 \in 1..Len(list)
           /\ Ordered(list) => Ordered(Tail(list))
<1>1. /\ Len(list) \in Nat /\ Len(list) >= 1
      /\ Tail(list) \in Seq(H!Entries) /\ Len(Tail(list)) = Len(list) - 1
      /\ \A n \in 1..Len(list) - 1 : Tail(list)[n] = list[n + 1]
      /\ Head(list) = list[1] /\ list[1] \in H!Entries
  OBVIOUS
<1>2. \A n \in 1..Len(Tail(list)) : Tail(list)[n] = list[n + 1] /\ n + 1 \in 1..Len(list)
  BY <1>1
<1>3. ASSUME Ordered(list) PROVE Ordered(Tail(list))
  BY <1>1, <1>2, <1>3 DEF Ordered
<1> QED
  BY <1>1, <1>2, <1>3

\* One page moves on; rows and history may change with it.
LEMMA PageTyped ==
    ASSUME HostTyped, NEW f \in Editors, NEW q \in PageType, Given(q)',
           pages' = [pages EXCEPT ![f] = q],
           table' = table, host' \in BOOLEAN, disturbed' \in BOOLEAN, stale' \in BOOLEAN,
           rows' \in [H!Ids -> H!Types \cup {Gone}],
           usedRows' \in 0..MaxId, usedRows <= usedRows',
           ~host' => H!Existing' = {},
           \A n \in H!Existing' : n <= usedRows'
    PROVE  HostTyped'
<1>1. pages' \in [Editors -> PageType]
  BY DEF HostTyped
<1>2. usedRows \in Nat /\ usedRows' \in Nat
  BY HostConstants DEF HostTyped
<1>3. ASSUME NEW g \in Editors \ {f} PROVE Given(pages[g])'
  <2>1. pages'[g] = pages[g] /\ pages[g] \in PageType /\ Given(pages[g])
    BY DEF HostTyped
  <2>2. \A n \in H!Ids : n <= usedRows => n <= usedRows'
    BY <1>2, HostConstants
  <2>3. \A n \in 1..Len(pages[g].list) : pages[g].list[n].id <= usedRows'
    <3> SUFFICES ASSUME NEW n \in 1..Len(pages[g].list) PROVE pages[g].list[n].id <= usedRows'
      OBVIOUS
    <3>1. pages[g].list[n] \in H!Entries
      BY <2>1 DEF PageType
    <3>2. pages[g].list[n].id \in Nat
      BY <3>1, HostConstants DEF H!Entries
    <3> QED
      BY <1>2, <2>1, <3>2 DEF Given
  <2> QED
    BY <2>1, <2>2, <2>3 DEF Given, PageType
<1>4. Given(pages[f])'
  <2>1. pages'[f] = q
    BY DEF HostTyped
  <2> QED
    BY <2>1 DEF Given
<1>5. \A g \in Editors : Given(pages[g])'
  BY <1>3, <1>4
<1>6. table' \in H!Tables /\ H!Types' = H!Types
  BY DEF HostTyped, H!Tables, H!Types
<1>7. rows' \in [H!Ids -> H!Types' \cup {Gone}]
  BY <1>6
<1>8. \A n \in H!Existing' : n <= usedRows'
  OBVIOUS
<1>9. (~host => H!Existing = {})' /\ (\A n \in H!Existing : n <= usedRows)'
  BY <1>8
<1>10. (rows \in [H!Ids -> H!Types \cup {Gone}])' /\ (\A g \in Editors : Given(pages[g]))'
  BY <1>5, <1>7 DEF H!Ids
<1>11. (table \in H!Tables)' /\ (pages \in [Editors -> PageType])'
  BY <1>1, <1>6 DEF H!Tables, PageType, PagePcs, H!Entries, H!Ids, H!New
<1> QED
  BY <1>9, <1>10, <1>11, Zenon DEF HostTyped

\* One page moves on; rows stay.
LEMMA PageTypedAlone ==
    ASSUME HostTyped, NEW f \in Editors, NEW q \in PageType, Given(q),
           pages' = [pages EXCEPT ![f] = q],
           UNCHANGED <<table, rows, usedRows>>, host' = host \/ host' = TRUE,
           disturbed' \in BOOLEAN, stale' \in BOOLEAN
    PROVE  HostTyped'
<1>1. H!Existing' = H!Existing
  BY DEF H!Existing, H!Ids
<1>2. usedRows' \in 0..MaxId /\ usedRows <= usedRows'
  BY HostConstants DEF HostTyped
<1>3. Given(q)'
  BY DEF Given
<1>4. ~host' => H!Existing' = {}
  BY <1>1 DEF HostTyped
<1>5. \A n \in H!Existing' : n <= usedRows'
  BY <1>1 DEF HostTyped
<1>6. host' \in BOOLEAN /\ rows' \in [H!Ids -> H!Types \cup {Gone}]
  BY DEF HostTyped
<1> QED
  BY <1>2, <1>3, <1>4, <1>5, <1>6, PageTyped

--------------------------------------------------------------------------------
(* Hosts: what a list that is being written comes to *)

OneListed(list) == \E n \in 1..Len(list) : \A m \in 1..Len(list) : list[m].type = "adm" <=> m = n
NoneListed(list) == \A n \in 1..Len(list) : list[n].type # "adm"
OneKept(S) == \E a \in S : \A b \in S : rows[b] = "adm" <=> a = b
NoneKept(S) == \A a \in S : rows[a] # "adm"
BusinessFirst(S) == S # {} => \E k \in S : rows[k] = "business" /\ \A m \in S : k <= m

\* Before a save reads the rows there are, it has what was checked.
Checked(q) ==
    /\ q.keep = {}
    /\ table = "accounts" => OneListed(q.list)
    /\ table = "addresses" /\ q.list # <<>> => q.list[1].type = "business"

\* From then on the rows written and those to be written make up the list: one
\* administrator among them; or a business address first and, if no row
\* listed was gone, the ids to come behind those written.
Halfway(q) ==
    /\ q.existing \cup q.keep \subseteq H!Existing
    /\ \A k \in q.keep, n \in 1..Len(q.list) : q.list[n].id \in q.existing => k # q.list[n].id
    /\ table = "accounts" =>
          \/ OneKept(q.keep) /\ NoneListed(q.list)
          \/ NoneKept(q.keep) /\ OneListed(q.list)
    /\ table = "addresses" /\ ~stale =>
          /\ \A n \in 1..Len(q.list) : q.list[n].id \in q.existing \cup {H!New}
          /\ \A k \in q.keep, n \in 1..Len(q.list) : q.list[n].id # H!New => k < q.list[n].id
          /\ BusinessFirst(q.keep)
          /\ q.keep = {} /\ q.list # <<>> => q.list[1].type = "business"

Fits ==
    /\ table = "accounts" => OneKept(H!Existing)
    /\ table = "addresses" /\ ~stale => BusinessFirst(H!Existing)

\* As long as nothing disturbs it, one save at a time.
OneSaves == ~disturbed => \A f, g \in Editors : H!Saving(f) /\ H!Saving(g) => f = g

PageFits(f) ==
    /\ pages[f].pc \in {"checked", "reading"} => Checked(pages[f])
    /\ pages[f].pc = "syncing" /\ host /\ ~disturbed => Halfway(pages[f])

HostInv ==
    /\ HostTyped
    /\ OneSaves
    /\ \A f \in Editors : PageFits(f)
    /\ host /\ H!NoneSaving /\ ~disturbed => Fits

\* The next entry of the list is written under id.
LEMMA Written ==
    ASSUME HostTyped, NEW q \in PageType, Given(q), Halfway(q), q.list # <<>>,
           NEW id \in H!Ids, id \notin q.keep,
           rows' = [rows EXCEPT ![id] = q.list[1].type], table' = table, stale' = stale,
           \A n \in 2..Len(q.list) : q.list[n].id \in q.existing => q.list[n].id # id,
           table = "addresses" /\ ~stale =>
               /\ \A k \in q.keep : k < id
               /\ \A n \in 2..Len(q.list) : q.list[n].id # H!New => id < q.list[n].id,
           NEW p, p.existing = q.existing, p.list = Tail(q.list), p.keep = q.keep \cup {id}
    PROVE  Halfway(p)'
<1>1. q.list \in Seq(H!Entries) /\ q.keep \subseteq H!Ids /\ q.existing \subseteq H!Ids
  BY DEF PageType
<1>2. PICK list : list = q.list
  OBVIOUS
<1>3. /\ list[1] \in H!Entries /\ Len(list) \in Nat /\ Len(list) >= 1
      /\ Len(p.list) = Len(list) - 1
      /\ \A n \in 1..Len(p.list) : p.list[n] = list[n + 1] /\ n + 1 \in 1..Len(list)
  <2>1. list \in Seq(H!Entries) /\ list # <<>> /\ p.list = Tail(list)
    BY <1>1, <1>2
  <2> QED
    BY <2>1, TailType
<1>4. list[1].type \in H!Types /\ list[1].type # Gone
  BY <1>3, HostConstants DEF H!Entries
<1>5. rows'[id] = list[1].type /\ \A k \in H!Ids \ {id} : rows'[k] = rows[k]
  BY <1>2 DEF HostTyped
<1>6. p.existing \cup p.keep \subseteq H!Existing'
  BY <1>1, <1>4, <1>5 DEF Halfway, H!Existing, H!Ids
<1>7. ASSUME NEW k \in p.keep, NEW n \in 1..Len(p.list), p.list[n].id \in p.existing
      PROVE  k # p.list[n].id
  <2>1. n + 1 \in 2..Len(list) /\ p.list[n] = list[n + 1]
    BY <1>3
  <2> QED
    BY <1>2, <1>7, <2>1 DEF Halfway
<1>8. ASSUME table = "accounts"
      PROVE  \/ OneKept(p.keep)' /\ NoneListed(p.list)
             \/ NoneKept(p.keep)' /\ OneListed(p.list)
  <2>1. CASE OneKept(q.keep) /\ NoneListed(list)
    <3>1. NoneListed(p.list) /\ list[1].type # "adm"
      BY <1>3, <2>1 DEF NoneListed
    <3>2. OneKept(p.keep)'
      BY <1>1, <1>5, <2>1, <3>1 DEF OneKept
    <3> QED
      BY <3>1, <3>2
  <2>2. CASE NoneKept(q.keep) /\ OneListed(list)
    <3>1. PICK n \in 1..Len(list) : \A m \in 1..Len(list) : list[m].type = "adm" <=> m = n
      BY <2>2 DEF OneListed
    <3>2. CASE n = 1
      <4>1. NoneListed(p.list)
        BY <1>3, <3>1, <3>2 DEF NoneListed
      <4>2. OneKept(p.keep)'
        BY <1>1, <1>3, <1>5, <2>2, <3>1, <3>2 DEF OneKept, NoneKept
      <4> QED
        BY <4>1, <4>2
    <3>3. CASE n # 1
      <4>1. n - 1 \in 1..Len(p.list) /\ \A m \in 1..Len(p.list) : m + 1 = n <=> m = n - 1
        BY <1>3, <3>3
      <4>2. \A m \in 1..Len(p.list) : p.list[m].type = "adm" <=> m = n - 1
        BY <1>3, <3>1, <4>1
      <4>3. OneListed(p.list)
        BY <4>1, <4>2 DEF OneListed
      <4>4. NoneKept(p.keep)'
        BY <1>1, <1>3, <1>5, <2>2, <3>1, <3>3 DEF NoneKept
      <4> QED
        BY <4>3, <4>4
    <3> QED
      BY <3>2, <3>3
  <2> QED
    BY <1>2, <1>8, <2>1, <2>2 DEF Halfway
<1>9. ASSUME table = "addresses", ~stale
      PROVE  /\ \A n \in 1..Len(p.list) : p.list[n].id \in p.existing \cup {H!New}
             /\ \A k \in p.keep, n \in 1..Len(p.list) : p.list[n].id # H!New => k < p.list[n].id
             /\ BusinessFirst(p.keep)'
  <2>1. /\ \A n \in 1..Len(list) : list[n].id \in q.existing \cup {H!New}
        /\ \A k \in q.keep, n \in 1..Len(list) : list[n].id # H!New => k < list[n].id
        /\ BusinessFirst(q.keep)
        /\ q.keep = {} => list[1].type = "business"
    BY <1>2, <1>9 DEF Halfway
  <2>2. \A n \in 1..Len(p.list) : n + 1 \in 2..Len(list)
    BY <1>3
  <2>3. \A k \in p.keep, n \in 1..Len(p.list) : p.list[n].id # H!New => k < p.list[n].id
    BY <1>2, <1>3, <1>9, <2>1, <2>2
  <2>4. BusinessFirst(p.keep)'
    <3>1. CASE q.keep = {}
      BY <1>5, <2>1, <3>1, HostConstants DEF BusinessFirst
    <3>2. CASE q.keep # {}
      <4>1. PICK k \in q.keep : rows[k] = "business" /\ \A m \in q.keep : k <= m
        BY <2>1, <3>2 DEF BusinessFirst
      <4>2. k < id /\ k \in Nat /\ id \in Nat
        BY <1>1, <1>9, HostConstants
      <4>3. rows'[k] = "business" /\ \A m \in p.keep : k <= m
        BY <1>1, <1>5, <4>1, <4>2
      <4> QED
        BY <4>1, <4>3 DEF BusinessFirst
    <3> QED
      BY <3>1, <3>2
  <2> QED
    BY <1>3, <2>1, <2>3, <2>4
<1> QED
  BY <1>6, <1>7, <1>8, <1>9 DEF Halfway, H!New, NoneListed, OneListed

--------------------------------------------------------------------------------
(* Hosts: one lemma per step *)

\* A step of one page, after which, if nothing disturbs it, no other saves.
LEMMA PageMoves ==
    ASSUME HostInv, NEW f \in Editors, NEW q \in PageType, pages' = [pages EXCEPT ![f] = q],
           HostTyped', table' = table,
           ~disturbed' => \A g \in Editors \ {f} : ~H!Saving(g),
           q.pc \in {"checked", "reading"} => Checked(q),
           q.pc = "syncing" /\ host' /\ ~disturbed' => Halfway(q)',
           q.pc \in {"idle", "loaded"} /\ host' /\ ~disturbed' => Fits'
    PROVE  HostInv'
<1>1. pages \in [Editors -> PageType] /\ pages' \in [Editors -> PageType]
  BY DEF HostInv, HostTyped
<1>2. pages'[f] = q /\ \A g \in Editors \ {f} : pages'[g] = pages[g]
  BY <1>1
<1>3. \A g \in Editors \ {f} : H!Saving(g)' <=> H!Saving(g)
  BY <1>2 DEF H!Saving
<1>4. OneSaves'
  BY <1>3 DEF OneSaves
<1>5. ASSUME NEW g \in Editors PROVE PageFits(g)'
  <2>1. CASE g = f
    BY <1>2, <2>1 DEF PageFits, Checked, Halfway
  <2>2. CASE g # f
    <3>1. pages'[g] = pages[g] /\ PageFits(g)
      BY <1>2, <2>2 DEF HostInv
    <3>2. pages[g].pc = "syncing" => H!Saving(g)
      BY DEF H!Saving
    <3>3. pages[g].pc = "syncing" => disturbed'
      BY <2>2, <3>2
    <3> QED
      BY <3>1, <3>3 DEF PageFits, Checked
  <2> QED
    BY <2>1, <2>2
<1>6. ASSUME host', H!NoneSaving', ~disturbed' PROVE Fits'
  <2>1. q.pc \in {"idle", "loaded"}
    BY <1>2, <1>6 DEF H!NoneSaving, H!Saving
  <2> QED
    BY <1>6, <2>1
<1> QED
  BY <1>4, <1>5, <1>6 DEF HostInv

\* What the others do while one saves undisturbed: nothing.
LEMMA OthersIdle ==
    ASSUME HostInv, NEW f \in Editors, H!Saving(f)
    PROVE  ~disturbed => \A g \in Editors \ {f} : ~H!Saving(g)
  BY DEF HostInv, OneSaves

LEMMA LoadHost == ASSUME HostInv, NEW f \in Editors, H!Load(f) PROVE HostInv'
<1>1. PICK q : q = [H!Idle EXCEPT !.pc = "loaded", !.loaded = H!Existing]
  OBVIOUS
<1>2. /\ q \in PageType /\ q.pc = "loaded" /\ q.loaded = H!Existing
      /\ q.list = <<>> /\ q.existing = {} /\ q.keep = {}
  BY <1>1, IdlePage DEF PageType, PagePcs, H!Existing
<1>3. pages' = [pages EXCEPT ![f] = q] /\ UNCHANGED <<table, host, rows, usedRows, disturbed, stale>>
  BY <1>1 DEF H!Load
<1>4. pages[f].pc = "idle"
  BY DEF H!Load
<1>5. Given(q)
  BY <1>2 DEF Given, Ordered, HostInv, HostTyped
<1>6. HostTyped'
  BY <1>2, <1>3, <1>5, PageTypedAlone DEF HostInv, HostTyped
<1>7. pages'[f] = q /\ \A g \in Editors \ {f} : pages'[g] = pages[g]
  BY <1>3 DEF HostInv, HostTyped
<1>8. \A g \in Editors : H!Saving(g)' <=> H!Saving(g)
  BY <1>2, <1>4, <1>7 DEF H!Saving
<1>9. OneSaves'
  BY <1>3, <1>8 DEF HostInv, OneSaves
<1>10. H!Existing' = H!Existing
  BY <1>3 DEF H!Existing, H!Ids
<1>11. ASSUME NEW g \in Editors PROVE PageFits(g)'
  <2>1. CASE g = f
    BY <1>2, <1>7, <2>1 DEF PageFits
  <2>2. CASE g # f
    BY <1>3, <1>7, <1>10, <2>2
       DEF HostInv, PageFits, Checked, Halfway, OneKept, NoneKept, BusinessFirst, H!New
  <2> QED
    BY <2>1, <2>2
<1>12. (host /\ H!NoneSaving /\ ~disturbed => Fits)'
  BY <1>3, <1>8, <1>10 DEF HostInv, H!NoneSaving, Fits, OneKept, BusinessFirst
<1> QED
  BY <1>6, <1>9, <1>11, <1>12 DEF HostInv

LEMMA SameCardinality == \A S : H!Cardinality(S) = Cardinality(S)
  BY DEF H!Cardinality, Cardinality

\* What the checks of a list are for.
LEMMA ValidList ==
    ASSUME HostTyped, NEW known \in SUBSET H!Ids, \A n \in known : n <= usedRows,
           NEW list \in H!Lists(known), H!Valid(list)
    PROVE  /\ table = "accounts" => OneListed(list)
           /\ table = "addresses" /\ list # <<>> => list[1].type = "business"
<1>1. DOMAIN list = 1..Len(list) /\ Len(list) \in Nat
  BY ListType
<1>2. ASSUME table = "accounts" PROVE OneListed(list)
  <2> DEFINE A == {n \in DOMAIN list : list[n].type = "adm"}
  <2>1. Cardinality(A) = 1
    BY <1>2, SameCardinality DEF H!Valid
  <2>2. IsFiniteSet(A)
    <3>1. IsFiniteSet(1..Len(list))
      BY <1>1, FS_Interval
    <3> QED
      BY <1>1, <3>1, FS_Subset
  <2>3. PICK n : A = {n}
    <3> HIDE DEF A
    <3> QED
      BY <2>1, <2>2, FS_Singleton
  <2> QED
    BY <1>1, <2>3 DEF OneListed
<1> QED
  BY <1>2 DEF H!Valid

LEMMA CreateHost == ASSUME HostInv, NEW f \in Editors, H!Create(f) PROVE HostInv'
<1>1. PICK list \in H!Lists({}) :
        /\ H!Valid(list)
        /\ pages' = [pages EXCEPT ![f] = [H!Idle EXCEPT !.pc = "reading", !.list = list]]
  BY DEF H!Create
<1>2. /\ list \in Seq(H!Entries) /\ DOMAIN list = 1..Len(list)
      /\ \A n \in 1..Len(list) : list[n].id <= usedRows
      /\ Ordered(list)
  BY ListType DEF HostInv
<1>3. PICK q : q = [H!Idle EXCEPT !.pc = "reading", !.list = list]
  OBVIOUS
<1>4. /\ q \in PageType /\ q.pc = "reading" /\ q.list = list
      /\ q.loaded = {} /\ q.existing = {} /\ q.keep = {}
  BY <1>2, <1>3, IdlePage DEF PageType, PagePcs
<1>5. /\ pages' = [pages EXCEPT ![f] = q]
      /\ UNCHANGED <<table, rows, usedRows, stale>> /\ host' = TRUE /\ disturbed' = FALSE
  BY <1>1, <1>3 DEF H!Create
<1>6. Given(q)
  BY <1>2, <1>4 DEF Given
<1>7. HostTyped'
  BY <1>4, <1>5, <1>6, PageTypedAlone DEF HostInv, HostTyped
<1>8. Checked(q)
  BY <1>1, <1>4, ValidList DEF HostInv, Checked
<1>9. \A g \in Editors : ~H!Saving(g)
  BY DEF H!Create, H!Saving
<1> QED
  BY <1>4, <1>5, <1>7, <1>8, <1>9, PageMoves

\* A page that is done, or that gives up: nothing of it is left.
LEMMA PageEnds ==
    ASSUME HostInv, NEW f \in Editors, pages' = [pages EXCEPT ![f] = H!Idle],
           UNCHANGED <<table, host, rows, usedRows, stale>>, disturbed' \in BOOLEAN,
           disturbed' \/ (~host /\ disturbed' = disturbed)
    PROVE  HostInv'
<1>1. HostTyped'
  BY IdlePage, PageTypedAlone DEF HostInv, HostTyped
<1>2. CASE disturbed'
  BY <1>1, <1>2, IdlePage, PageMoves
<1>3. CASE ~host /\ disturbed' = disturbed
  <2>1. pages'[f] = H!Idle /\ \A g \in Editors \ {f} : pages'[g] = pages[g]
    BY DEF HostInv, HostTyped
  <2>2. \A g \in Editors : PageFits(g)'
    BY <1>3, <2>1, IdlePage DEF HostInv, PageFits, Checked
  <2>3. \A g \in Editors : H!Saving(g)' => H!Saving(g)
    BY <2>1, IdlePage DEF H!Saving
  <2>4. OneSaves'
    BY <1>3, <2>3 DEF HostInv, OneSaves
  <2> QED
    BY <1>1, <1>3, <2>2, <2>4 DEF HostInv
<1> QED
  BY <1>2, <1>3

LEMMA CheckHost == ASSUME HostInv, NEW f \in Editors, H!Check(f) PROVE HostInv'
<1>1. pages[f] \in PageType /\ Given(pages[f]) /\ pages[f].pc = "loaded"
  BY DEF HostInv, HostTyped, H!Check
<1>2. UNCHANGED <<table, host, rows, usedRows, stale>>
  BY DEF H!Check
<1>3. CASE host
  <2>1. PICK list \in H!Lists(pages[f].loaded) :
          /\ H!Valid(list)
          /\ pages' = [pages EXCEPT ![f] = [H!Idle EXCEPT !.pc = "checked", !.list = list]]
    BY <1>3 DEF H!Check
  <2>2. pages[f].loaded \in SUBSET H!Ids /\ \A n \in pages[f].loaded : n <= usedRows
    BY <1>1 DEF PageType, Given
  <2>3. /\ list \in Seq(H!Entries) /\ DOMAIN list = 1..Len(list)
        /\ \A n \in 1..Len(list) : list[n].id <= usedRows
        /\ Ordered(list)
    BY <2>2, ListType DEF HostInv
  <2>4. PICK q : q = [H!Idle EXCEPT !.pc = "checked", !.list = list]
    OBVIOUS
  <2>5. /\ q \in PageType /\ q.pc = "checked" /\ q.list = list
        /\ q.loaded = {} /\ q.existing = {} /\ q.keep = {}
    BY <2>3, <2>4, IdlePage DEF PageType, PagePcs
  <2>6. pages' = [pages EXCEPT ![f] = q] /\ disturbed' = ~H!NoneSaving
    BY <1>3, <2>1, <2>4 DEF H!Check
  <2>7. Given(q)
    BY <2>3, <2>5 DEF Given
  <2>8. HostTyped'
    BY <1>2, <2>5, <2>6, <2>7, PageTypedAlone DEF HostInv, HostTyped
  <2>9. Checked(q)
    BY <2>1, <2>2, <2>5, ValidList DEF HostInv, Checked
  <2>10. ~disturbed' => \A g \in Editors \ {f} : ~H!Saving(g)
    BY <2>6 DEF H!NoneSaving
  <2> QED
    BY <1>2, <2>5, <2>6, <2>8, <2>9, <2>10, PageMoves
<1>4. CASE ~host
  BY <1>2, <1>4, PageEnds DEF H!Check, HostInv, HostTyped
<1> QED
  BY <1>3, <1>4

LEMMA SaveHostStep == ASSUME HostInv, NEW f \in Editors, H!SaveHost(f) PROVE HostInv'
<1>1. /\ pages[f] \in PageType /\ Given(pages[f]) /\ pages[f].pc = "checked"
      /\ Checked(pages[f])
  BY DEF HostInv, HostTyped, H!SaveHost, PageFits
<1>2. UNCHANGED <<table, rows, usedRows, disturbed, stale>> /\ host' = TRUE
  BY DEF H!SaveHost
<1>3. PICK q : q = [pages[f] EXCEPT !.pc = "reading"]
  OBVIOUS
<1>4. /\ q \in PageType /\ q.pc = "reading" /\ q.list = pages[f].list
      /\ q.loaded = pages[f].loaded /\ q.existing = pages[f].existing /\ q.keep = pages[f].keep
  BY <1>1, <1>3 DEF PageType, PagePcs
<1>5. pages' = [pages EXCEPT ![f] = q]
  BY <1>3 DEF H!SaveHost
<1>6. Given(q) /\ Checked(q)
  BY <1>1, <1>4 DEF Given, Checked
<1>7. HostTyped'
  BY <1>2, <1>4, <1>5, <1>6, PageTypedAlone DEF HostInv, HostTyped
<1>8. H!Saving(f)
  BY <1>1 DEF H!Saving
<1>9. ~disturbed' => \A g \in Editors \ {f} : ~H!Saving(g)
  BY <1>2, <1>8, OthersIdle
<1> QED
  BY <1>2, <1>4, <1>5, <1>6, <1>7, <1>9, PageMoves

LEMMA ReadStep == ASSUME HostInv, NEW f \in Editors, H!ReadExisting(f) PROVE HostInv'
<1>1. /\ pages[f] \in PageType /\ Given(pages[f]) /\ pages[f].pc = "reading"
      /\ Checked(pages[f])
  BY DEF HostInv, HostTyped, H!ReadExisting, PageFits
<1>2. UNCHANGED <<table, host, rows, usedRows, disturbed>>
  BY DEF H!ReadExisting
<1>3. PICK q : q = [pages[f] EXCEPT !.pc = "syncing", !.existing = H!Existing]
  OBVIOUS
<1>4. /\ q \in PageType /\ q.pc = "syncing" /\ q.list = pages[f].list
      /\ q.loaded = pages[f].loaded /\ q.existing = H!Existing /\ q.keep = {}
  BY <1>1, <1>3 DEF PageType, PagePcs, Checked, H!Existing
<1>5. pages' = [pages EXCEPT ![f] = q]
  BY <1>3 DEF H!ReadExisting
<1>6. Given(q)
  BY <1>1, <1>4 DEF Given, HostInv, HostTyped
<1>7. q.list \in Seq(H!Entries) /\ DOMAIN q.list = 1..Len(q.list)
  BY <1>4 DEF PageType
<1>8. stale' = \E n \in 1..Len(q.list) : q.list[n].id \notin H!Existing \cup {H!New}
  BY <1>4, <1>7 DEF H!ReadExisting
<1>9. HostTyped'
  BY <1>2, <1>4, <1>5, <1>6, <1>8, PageTypedAlone DEF HostInv, HostTyped
<1>10. H!Saving(f)
  BY <1>1 DEF H!Saving
<1>11. ~disturbed' => \A g \in Editors \ {f} : ~H!Saving(g)
  BY <1>2, <1>10, OthersIdle
<1>12. Halfway(q)'
  <2>1. H!Existing' = H!Existing
    BY <1>2 DEF H!Existing, H!Ids
  <2>2. NoneKept({})' /\ BusinessFirst({})'
    BY DEF NoneKept, BusinessFirst
  <2>3. table = "accounts" => NoneKept(q.keep)' /\ OneListed(q.list)
    BY <1>1, <1>4, <2>2 DEF Checked
  <2>4. table = "addresses" /\ q.list # <<>> => q.list[1].type = "business"
    BY <1>1, <1>4 DEF Checked
  <2> QED
    BY <1>2, <1>4, <1>8, <2>1, <2>2, <2>3, <2>4 DEF Halfway, OneListed, H!New
<1> QED
  BY <1>2, <1>4, <1>5, <1>9, <1>11, <1>12, PageMoves

\* The page after an entry has been written under id.
LEMMA NextPage ==
    ASSUME HostTyped, NEW q \in PageType, Given(q), q.pc = "syncing", q.list # <<>>,
           NEW id \in H!Ids, usedRows <= usedRows', usedRows' \in 0..MaxId, id <= usedRows',
           NEW p, p = [q EXCEPT !.list = Tail(q.list), !.keep = q.keep \cup {id}]
    PROVE  /\ p \in PageType /\ p.pc = "syncing" /\ p.existing = q.existing
           /\ p.list = Tail(q.list) /\ p.keep = q.keep \cup {id}
           /\ Given(p)'
<1>1. q.list \in Seq(H!Entries) /\ Ordered(q.list)
  BY DEF PageType, Given
<1>2. /\ Tail(q.list) \in Seq(H!Entries)
      /\ \A n \in 1..Len(Tail(q.list)) : /\ Tail(q.list)[n] = q.list[n + 1]
                                         /\ n + 1 \in 1..Len(q.list)
      /\ Ordered(Tail(q.list))
  BY <1>1, TailType
<1>3. /\ p \in PageType /\ p.pc = "syncing" /\ p.existing = q.existing /\ p.loaded = q.loaded
      /\ p.list = Tail(q.list) /\ p.keep = q.keep \cup {id}
  BY <1>2 DEF PageType
<1>4. usedRows \in Nat /\ usedRows' \in Nat
  BY HostConstants DEF HostTyped
<1>5. \A n \in H!Ids : n <= usedRows => n <= usedRows'
  BY <1>4, HostConstants
<1>6. ASSUME NEW n \in 1..Len(p.list) PROVE p.list[n].id <= usedRows'
  <2>1. q.list[n + 1] \in H!Entries /\ n + 1 \in 1..Len(q.list) /\ p.list[n] = q.list[n + 1]
    BY <1>1, <1>2, <1>3
  <2>2. q.list[n + 1].id \in Nat /\ q.list[n + 1].id <= usedRows
    BY <2>1, HostConstants DEF H!Entries, Given
  <2> QED
    BY <1>4, <2>1, <2>2
<1>7. \A n \in p.loaded \cup p.existing \cup p.keep : n <= usedRows'
  BY <1>3, <1>5 DEF Given, PageType
<1> QED
  BY <1>2, <1>3, <1>6, <1>7 DEF Given

LEMMA SyncStep == ASSUME HostInv, NEW f \in Editors, H!SyncEntry(f) PROVE HostInv'
<1>1. PICK q : q = pages[f]
  OBVIOUS
<1>2. /\ q \in PageType /\ Given(q) /\ q.pc = "syncing" /\ q.list # <<>>
      /\ host /\ ~disturbed => Halfway(q)
  BY <1>1 DEF HostInv, HostTyped, H!SyncEntry, PageFits
<1>3. PICK entry : entry = q.list[1]
  OBVIOUS
<1>4. /\ q.list \in Seq(H!Entries) /\ entry \in H!Entries /\ Head(q.list) = entry
      /\ Len(q.list) \in Nat /\ Len(q.list) >= 1 /\ Ordered(q.list)
  <2>1. q.list \in Seq(H!Entries) /\ Ordered(q.list)
    BY <1>2 DEF PageType, Given
  <2> QED
    BY <1>2, <1>3, <2>1, TailType
<1>5. UNCHANGED <<table, host, disturbed, stale>>
  BY DEF H!SyncEntry
<1>6. H!Saving(f)
  BY <1>1, <1>2 DEF H!Saving
<1>7. ~disturbed' => \A g \in Editors \ {f} : ~H!Saving(g)
  BY <1>5, <1>6, OthersIdle
<1>8. \A n \in 2..Len(q.list) : q.list[n] \in H!Entries
                                 /\ (q.list[n].id # H!New => entry.id # H!New /\ entry.id < q.list[n].id)
  BY <1>3, <1>4 DEF Ordered
<1>9. usedRows \in 0..MaxId /\ usedRows \in Nat /\ rows \in [H!Ids -> H!Types \cup {Gone}]
      /\ entry.type \in H!Types
  BY <1>4, HostConstants DEF HostInv, HostTyped, H!Entries
<1>10. CASE entry.id \in q.existing
  <2>1. PICK id : id = entry.id
    OBVIOUS
  <2>2. id \in H!Ids /\ id <= usedRows /\ id # H!New
    BY <1>2, <1>10, <2>1, HostConstants DEF PageType, Given
  <2>3. PICK p : p = [q EXCEPT !.list = Tail(q.list), !.keep = q.keep \cup {id}]
    OBVIOUS
  <2>4. /\ rows' = [rows EXCEPT ![id] = IF rows[id] = Gone THEN Gone ELSE entry.type]
        /\ pages' = [pages EXCEPT ![f] = p]
        /\ usedRows' = usedRows
    BY <1>1, <1>4, <1>10, <2>1, <2>3 DEF H!SyncEntry
  <2>5. /\ p \in PageType /\ p.pc = "syncing" /\ p.existing = q.existing
        /\ p.list = Tail(q.list) /\ p.keep = q.keep \cup {id}
        /\ Given(p)'
    <3>1. usedRows <= usedRows' /\ usedRows' \in 0..MaxId /\ id <= usedRows'
      BY <1>9, <2>2, <2>4
    <3>2. HostTyped
      BY DEF HostInv
    <3> QED
      BY <1>2, <2>2, <2>3, <3>1, <3>2, NextPage, ZenonT(30)
  <2>6. H!Existing' \subseteq H!Existing
    BY <1>9, <2>2, <2>4 DEF H!Existing, H!Ids
  <2>7. HostTyped'
    <3>1. rows' \in [H!Ids -> H!Types \cup {Gone}]
      BY <1>9, <2>4
    <3>2. (~host' => H!Existing' = {}) /\ \A n \in H!Existing' : n <= usedRows'
      BY <1>5, <2>4, <2>6 DEF HostInv, HostTyped
    <3>3. usedRows <= usedRows' /\ usedRows' \in 0..MaxId
      BY <1>9, <2>4
    <3> QED
      BY <1>5, <2>4, <2>5, <3>1, <3>2, <3>3, PageTyped DEF HostInv, HostTyped
  <2>8. ASSUME host, ~disturbed PROVE Halfway(p)'
    <3>1. Halfway(q)
      BY <1>2, <2>8
    <3>2. rows[id] # Gone
      BY <1>10, <2>1, <3>1 DEF Halfway, H!Existing
    <3>3. rows' = [rows EXCEPT ![id] = q.list[1].type]
      BY <1>3, <2>4, <3>2
    <3>4. id \notin q.keep
      BY <1>3, <1>4, <1>10, <2>1, <3>1 DEF Halfway
    <3>5. \A n \in 2..Len(q.list) : q.list[n].id \in q.existing => q.list[n].id # id
      BY <1>2, <1>8, <2>1, <2>2, HostConstants DEF PageType
    <3>6. \A n \in 2..Len(q.list) : q.list[n].id # H!New => id < q.list[n].id
      BY <1>8, <2>1
    <3>7. table = "addresses" /\ ~stale => \A k \in q.keep : k < id
      BY <1>3, <1>4, <2>1, <2>2, <3>1 DEF Halfway
    <3> QED
      BY <1>2, <1>5, <2>2, <2>5, <3>1, <3>3, <3>4, <3>5, <3>6, <3>7, Written DEF HostInv
  <2> QED
    BY <1>5, <1>7, <2>4, <2>5, <2>7, <2>8, PageMoves
<1>11. CASE entry.id \notin q.existing /\ host
  <2>1. PICK id : id = usedRows + 1
    OBVIOUS
  <2>2. usedRows < MaxId
    BY <1>1, <1>4, <1>11 DEF H!SyncEntry
  <2>3. id \in H!Ids /\ id \in 0..MaxId /\ usedRows <= id /\ id \in Nat /\ ~(id <= usedRows)
    BY <1>9, <2>1, <2>2, HostConstants
  <2>4. PICK p : p = [q EXCEPT !.list = Tail(q.list), !.keep = q.keep \cup {id}]
    OBVIOUS
  <2>5. /\ rows' = [rows EXCEPT ![id] = entry.type]
        /\ pages' = [pages EXCEPT ![f] = p]
        /\ usedRows' = id
    BY <1>1, <1>4, <1>11, <2>1, <2>4 DEF H!SyncEntry
  <2>6. /\ p \in PageType /\ p.pc = "syncing" /\ p.existing = q.existing
        /\ p.list = Tail(q.list) /\ p.keep = q.keep \cup {id}
        /\ Given(p)'
    <3>1. usedRows <= usedRows' /\ usedRows' \in 0..MaxId /\ id <= usedRows'
      BY <2>3, <2>5
    <3>2. HostTyped
      BY DEF HostInv
    <3>3. id \in H!Ids
      BY <2>3
    <3> QED
      BY <1>2, <2>4, <3>1, <3>2, <3>3, NextPage, ZenonT(30)
  <2>7. H!Existing' \subseteq H!Existing \cup {id}
    BY <1>9, <2>3, <2>5 DEF H!Existing, H!Ids
  <2>8. HostTyped'
    <3>1. rows' \in [H!Ids -> H!Types \cup {Gone}]
      BY <1>9, <2>5
    <3>2. \A n \in H!Existing : n <= usedRows'
      BY <1>9, <2>3, <2>5, HostConstants DEF HostInv, HostTyped, H!Existing
    <3>3. \A n \in H!Existing' : n <= usedRows'
      BY <2>3, <2>5, <2>7, <3>2
    <3>4. host'
      BY <1>5, <1>11
    <3> QED
      BY <1>5, <2>3, <2>5, <2>6, <3>1, <3>3, <3>4, PageTyped DEF HostInv, HostTyped
  <2>9. ASSUME ~disturbed PROVE Halfway(p)'
    <3>1. Halfway(q)
      BY <1>2, <1>11, <2>9
    <3>2. rows' = [rows EXCEPT ![id] = q.list[1].type]
      BY <1>3, <2>5
    <3>3. id \notin q.keep
      BY <1>2, <2>3 DEF Given
    <3>4. \A n \in 2..Len(q.list) : q.list[n].id <= usedRows
      BY <1>2, <1>4 DEF Given
    <3>5. \A n \in 2..Len(q.list) : q.list[n].id \in q.existing => q.list[n].id # id
      BY <2>3, <3>4
    <3>6. table = "addresses" /\ ~stale => \A n \in 2..Len(q.list) : q.list[n].id = H!New
      BY <1>3, <1>4, <1>8, <1>11, <3>1 DEF Halfway
    <3>7. \A k \in q.keep : k < id
      BY <1>2, <1>9, <2>1, HostConstants DEF Given, PageType
    <3> QED
      BY <1>2, <1>5, <2>3, <2>6, <3>1, <3>2, <3>3, <3>5, <3>6, <3>7, Written DEF HostInv
  <2> QED
    BY <1>5, <1>7, <2>5, <2>6, <2>8, <2>9, PageMoves
<1>12. CASE entry.id \notin q.existing /\ ~host
  <2>1. pages' = [pages EXCEPT ![f] = H!Idle] /\ UNCHANGED <<rows, usedRows>>
    BY <1>1, <1>4, <1>12 DEF H!SyncEntry
  <2> QED
    BY <1>5, <1>12, <2>1, PageEnds DEF HostInv, HostTyped
<1> QED
  BY <1>10, <1>11, <1>12

LEMMA DeleteOthersStep == ASSUME HostInv, NEW f \in Editors, H!DeleteOthers(f) PROVE HostInv'
<1>1. PICK q : q = pages[f]
  OBVIOUS
<1>2. /\ q \in PageType /\ Given(q) /\ q.pc = "syncing" /\ q.list = <<>>
      /\ host /\ ~disturbed => Halfway(q)
  BY <1>1 DEF HostInv, HostTyped, H!DeleteOthers, PageFits
<1>3. /\ rows' = [n \in H!Ids |-> IF n \in q.keep THEN rows[n] ELSE Gone]
      /\ pages' = [pages EXCEPT ![f] = H!Idle]
      /\ UNCHANGED <<table, host, usedRows, disturbed, stale>>
  BY <1>1 DEF H!DeleteOthers
<1>4. H!Existing' = H!Existing \cap q.keep
  BY <1>2, <1>3 DEF H!Existing, H!Ids, PageType
<1>5. HostTyped'
  <2>1. rows' \in [H!Ids -> H!Types \cup {Gone}]
    BY <1>3 DEF HostInv, HostTyped
  <2>2. Given(H!Idle)' /\ H!Idle \in PageType
    BY IdlePage DEF Given, Ordered
  <2>3. usedRows' \in 0..MaxId /\ usedRows <= usedRows'
    BY <1>3, HostConstants DEF HostInv, HostTyped
  <2>4. (~host' => H!Existing' = {}) /\ \A n \in H!Existing' : n <= usedRows'
    BY <1>3, <1>4 DEF HostInv, HostTyped
  <2> QED
    BY <1>3, <2>1, <2>2, <2>3, <2>4, PageTyped DEF HostInv, HostTyped
<1>6. H!Saving(f)
  BY <1>1, <1>2 DEF H!Saving
<1>7. ~disturbed' => \A g \in Editors \ {f} : ~H!Saving(g)
  BY <1>3, <1>6, OthersIdle
<1>8. ASSUME host, ~disturbed PROVE Fits'
  <2>1. Halfway(q)
    BY <1>2, <1>8
  <2>2. H!Existing' = q.keep
    BY <1>4, <2>1 DEF Halfway
  <2>3. \A n \in q.keep : rows'[n] = rows[n]
    BY <1>2, <1>3 DEF PageType
  <2>4. table = "accounts" => OneKept(q.keep)
    BY <1>2, <2>1 DEF Halfway, OneListed
  <2>5. table = "addresses" /\ ~stale => BusinessFirst(q.keep)
    BY <2>1 DEF Halfway
  <2>6. table = "accounts" => OneKept(q.keep)'
    BY <1>3, <2>3, <2>4 DEF OneKept
  <2>7. table = "addresses" /\ ~stale => BusinessFirst(q.keep)'
    BY <1>3, <2>3, <2>5 DEF BusinessFirst
  <2>8. OneKept(H!Existing)' <=> OneKept(q.keep)'
    BY <1>3, <2>2 DEF OneKept
  <2>9. BusinessFirst(H!Existing)' <=> BusinessFirst(q.keep)'
    BY <1>3, <2>2 DEF BusinessFirst
  <2> QED
    BY <1>3, <2>6, <2>7, <2>8, <2>9 DEF Fits
<1> QED
  BY <1>3, <1>5, <1>7, <1>8, IdlePage, PageMoves

LEMMA DeleteHost == ASSUME HostInv, H!Delete PROVE HostInv'
<1>1. /\ host' = FALSE /\ rows' = [n \in H!Ids |-> Gone]
      /\ UNCHANGED <<table, usedRows, pages, disturbed, stale>>
  BY DEF H!Delete
<1>2. H!Existing' = {}
  BY <1>1 DEF H!Existing, H!Ids
<1>3. H!Types' = H!Types
  BY <1>1 DEF H!Types
<1>4. rows' \in [H!Ids -> H!Types \cup {Gone}]
  BY <1>1
<1>5. (rows \in [H!Ids -> H!Types \cup {Gone}])'
  BY <1>3, <1>4 DEF H!Ids
<1>6. (\A f \in Editors : Given(pages[f]))'
  BY <1>1 DEF HostInv, HostTyped, Given
<1>7. (pages \in [Editors -> PageType])'
  BY <1>1, <1>3 DEF HostInv, HostTyped, PageType, PagePcs, H!Entries, H!Ids, H!New
<1>8. HostTyped'
  BY <1>1, <1>2, <1>5, <1>6, <1>7 DEF HostInv, HostTyped, H!Tables
<1>9. OneSaves'
  BY <1>1 DEF HostInv, OneSaves, H!Saving
<1>10. \A f \in Editors : PageFits(f)'
  BY <1>1 DEF HostInv, PageFits, Checked
<1> QED
  BY <1>1, <1>8, <1>9, <1>10 DEF HostInv

LEMMA AbandonHost == ASSUME HostInv, NEW f \in Editors, H!Abandon(f) PROVE HostInv'
  BY PageEnds DEF H!Abandon, HostInv, HostTyped

LEMMA SameHost == HostInv /\ UNCHANGED hostVars => HostInv'
<1> SUFFICES ASSUME HostInv, UNCHANGED hostVars PROVE HostInv'
  OBVIOUS
<1>1. UNCHANGED <<table, host, rows, usedRows, pages, disturbed, stale>>
  BY DEF hostVars
<1>2. H!Existing' = H!Existing /\ H!Types' = H!Types
  BY <1>1 DEF H!Existing, H!Types, H!Ids
<1>3. PageType' = PageType
  BY <1>2 DEF PageType, PagePcs, H!Entries, H!Ids, H!New
<1>4. HostTyped'
  BY <1>1, <1>2, <1>3 DEF HostInv, HostTyped, Given, H!Tables, H!Ids
<1>5. OneSaves' /\ (H!NoneSaving' <=> H!NoneSaving)
  BY <1>1 DEF HostInv, OneSaves, H!NoneSaving, H!Saving
<1>6. \A f \in Editors : PageFits(f)'
  BY <1>1, <1>2 DEF HostInv, PageFits, Checked, Halfway, OneKept, NoneKept, BusinessFirst, H!New
<1>7. Fits => Fits'
  BY <1>1, <1>2 DEF Fits, OneKept, BusinessFirst
<1> QED
  BY <1>1, <1>4, <1>5, <1>6, <1>7 DEF HostInv

LEMMA StepHost == HostInv /\ [H!Next]_hostVars => HostInv'
<1> SUFFICES ASSUME HostInv, [H!Next]_hostVars PROVE HostInv'
  OBVIOUS
<1>1. ASSUME NEW f \in Editors,
             H!Load(f) \/ H!Create(f) \/ H!Check(f) \/ H!SaveHost(f) \/ H!ReadExisting(f)
             \/ H!SyncEntry(f) \/ H!DeleteOthers(f) \/ H!Abandon(f)
      PROVE  HostInv'
  BY <1>1, LoadHost, CreateHost, CheckHost, SaveHostStep, ReadStep, SyncStep, DeleteOthersStep,
     AbandonHost
<1> QED
  BY <1>1, DeleteHost, SameHost DEF H!Next

LEMMA InitHost == H!Init => HostInv
<1> SUFFICES ASSUME H!Init PROVE HostInv
  OBVIOUS
<1>1. pages = [f \in Editors |-> H!Idle] /\ host = FALSE /\ rows = [n \in H!Ids |-> Gone]
      /\ table \in H!Tables /\ usedRows = 0 /\ disturbed = FALSE /\ stale = FALSE
  BY DEF H!Init
<1>2. \A f \in Editors : pages[f] = H!Idle
  BY <1>1
<1>3. pages \in [Editors -> PageType] /\ \A f \in Editors : Given(pages[f])
  BY <1>1, <1>2, IdlePage
<1>4. H!Existing = {}
  BY <1>1 DEF H!Existing
<1>5. HostTyped
  <2>1. rows \in [H!Ids -> H!Types \cup {Gone}]
    BY <1>1
  <2>2. 0 \in 0..MaxId
    BY HostConstants
  <2> QED
    BY <1>1, <1>3, <1>4, <2>1, <2>2 DEF HostTyped
<1>6. OneSaves /\ \A f \in Editors : PageFits(f)
  BY <1>2, IdlePage DEF OneSaves, PageFits, H!Saving
<1> QED
  BY <1>1, <1>5, <1>6 DEF HostInv

LEMMA HostInvImpliesTypeOK == HostInv => H!TypeOK
<1> SUFFICES ASSUME HostInv PROVE H!TypeOK
  OBVIOUS
<1>1. ASSUME NEW f \in Editors
      PROVE  /\ pages[f].pc \in {"idle", "loaded", "checked", "reading", "syncing"}
             /\ pages[f].loaded \cup pages[f].existing \cup pages[f].keep \subseteq H!Ids
             /\ \A n \in DOMAIN pages[f].list : pages[f].list[n] \in H!Entries
  <2>1. pages[f] \in PageType
    BY DEF HostInv, HostTyped
  <2> QED
    BY <2>1 DEF PageType, PagePcs
<1> QED
  BY <1>1 DEF HostInv, HostTyped, H!TypeOK

LEMMA HostInvImpliesFits == HostInv => HostFits
<1> SUFFICES ASSUME HostInv, host, H!NoneSaving, ~disturbed
             PROVE  IF table = "accounts"
                    THEN H!Cardinality({n \in H!Existing : rows[n] = "adm"}) = 1
                    ELSE H!Existing # {} /\ ~stale => rows[H!Min(H!Existing)] = "business"
  BY DEF HostFits, H!HostFits, H!Settled, H!FirstAddress
<1>1. CASE table = "accounts"
  <2>1. PICK a \in H!Existing : \A b \in H!Existing : rows[b] = "adm" <=> a = b
    BY <1>1 DEF HostInv, Fits, OneKept
  <2>2. {n \in H!Existing : rows[n] = "adm"} = {a}
    BY <2>1
  <2> QED
    BY <1>1, <2>2, SameCardinality, FS_Singleton
<1>2. CASE table # "accounts"
  <2>1. table = "addresses"
    BY <1>2 DEF HostInv, HostTyped, H!Tables
  <2>2. ASSUME H!Existing # {}, ~stale PROVE rows[H!Min(H!Existing)] = "business"
    <3>1. PICK k \in H!Existing : rows[k] = "business" /\ \A m \in H!Existing : k <= m
      BY <2>1, <2>2 DEF HostInv, Fits, BusinessFirst
    <3>2. H!Existing \subseteq Nat
      BY HostConstants DEF H!Existing
    <3>3. \A m \in H!Existing : (\A y \in H!Existing : m <= y) => m = k
      BY <3>1, <3>2
    <3>4. H!Min(H!Existing) = k
      BY <3>1, <3>3 DEF H!Min
    <3> QED
      BY <3>1, <3>4
  <2> QED
    BY <1>2, <2>2
<1> QED
  BY <1>1, <1>2

--------------------------------------------------------------------------------
(* Parameters: the template, item by item *)

Size == Len(items)
AllValues == {"unset", "on", "off", "derived", "other", "profile", "user", "master", "platform"}
             \cup {ItemValue[n] : n \in 1..MaxItems}

LEMMA ParamConstants ==
    /\ MaxItems \in Nat /\ MaxProbes \in Nat
    /\ D!Unset = "unset"
    /\ \A n \in 1..MaxItems : ItemValue[n] \in AllValues /\ ItemValue[n] # "unset"
  BY CatalogAssumption DEF D!Unset, AllValues

LEMMA Chosen ==
    ASSUME items \in D!Templates
    PROVE  /\ Size \in 0..MaxItems /\ Size \in Nat
           /\ DOMAIN items = 1..Size
           /\ \A n \in 1..Size : items[n] \in D!Items /\ n \in 1..MaxItems
<1>1. PICK k \in 0..MaxItems : items \in [1..k -> D!Items]
  BY DEF D!Templates
<1>2. k \in Nat /\ MaxItems \in Nat
  BY ParamConstants
<1>3. Size = k /\ DOMAIN items = 1..k
  BY <1>1, <1>2 DEF Size
<1> QED
  BY <1>1, <1>2, <1>3

\* Induction over the natural numbers, for a set.
LEMMA Induction ==
    ASSUME NEW S \in SUBSET Nat, 0 \in S, \A n \in S : n + 1 \in S
    PROVE  S = Nat
<1> DEFINE Rest == Nat \ S
           x == Min(Rest)
<1>1. SUFFICES ASSUME Rest # {} PROVE FALSE
  OBVIOUS
<1>2. x \in Rest /\ \A y \in Rest : x <= y
  <2>1. Rest \in SUBSET Nat
    OBVIOUS
  <2> HIDE DEF Rest
  <2> QED
    BY <1>1, <2>1, FirstId
<1> HIDE DEF x
<1>3. x \in Nat /\ x # 0
  BY <1>2
<1>4. x - 1 \in Nat /\ ~(x <= x - 1) /\ (x - 1) + 1 = x
  BY <1>3
<1>5. x - 1 \in Rest
  BY <1>2, <1>4
<1> QED
  BY <1>2, <1>4, <1>5

\* A function can be built step by step.
Iterates(S, first, k, step) ==
    \E f \in [0..k -> S] : f[0] = first /\ \A n \in 1..k : f[n] = step[n][f[n - 1]]

LEMMA Iterated ==
    ASSUME NEW S, NEW first \in S, NEW k \in Nat, NEW step \in [1..k -> [S -> S]]
    PROVE  Iterates(S, first, k, step)
<1> DEFINE Goal(m) == \E f \in [0..m -> S] : f[0] = first /\ \A n \in 1..m : f[n] = step[n][f[n - 1]]
           Good == {m \in Nat : m <= k => Goal(m)}
<1>1. 0 \in Good
  <2> DEFINE f == [n \in 0..0 |-> first]
  <2>1. f \in [0..0 -> S] /\ f[0] = first /\ \A n \in 1..0 : f[n] = step[n][f[n - 1]]
    OBVIOUS
  <2> HIDE DEF f
  <2>2. Goal(0)
    BY <2>1
  <2> QED
    BY <2>2
<1>2. ASSUME NEW m \in Good PROVE m + 1 \in Good
  <2>1. SUFFICES ASSUME m + 1 <= k PROVE Goal(m + 1)
    OBVIOUS
  <2>2. m \in Nat /\ m <= k /\ m + 1 \in 1..k
    BY <2>1
  <2>3. PICK f \in [0..m -> S] : f[0] = first /\ \A n \in 1..m : f[n] = step[n][f[n - 1]]
    BY <2>2
  <2> DEFINE g == [n \in 0..(m + 1) |-> IF n = m + 1 THEN step[m + 1][f[m]] ELSE f[n]]
  <2>4. step[m + 1][f[m]] \in S
    BY <2>2, <2>3
  <2>5. g \in [0..(m + 1) -> S]
    BY <2>2, <2>3, <2>4
  <2>6. g[0] = first
    BY <2>2, <2>3
  <2>7. ASSUME NEW n \in 1..(m + 1) PROVE g[n] = step[n][g[n - 1]]
    BY <2>2, <2>3
  <2> HIDE DEF g
  <2> QED
    BY <2>5, <2>6, <2>7
<1> HIDE DEF Goal
<1>3. Good = Nat
  BY <1>1, <1>2, Induction
<1>4. k <= k /\ k \in Good
  BY <1>3
<1>5. Goal(k)
  BY <1>4
<1> QED
  BY <1>5 DEF Goal, Iterates

--------------------------------------------------------------------------------
(* Parameters: merging *)

ConfigTyped(c) ==
    /\ c \in [D!ConfigKeys -> AllValues]
    /\ \A k \in D!ConfigKeys : c[k] \in D!Values(k) \cup {"unset"}

ConfigType == {c \in [D!ConfigKeys -> AllValues] : ConfigTyped(c)}

LEMMA MergeType ==
    ASSUME items \in D!Templates, NEW c \in ConfigType, NEW n \in 1..Size
    PROVE  D!Merge(c, n) \in ConfigType
<1>1. n \in 1..MaxItems /\ items[n] \in D!Items
  BY Chosen
<1>2. ItemValue[n] \in AllValues
  BY <1>1, ParamConstants
<1>3. ASSUME NEW k \in {"max_connections", "binlog_format"}
      PROVE  [c EXCEPT ![k] = ItemValue[n]] \in ConfigType
  <2>1. k \in D!ConfigKeys /\ k \notin D!Switches /\ k # "server_id"
    BY DEF D!ConfigKeys, D!Switches
  <2>2. ItemValue[n] \in D!Values(k)
    BY <1>1, <2>1 DEF D!Values
  <2> QED
    BY <1>2, <2>1, <2>2 DEF ConfigType, ConfigTyped
<1>4. D!ConfigKeyOf(items[n]) \in {"max_connections", "binlog_format", "unset"}
  BY DEF D!ConfigKeyOf, D!Unset
<1> QED
  BY <1>3, <1>4, ParamConstants DEF D!Merge

\* The merging of a template is defined, and goes item by item.
LEMMA MergedSteps ==
    ASSUME items \in D!Templates, NEW c \in ConfigType
    PROVE  /\ D!Merged(c) \in [0..Size -> ConfigType]
           /\ D!Merged(c)[0] = c
           /\ \A n \in 1..Size : D!Merged(c)[n] = D!Merge(D!Merged(c)[n - 1], n)
<1> DEFINE Steps(f) == f = [n \in 0..Size |-> IF n = 0 THEN c ELSE D!Merge(f[n - 1], n)]
           step == [n \in 1..Size |-> [b \in ConfigType |-> D!Merge(b, n)]]
<1>1. Size \in Nat
  BY Chosen
<1>2. step \in [1..Size -> [ConfigType -> ConfigType]]
  BY MergeType
<1>3. PICK f \in [0..Size -> ConfigType] : f[0] = c /\ \A n \in 1..Size : f[n] = step[n][f[n - 1]]
  <2> HIDE DEF step
  <2>1. Iterates(ConfigType, c, Size, step)
    BY <1>1, <1>2, Iterated
  <2> QED
    BY <2>1 DEF Iterates
<1>4. ASSUME NEW n \in 1..Size PROVE f[n] = D!Merge(f[n - 1], n)
  <2>1. n - 1 \in 0..Size
    BY <1>1
  <2>2. f[n - 1] \in ConfigType
    BY <2>1
  <2> QED
    BY <1>3, <2>2
<1>5. Steps(f)
  BY <1>1, <1>3, <1>4
<1>6. D!Merged(c) = CHOOSE g : Steps(g)
  BY DEF D!Merged, Size
<1> DEFINE m == D!Merged(c)
<1>7. Steps(m)
  <2> HIDE DEF Steps
  <2> QED
    BY <1>5, <1>6
<1>8. m[0] = c /\ \A n \in 1..Size : m[n] = D!Merge(m[n - 1], n)
  <2> HIDE DEF m
  <2>1. \A n \in 0..Size : m[n] = IF n = 0 THEN c ELSE D!Merge(m[n - 1], n)
    BY <1>7
  <2> QED
    BY <1>1, <2>1
<1>9. \A n \in 0..Size : m[n] \in ConfigType
  <2> DEFINE Good == {n \in Nat : n <= Size => m[n] \in ConfigType}
  <2> HIDE DEF m
  <2>1. 0 \in Good
    BY <1>8
  <2>2. ASSUME NEW n \in Good PROVE n + 1 \in Good
    <3>1. SUFFICES ASSUME n + 1 <= Size PROVE m[n + 1] \in ConfigType
      OBVIOUS
    <3>2. n \in Nat /\ n <= Size /\ n + 1 \in 1..Size /\ (n + 1) - 1 = n
      BY <1>1, <3>1
    <3>3. m[n] \in ConfigType /\ m[n + 1] = D!Merge(m[n], n + 1)
      BY <1>8, <3>2
    <3> QED
      BY <3>2, <3>3, MergeType
  <2>3. Good = Nat
    <3> HIDE DEF Good
    <3>1. Good \subseteq Nat
      BY DEF Good
    <3> QED
      BY <2>1, <2>2, <3>1, Induction
  <2> QED
    BY <1>1, <2>3
<1>10. m \in [0..Size -> ConfigType]
  <2> HIDE DEF m
  <2> QED
    BY <1>7, <1>9
<1> QED
  BY <1>8, <1>10

\* What merging the first n items has made of a key of config: the item that
\* spells its parameter as config does, if there is one, has set it.
Taken(c, acc, n, k, key) ==
    /\ (\A m \in 1..n : items[m] # D!Underscored(key)) => acc[k] = c[k]
    /\ \A m \in 1..n : items[m] = D!Underscored(key) => acc[k] = ItemValue[m]

Combined(c, acc, n) ==
    /\ \A k \in D!ConfigKeys \ {"max_connections", "binlog_format"} : acc[k] = c[k]
    /\ Taken(c, acc, n, "max_connections", "max-connections")
    /\ Taken(c, acc, n, "binlog_format", "binlog-format")

\* An item is merged: it sets its own key and no other.
LEMMA TakenNext ==
    ASSUME items \in D!Templates, NEW c, NEW acc, NEW new,
           NEW n \in Nat, n + 1 \in 1..Size, NEW k, NEW key, Taken(c, acc, n, k, key),
           items[n + 1] = D!Underscored(key) => new[k] = ItemValue[n + 1],
           items[n + 1] # D!Underscored(key) => new[k] = acc[k]
    PROVE  Taken(c, new, n + 1, k, key)
<1>1. 1..(n + 1) = 1..n \cup {n + 1} /\ \A m \in 1..n : m # n + 1
  OBVIOUS
<1>2. \A m \in 1..n : items[m] # items[n + 1]
  <2>1. DOMAIN items = 1..Size /\ Size \in Nat
    BY Chosen
  <2>2. \A m \in 1..n : m \in DOMAIN items
    BY <2>1
  <2> QED
    BY <1>1, <2>1, <2>2 DEF D!Templates
<1>3. CASE items[n + 1] = D!Underscored(key)
  <2>1. \A m \in 1..(n + 1) : items[m] = D!Underscored(key) => m = n + 1
    BY <1>1, <1>2, <1>3
  <2> QED
    BY <1>1, <1>3, <2>1 DEF Taken
<1>4. CASE items[n + 1] # D!Underscored(key)
  BY <1>1, <1>4 DEF Taken
<1> QED
  BY <1>3, <1>4

LEMMA MergeCombines ==
    ASSUME items \in D!Templates, NEW c \in ConfigType, NEW acc \in ConfigType,
           NEW n \in Nat, n + 1 \in 1..Size, Combined(c, acc, n)
    PROVE  Combined(c, D!Merge(acc, n + 1), n + 1)
<1> DEFINE item == items[n + 1]
           new == D!Merge(acc, n + 1)
           value == ItemValue[n + 1]
           k == D!ConfigKeyOf(item)
<1>1. acc \in [D!ConfigKeys -> AllValues]
  BY DEF ConfigType
<1>2. {"max_connections", "binlog_format"} \subseteq D!ConfigKeys
  BY DEF D!ConfigKeys
<1>3. D!Underscored("max-connections") # D!Underscored("binlog-format")
  BY DEF D!Underscored
<1>4. new = IF k = "unset" THEN acc ELSE [acc EXCEPT ![k] = value]
  BY DEF D!Merge, D!Unset
<1>5. /\ item = D!Underscored("max-connections") => k = "max_connections"
      /\ item = D!Underscored("binlog-format") => k = "binlog_format"
      /\ item \notin {D!Underscored("max-connections"), D!Underscored("binlog-format")} => k = "unset"
  BY <1>3 DEF D!ConfigKeyOf, D!Unset
<1> HIDE DEF new, k, item, value
<1>6. /\ item = D!Underscored("max-connections") => new["max_connections"] = value
      /\ item # D!Underscored("max-connections") => new["max_connections"] = acc["max_connections"]
      /\ item = D!Underscored("binlog-format") => new["binlog_format"] = value
      /\ item # D!Underscored("binlog-format") => new["binlog_format"] = acc["binlog_format"]
  BY <1>1, <1>2, <1>3, <1>4, <1>5
<1>7. \A j \in D!ConfigKeys \ {"max_connections", "binlog_format"} : new[j] = acc[j]
  BY <1>1, <1>4, <1>5
<1>8. Taken(c, new, n + 1, "max_connections", "max-connections")
  BY <1>6, TakenNext DEF Combined, item, value
<1>9. Taken(c, new, n + 1, "binlog_format", "binlog-format")
  BY <1>6, TakenNext DEF Combined, item, value
<1>10. Combined(c, new, n + 1)
  BY <1>7, <1>8, <1>9 DEF Combined
<1> QED
  BY <1>10 DEF new

LEMMA WithTemplateCombines ==
    ASSUME items \in D!Templates, NEW c \in ConfigType
    PROVE  D!WithTemplate(c) \in ConfigType /\ Combined(c, D!WithTemplate(c), Size)
<1> DEFINE m == D!Merged(c)
           Good == {n \in Nat : n <= Size => Combined(c, m[n], n)}
<1>1. Size \in Nat
  BY Chosen
<1>2. /\ m \in [0..Size -> ConfigType]
      /\ m[0] = c
      /\ \A n \in 1..Size : m[n] = D!Merge(m[n - 1], n)
  BY MergedSteps
<1> HIDE DEF m
<1>3. 0 \in Good
  BY <1>2 DEF Combined, Taken
<1>4. ASSUME NEW n \in Good PROVE n + 1 \in Good
  <2>1. SUFFICES ASSUME n + 1 <= Size PROVE Combined(c, m[n + 1], n + 1)
    OBVIOUS
  <2>2. n \in Nat /\ n \in 0..Size /\ n + 1 \in 1..Size /\ (n + 1) - 1 = n
    BY <1>1, <2>1
  <2>3. m[n] \in ConfigType /\ m[n + 1] = D!Merge(m[n], n + 1) /\ Combined(c, m[n], n)
    BY <1>2, <2>2
  <2> QED
    BY <2>2, <2>3, MergeCombines
<1>5. Good = Nat
  <2>1. Good \subseteq Nat
    OBVIOUS
  <2> HIDE DEF Good
  <2> QED
    BY <1>3, <1>4, <2>1, Induction
<1>6. Combined(c, m[Size], Size) /\ m[Size] \in ConfigType
  BY <1>1, <1>2, <1>5
<1> QED
  BY <1>6 DEF m, D!WithTemplate, Size

--------------------------------------------------------------------------------
(* Parameters: the lines of a section *)

LineType == [key : D!CnfKeys, value : AllValues]
LineSet(L) == {L[n] : n \in DOMAIN L}
Section(L) == L \in Seq(LineType) /\ \A m, n \in DOMAIN L : L[m].key = L[n].key => m = n
Entry(key, value) == [key |-> key, value |-> value]

LEMMA NoLine == Section(<<>>) /\ LineSet(<<>>) = {}
<1>1. <<>> \in Seq(LineType) /\ DOMAIN <<>> = {}
  BY EmptySeq
<1> QED
  BY <1>1 DEF Section, LineSet

LEMMA OneLine ==
    ASSUME NEW key \in D!CnfKeys, NEW value \in AllValues
    PROVE  Section(D!Line(key, value)) /\ LineSet(D!Line(key, value)) = {Entry(key, value)}
<1>1. D!Line(key, value) = <<Entry(key, value)>>
  BY DEF D!Line, Entry
<1>2. Entry(key, value) \in LineType
  BY DEF Entry, LineType
<1> DEFINE L == <<Entry(key, value)>>
<1>3. L \in Seq(LineType) /\ Len(L) = 1 /\ L[1] = Entry(key, value) /\ DOMAIN L = {1}
  BY <1>2
<1> HIDE DEF L
<1>4. Section(L) /\ LineSet(L) = {Entry(key, value)}
  BY <1>3 DEF Section, LineSet
<1> QED
  BY <1>1, <1>4 DEF L

LEMMA Joined ==
    ASSUME NEW L, NEW M, Section(L), Section(M),
           \A l \in LineSet(L), m \in LineSet(M) : l.key # m.key
    PROVE  Section(L \o M) /\ LineSet(L \o M) = LineSet(L) \cup LineSet(M)
<1> DEFINE J == L \o M
<1>1. L \in Seq(LineType) /\ M \in Seq(LineType)
  BY DEF Section
<1>2. /\ J \in Seq(LineType)
      /\ Len(J) = Len(L) + Len(M)
      /\ \A n \in 1..Len(J) : J[n] = IF n <= Len(L) THEN L[n] ELSE M[n - Len(L)]
  BY <1>1, ConcatProperties
<1>3. /\ DOMAIN L = 1..Len(L) /\ DOMAIN M = 1..Len(M) /\ DOMAIN J = 1..Len(J)
      /\ Len(L) \in Nat /\ Len(M) \in Nat
  BY <1>1, <1>2
<1> HIDE DEF J
<1>4. ASSUME NEW n \in DOMAIN J
      PROVE  \/ n \in DOMAIN L /\ J[n] = L[n]
             \/ n - Len(L) \in DOMAIN M /\ n > Len(L) /\ J[n] = M[n - Len(L)]
  BY <1>2, <1>3
<1>5. \A n \in DOMAIN L : n \in DOMAIN J /\ J[n] = L[n]
  BY <1>2, <1>3
<1>6. \A n \in DOMAIN M : n + Len(L) \in DOMAIN J /\ J[n + Len(L)] = M[n]
  <2> SUFFICES ASSUME NEW n \in DOMAIN M PROVE n + Len(L) \in DOMAIN J /\ J[n + Len(L)] = M[n]
    OBVIOUS
  <2>1. n + Len(L) \in 1..Len(J) /\ ~(n + Len(L) <= Len(L)) /\ (n + Len(L)) - Len(L) = n
    BY <1>2, <1>3
  <2> QED
    BY <1>2, <1>3, <2>1
<1>7. LineSet(J) = LineSet(L) \cup LineSet(M)
  <2>1. LineSet(J) \subseteq LineSet(L) \cup LineSet(M)
    BY <1>4 DEF LineSet
  <2>2. LineSet(L) \subseteq LineSet(J)
    BY <1>5 DEF LineSet
  <2>3. LineSet(M) \subseteq LineSet(J)
    BY <1>6 DEF LineSet
  <2> QED
    BY <2>1, <2>2, <2>3
<1>8. ASSUME NEW m \in DOMAIN J, NEW n \in DOMAIN J, J[m].key = J[n].key PROVE m = n
  <2>1. \A x \in DOMAIN L, y \in DOMAIN M : L[x].key # M[y].key
    BY DEF LineSet
  <2>2. CASE m \in DOMAIN L /\ J[m] = L[m]
    <3>1. n \in DOMAIN L /\ J[n] = L[n]
      BY <1>4, <1>8, <2>1, <2>2
    <3> QED
      BY <1>8, <2>2, <3>1 DEF Section
  <2>3. CASE m - Len(L) \in DOMAIN M /\ m > Len(L) /\ J[m] = M[m - Len(L)]
    <3>1. n - Len(L) \in DOMAIN M /\ n > Len(L) /\ J[n] = M[n - Len(L)]
      BY <1>4, <1>8, <2>1, <2>3
    <3>2. m - Len(L) = n - Len(L)
      BY <1>8, <2>3, <3>1 DEF Section
    <3> QED
      BY <1>3, <3>2
  <2> QED
    BY <1>4, <2>2, <2>3
<1>9. Section(J)
  BY <1>2, <1>8 DEF Section
<1> QED
  BY <1>7, <1>9 DEF J

LEMMA KeysOf ==
    ASSUME NEW L
    PROVE  D!Keys(L) = {l.key : l \in LineSet(L)}
  BY DEF D!Keys, LineSet

\* A value given, or the default, is a value.
LEMMA GivenValue ==
    ASSUME NEW value \in AllValues, NEW default \in AllValues
    PROVE  D!Given(value, default) \in AllValues
  BY DEF D!Given

FixedSet(c) ==
    {Entry("max-connections", D!Given(c["max_connections"], "platform"))}
    \cup (IF replica
          THEN {Entry("lower-case-table-names", D!Given(c["lower_case_table_names"], "platform"))}
          ELSE {})
    \cup (IF c["enable_binlog"] = "on"
          THEN {Entry("server-id", c["server_id"]),
                Entry("binlog-format", D!Given(c["binlog_format"], "platform"))}
               \cup (IF c["enable_gtid"] = "on" THEN {Entry("gtid-mode", "platform")} ELSE {})
          ELSE {})

LEMMA FixedSection ==
    ASSUME NEW c \in ConfigType
    PROVE  Section(D!FixedLines(c)) /\ LineSet(D!FixedLines(c)) = FixedSet(c)
<1> DEFINE max == D!Given(c["max_connections"], "platform")
           lower == D!Given(c["lower_case_table_names"], "platform")
           format == D!Given(c["binlog_format"], "platform")
           A == D!Line("max-connections", max)
           B == IF replica THEN D!Line("lower-case-table-names", lower) ELSE <<>>
           C == D!Line("server-id", c["server_id"])
           E == D!Line("binlog-format", format)
           F == IF c["enable_gtid"] = "on" THEN D!Line("gtid-mode", "platform") ELSE <<>>
           G == IF c["enable_binlog"] = "on" THEN (C \o E) \o F ELSE <<>>
<1>1. c \in [D!ConfigKeys -> AllValues] /\ "platform" \in AllValues
  BY DEF ConfigType, AllValues
<1>2. max \in AllValues /\ lower \in AllValues /\ format \in AllValues /\ c["server_id"] \in AllValues
  BY <1>1, GivenValue DEF D!ConfigKeys
<1>3. {"max-connections", "lower-case-table-names", "server-id", "binlog-format", "gtid-mode"}
        \subseteq D!CnfKeys
  BY DEF D!CnfKeys
<1>4. \A key, value : Entry(key, value).key = key
  BY DEF Entry
<1> HIDE DEF max, lower, format
<1>5. Section(A) /\ LineSet(A) = {Entry("max-connections", max)}
  BY <1>2, <1>3, OneLine
<1>6. /\ Section(B)
      /\ LineSet(B) = IF replica THEN {Entry("lower-case-table-names", lower)} ELSE {}
  BY <1>2, <1>3, OneLine, NoLine
<1>7. Section(C) /\ LineSet(C) = {Entry("server-id", c["server_id"])}
  BY <1>2, <1>3, OneLine
<1>8. Section(E) /\ LineSet(E) = {Entry("binlog-format", format)}
  BY <1>2, <1>3, OneLine
<1>9. /\ Section(F)
      /\ LineSet(F) = IF c["enable_gtid"] = "on" THEN {Entry("gtid-mode", "platform")} ELSE {}
  BY <1>1, <1>3, OneLine, NoLine
<1> HIDE DEF A, B, C, E, F
<1>10. Section(C \o E) /\ LineSet(C \o E) = LineSet(C) \cup LineSet(E)
  BY <1>4, <1>7, <1>8, Joined
<1>11. Section((C \o E) \o F) /\ LineSet((C \o E) \o F) = LineSet(C) \cup LineSet(E) \cup LineSet(F)
  <2>1. \A l \in LineSet(C \o E), m \in LineSet(F) : l.key # m.key
    BY <1>4, <1>7, <1>8, <1>9, <1>10
  <2> QED
    BY <1>9, <1>10, <2>1, Joined
<1>12. /\ Section(G)
       /\ LineSet(G) = IF c["enable_binlog"] = "on" THEN LineSet(C) \cup LineSet(E) \cup LineSet(F) ELSE {}
  BY <1>11, NoLine
<1> HIDE DEF G
<1>13. Section(A \o B) /\ LineSet(A \o B) = LineSet(A) \cup LineSet(B)
  BY <1>4, <1>5, <1>6, Joined
<1>14. Section((A \o B) \o G) /\ LineSet((A \o B) \o G) = LineSet(A) \cup LineSet(B) \cup LineSet(G)
  <2>1. \A l \in LineSet(A \o B), m \in LineSet(G) : l.key # m.key
    BY <1>4, <1>5, <1>6, <1>7, <1>8, <1>9, <1>12, <1>13
  <2> QED
    BY <1>12, <1>13, <2>1, Joined
<1>15. D!FixedLines(c) = (A \o B) \o G
  BY DEF D!FixedLines, A, B, C, E, F, G, max, lower, format
<1>16. LineSet(A) \cup LineSet(B) \cup LineSet(G) = FixedSet(c)
  BY <1>5, <1>6, <1>7, <1>8, <1>9, <1>12 DEF FixedSet, max, lower, format
<1> QED
  BY <1>14, <1>15, <1>16

Sections == {L \in Seq(LineType) : Section(L)}
First(m, n) == \A l \in 1..n : items[l].key = items[m].key => m <= l

\* An item adds one line or none.
LEMMA AddedLine ==
    ASSUME items \in D!Templates, NEW L \in Sections, NEW n \in 1..Size
    PROVE  /\ D!AddItem(L, n) \in Sections
           /\ LineSet(D!AddItem(L, n)) =
                 IF items[n].key \in D!Keys(L) \cup D!Reserved THEN LineSet(L)
                 ELSE LineSet(L) \cup {Entry(items[n].key, ItemValue[n])}
<1> DEFINE key == items[n].key
           one == D!Line(key, ItemValue[n])
<1>1. key \in D!CnfKeys /\ ItemValue[n] \in AllValues
  <2>1. items[n] \in D!Items /\ n \in 1..MaxItems
    BY Chosen
  <2> QED
    BY <2>1, ParamConstants DEF D!Items
<1>2. Section(one) /\ LineSet(one) = {Entry(key, ItemValue[n])}
  BY <1>1, OneLine
<1>3. Section(L)
  BY DEF Sections
<1>4. CASE key \in D!Keys(L) \cup D!Reserved
  BY <1>4 DEF D!AddItem
<1>5. CASE key \notin D!Keys(L) \cup D!Reserved
  <2>1. Entry(key, ItemValue[n]).key = key
    BY DEF Entry
  <2>2. \A l \in LineSet(L), m \in LineSet(one) : l.key # m.key
    BY <1>2, <1>5, <2>1, KeysOf
  <2> HIDE DEF one
  <2>3. Section(L \o one) /\ LineSet(L \o one) = LineSet(L) \cup LineSet(one)
    BY <1>2, <1>3, <2>2, Joined
  <2>4. D!AddItem(L, n) = L \o one
    BY <1>5 DEF D!AddItem, one
  <2>5. L \o one \in Sections
    BY <2>3 DEF Sections, Section
  <2> QED
    BY <1>2, <1>5, <2>3, <2>4, <2>5
<1> QED
  BY <1>4, <1>5

LEMMA WrittenSteps ==
    ASSUME items \in D!Templates, NEW c \in ConfigType
    PROVE  /\ D!Written(c) \in [0..Size -> Sections]
           /\ D!Written(c)[0] = D!FixedLines(c)
           /\ \A n \in 1..Size : D!Written(c)[n] = D!AddItem(D!Written(c)[n - 1], n)
<1> DEFINE first == D!FixedLines(c)
           Steps(f) == f = [n \in 0..Size |-> IF n = 0 THEN D!FixedLines(c) ELSE D!AddItem(f[n - 1], n)]
           step == [n \in 1..Size |-> [L \in Sections |-> D!AddItem(L, n)]]
<1>1. Size \in Nat
  BY Chosen
<1>2. step \in [1..Size -> [Sections -> Sections]]
  BY AddedLine
<1>3. first \in Sections
  BY FixedSection DEF Sections, Section
<1> HIDE DEF first
<1>4. PICK f \in [0..Size -> Sections] : f[0] = first /\ \A n \in 1..Size : f[n] = step[n][f[n - 1]]
  <2> HIDE DEF step
  <2>1. Iterates(Sections, first, Size, step)
    BY <1>1, <1>2, <1>3, Iterated
  <2> QED
    BY <2>1 DEF Iterates
<1>5. ASSUME NEW n \in 1..Size PROVE f[n] = D!AddItem(f[n - 1], n)
  <2>1. n - 1 \in 0..Size
    BY <1>1
  <2>2. f[n - 1] \in Sections
    BY <2>1
  <2> QED
    BY <1>4, <2>2
<1>6. Steps(f)
  BY <1>1, <1>4, <1>5 DEF first
<1>7. D!Written(c) = CHOOSE g : Steps(g)
  BY DEF D!Written, Size
<1> DEFINE w == D!Written(c)
<1>8. Steps(w)
  <2> HIDE DEF Steps
  <2> QED
    BY <1>6, <1>7
<1>9. w[0] = first /\ \A n \in 1..Size : w[n] = D!AddItem(w[n - 1], n)
  <2> HIDE DEF w
  <2>1. \A n \in 0..Size : w[n] = IF n = 0 THEN first ELSE D!AddItem(w[n - 1], n)
    BY <1>8 DEF first
  <2> QED
    BY <1>1, <2>1
<1>10. \A n \in 0..Size : w[n] \in Sections
  <2> DEFINE Good == {n \in Nat : n <= Size => w[n] \in Sections}
  <2> HIDE DEF w
  <2>1. 0 \in Good
    BY <1>3, <1>9
  <2>2. ASSUME NEW n \in Good PROVE n + 1 \in Good
    <3>1. SUFFICES ASSUME n + 1 <= Size PROVE w[n + 1] \in Sections
      OBVIOUS
    <3>2. n \in Nat /\ n <= Size /\ n + 1 \in 1..Size /\ (n + 1) - 1 = n
      BY <1>1, <3>1
    <3>3. w[n] \in Sections /\ w[n + 1] = D!AddItem(w[n], n + 1)
      BY <1>9, <3>2
    <3> QED
      BY <3>2, <3>3, AddedLine
  <2>3. Good = Nat
    <3>1. Good \subseteq Nat
      OBVIOUS
    <3> HIDE DEF Good
    <3> QED
      BY <2>1, <2>2, <3>1, Induction
  <2> QED
    BY <1>1, <2>3
<1>11. w \in [0..Size -> Sections]
  <2> HIDE DEF w
  <2> QED
    BY <1>8, <1>10
<1> QED
  BY <1>9, <1>11 DEF first

\* What the first n items have made of the lines that c gives.
Completed(c, L, n) ==
    /\ FixedSet(c) \subseteq LineSet(L)
    /\ \A l \in LineSet(L) \ FixedSet(c) :
          \E m \in 1..n : /\ l = Entry(items[m].key, ItemValue[m])
                         /\ items[m].key \notin D!Reserved
                         /\ First(m, n)
    /\ \A m \in 1..n : items[m].key \in D!Keys(L) \cup D!Reserved

LEMMA AddCompletes ==
    ASSUME items \in D!Templates, NEW c, NEW L \in Sections,
           NEW n \in Nat, n + 1 \in 1..Size, Completed(c, L, n)
    PROVE  Completed(c, D!AddItem(L, n + 1), n + 1)
<1> DEFINE key == items[n + 1].key
           M == D!AddItem(L, n + 1)
<1>1. 1..(n + 1) = 1..n \cup {n + 1} /\ \A m \in 1..n : m \in Nat /\ m < n + 1
  OBVIOUS
<1>2. LineSet(M) = IF key \in D!Keys(L) \cup D!Reserved THEN LineSet(L)
                   ELSE LineSet(L) \cup {Entry(key, ItemValue[n + 1])}
  BY AddedLine
<1> HIDE DEF M
<1>3. Entry(key, ItemValue[n + 1]).key = key
  BY DEF Entry
<1>4. D!Keys(L) \subseteq D!Keys(M) /\ key \in D!Keys(M) \cup D!Reserved
  BY <1>2, <1>3, KeysOf
<1>5. FixedSet(c) \subseteq LineSet(M)
  BY <1>2 DEF Completed
<1>6. \A m \in 1..(n + 1) : items[m].key \in D!Keys(M) \cup D!Reserved
  BY <1>1, <1>4 DEF Completed
<1>7. \A m \in 1..n : First(m, n) => First(m, n + 1)
  BY <1>1 DEF First
<1>8. ASSUME NEW l \in LineSet(M) \ FixedSet(c)
      PROVE  \E m \in 1..(n + 1) : /\ l = Entry(items[m].key, ItemValue[m])
                                   /\ items[m].key \notin D!Reserved
                                   /\ First(m, n + 1)
  <2>1. CASE l \in LineSet(L)
    <3>1. PICK m \in 1..n : /\ l = Entry(items[m].key, ItemValue[m])
                            /\ items[m].key \notin D!Reserved
                            /\ First(m, n)
      BY <2>1 DEF Completed
    <3> QED
      BY <1>1, <1>7, <3>1
  <2>2. CASE l \notin LineSet(L)
    <3>1. l = Entry(key, ItemValue[n + 1]) /\ key \notin D!Keys(L) \cup D!Reserved
      BY <1>2, <2>2
    <3>2. \A m \in 1..n : items[m].key # key
      BY <3>1 DEF Completed
    <3>3. First(n + 1, n + 1)
      BY <1>1, <3>2 DEF First
    <3> QED
      BY <1>1, <3>1, <3>3
  <2> QED
    BY <2>1, <2>2
<1>9. Completed(c, M, n + 1)
  BY <1>5, <1>6, <1>8 DEF Completed
<1> QED
  BY <1>9 DEF M

LEMMA BuiltCompletes ==
    ASSUME items \in D!Templates, NEW c \in ConfigType
    PROVE  Section(D!Built(c)) /\ Completed(c, D!Built(c), Size)
<1> DEFINE w == D!Written(c)
           Good == {n \in Nat : n <= Size => Completed(c, w[n], n)}
<1>1. Size \in Nat
  BY Chosen
<1>2. /\ w \in [0..Size -> Sections]
      /\ w[0] = D!FixedLines(c)
      /\ \A n \in 1..Size : w[n] = D!AddItem(w[n - 1], n)
  BY WrittenSteps
<1> HIDE DEF w
<1>3. 0 \in Good
  <2>1. LineSet(w[0]) = FixedSet(c)
    BY <1>2, FixedSection
  <2>2. Completed(c, w[0], 0)
    BY <2>1 DEF Completed
  <2> QED
    BY <2>2
<1>4. ASSUME NEW n \in Good PROVE n + 1 \in Good
  <2>1. SUFFICES ASSUME n + 1 <= Size PROVE Completed(c, w[n + 1], n + 1)
    OBVIOUS
  <2>2. n \in Nat /\ n \in 0..Size /\ n + 1 \in 1..Size /\ (n + 1) - 1 = n
    BY <1>1, <2>1
  <2>3. w[n] \in Sections /\ w[n + 1] = D!AddItem(w[n], n + 1) /\ Completed(c, w[n], n)
    BY <1>2, <2>2
  <2> QED
    BY <2>2, <2>3, AddCompletes
<1>5. Good = Nat
  <2>1. Good \subseteq Nat
    OBVIOUS
  <2> HIDE DEF Good
  <2> QED
    BY <1>3, <1>4, <2>1, Induction
<1>6. Completed(c, w[Size], Size) /\ w[Size] \in Sections
  BY <1>1, <1>2, <1>5
<1>7. D!Built(c) = w[Size]
  BY DEF w, D!Built, Size
<1> QED
  BY <1>6, <1>7 DEF Sections

--------------------------------------------------------------------------------
(* Parameters: configurations *)

LEMMA Typed6 ==
    ASSUME NEW c
    PROVE  c \in ConfigType <=>
             /\ c \in [D!ConfigKeys -> AllValues]
             /\ \A k \in D!ConfigKeys : c[k] \in D!Values(k) \cup {"unset"}
  BY DEF ConfigType, ConfigTyped

\* All values that a key may have.
LEMMA KeyValues ==
    /\ \A k \in D!ConfigKeys : D!Values(k) \cup {"unset"} \subseteq AllValues
    /\ \A k \in {"enable_binlog", "enable_gtid"} : D!Values(k) = {"on", "off"}
    /\ D!Values("server_id") = {"derived", "other"}
    /\ \A k \in {"max_connections", "binlog_format", "lower_case_table_names"} :
          {"profile", "user", "master", "platform"} \subseteq D!Values(k)
  BY DEF D!Values, D!Switches, D!ServerIds, D!ConfigKeys, AllValues

LEMMA EmptyType == D!Empty \in ConfigType /\ \A k \in D!ConfigKeys : D!Empty[k] = "unset"
<1>1. D!Empty \in [D!ConfigKeys -> AllValues] /\ \A k \in D!ConfigKeys : D!Empty[k] = "unset"
  BY DEF D!Empty, D!Unset, AllValues
<1> QED
  BY <1>1, Typed6

\* A key is given a value of its own.
LEMMA SetKey ==
    ASSUME NEW c \in ConfigType, NEW key \in D!ConfigKeys,
           NEW value \in D!Values(key) \cup {"unset"}
    PROVE  /\ [c EXCEPT ![key] = value] \in ConfigType
           /\ [c EXCEPT ![key] = value][key] = value
           /\ \A k \in D!ConfigKeys \ {key} : [c EXCEPT ![key] = value][k] = c[k]
<1>1. c \in [D!ConfigKeys -> AllValues] /\ value \in AllValues
  BY KeyValues, Typed6
<1> DEFINE d == [c EXCEPT ![key] = value]
<1>2. d \in [D!ConfigKeys -> AllValues] /\ d[key] = value /\ \A k \in D!ConfigKeys \ {key} : d[k] = c[k]
  BY <1>1
<1> HIDE DEF d
<1>3. d \in ConfigType
  BY <1>2, Typed6
<1> QED
  BY <1>2, <1>3 DEF d

LEMMA OverrideType ==
    ASSUME NEW base \in ConfigType, NEW given \in ConfigType
    PROVE  /\ D!Override(base, given) \in ConfigType
           /\ \A k \in D!ConfigKeys :
                D!Override(base, given)[k] = IF given[k] = "unset" THEN base[k] ELSE given[k]
<1> DEFINE o == D!Override(base, given)
<1>1. base \in [D!ConfigKeys -> AllValues] /\ given \in [D!ConfigKeys -> AllValues]
  BY Typed6
<1>2. o = [k \in D!ConfigKeys |-> IF given[k] = "unset" THEN base[k] ELSE given[k]]
  BY DEF D!Override, D!Unset
<1> HIDE DEF o
<1>3. /\ o \in [D!ConfigKeys -> AllValues]
      /\ \A k \in D!ConfigKeys : o[k] = IF given[k] = "unset" THEN base[k] ELSE given[k]
  BY <1>1, <1>2
<1>4. o \in ConfigType
  BY <1>3, Typed6
<1> QED
  BY <1>3, <1>4 DEF o

LEMMA SixKeys ==
    /\ "max_connections" \in D!ConfigKeys /\ "binlog_format" \in D!ConfigKeys
    /\ "enable_binlog" \in D!ConfigKeys /\ "enable_gtid" \in D!ConfigKeys
    /\ "server_id" \in D!ConfigKeys /\ "lower_case_table_names" \in D!ConfigKeys
  BY DEF D!ConfigKeys

LEMMA SixTyped ==
    ASSUME NEW d \in [D!ConfigKeys -> AllValues],
           d["max_connections"] \in D!Values("max_connections") \cup {"unset"},
           d["binlog_format"] \in D!Values("binlog_format") \cup {"unset"},
           d["lower_case_table_names"] \in D!Values("lower_case_table_names") \cup {"unset"},
           d["enable_binlog"] \in {"on", "off", "unset"},
           d["enable_gtid"] \in {"on", "off", "unset"},
           d["server_id"] \in {"derived", "other", "unset"}
    PROVE  d \in ConfigType
<1>1. \A k \in D!ConfigKeys :
        k \in {"max_connections", "binlog_format", "lower_case_table_names",
               "enable_binlog", "enable_gtid", "server_id"}
  BY DEF D!ConfigKeys
<1>2. \A k \in D!ConfigKeys : d[k] \in D!Values(k) \cup {"unset"}
  BY <1>1, KeyValues
<1> QED
  BY <1>2, Typed6

LEMMA Profile ==
    /\ D!ProfileConfig \in ConfigType
    /\ D!ProfileConfig["max_connections"] = "profile"
    /\ D!ProfileConfig["binlog_format"] = "profile"
    /\ D!ProfileConfig["enable_binlog"] = "on" /\ D!ProfileConfig["enable_gtid"] = "on"
<1> DEFINE p == D!ProfileConfig
<1>1. /\ D!Empty \in [D!ConfigKeys -> AllValues]
      /\ \A k \in D!ConfigKeys : D!Empty[k] = "unset"
      /\ {"profile", "on", "unset"} \subseteq AllValues
  BY EmptyType, Typed6 DEF AllValues
<1>2. /\ p \in [D!ConfigKeys -> AllValues]
      /\ p["max_connections"] = "profile" /\ p["binlog_format"] = "profile"
      /\ p["enable_binlog"] = "on" /\ p["enable_gtid"] = "on"
      /\ p["server_id"] = "unset" /\ p["lower_case_table_names"] = "unset"
  BY <1>1, SixKeys DEF D!ProfileConfig
<1> HIDE DEF p
<1>3. p \in ConfigType
  BY <1>2, KeyValues, SixTyped
<1> QED
  BY <1>2, <1>3 DEF p

LEMMA FormType ==
    ASSUME NEW f \in D!Forms
    PROVE  /\ f \in ConfigType
           /\ f["max_connections"] \in {"user", "unset"} /\ f["binlog_format"] \in {"user", "unset"}
<1>1. /\ D!Empty \in [D!ConfigKeys -> AllValues]
      /\ \A k \in D!ConfigKeys : D!Empty[k] = "unset"
      /\ {"user", "on", "off", "derived", "other", "unset"} \subseteq AllValues
  BY EmptyType, Typed6 DEF AllValues
<1>2. PICK m \in {"unset", "user"}, b \in {"unset", "on", "off"}, g \in {"unset", "on", "off"},
           i \in {"unset", "derived", "other"} :
        f = [D!Empty EXCEPT !["max_connections"] = m, !["binlog_format"] = m,
                            !["enable_binlog"] = b, !["enable_gtid"] = g, !["server_id"] = i]
  BY DEF D!Forms, D!Unset, D!ServerIds
<1>3. /\ f \in [D!ConfigKeys -> AllValues]
      /\ f["max_connections"] = m /\ f["binlog_format"] = m
      /\ f["enable_binlog"] = b /\ f["enable_gtid"] = g
      /\ f["server_id"] = i /\ f["lower_case_table_names"] = "unset"
  BY <1>1, <1>2, SixKeys
<1>4. f \in ConfigType
  <2>1. /\ m \in D!Values("max_connections") \cup {"unset"}
        /\ m \in D!Values("binlog_format") \cup {"unset"}
        /\ "unset" \in D!Values("lower_case_table_names") \cup {"unset"}
    BY <1>2, KeyValues
  <2>2. b \in {"on", "off", "unset"} /\ g \in {"on", "off", "unset"}
        /\ i \in {"derived", "other", "unset"}
    BY <1>2
  <2> QED
    BY <1>3, <2>1, <2>2, SixTyped
<1> QED
  BY <1>3, <1>4

LEMMA RuntimeType ==
    ASSUME NEW r \in D!Runtimes
    PROVE  /\ r \in ConfigType
           /\ r["enable_binlog"] = "on" /\ r["enable_gtid"] = "on"
           /\ r["server_id"] \in {"derived", "other"}
           /\ r["max_connections"] = "unset"
           /\ r["binlog_format"] \in {"unset", "master"}
<1>1. /\ D!Empty \in [D!ConfigKeys -> AllValues]
      /\ \A k \in D!ConfigKeys : D!Empty[k] = "unset"
      /\ {"master", "on", "derived", "other", "unset"} \subseteq AllValues
  BY EmptyType, Typed6 DEF AllValues
<1>2. PICK f \in {"unset", "master"}, i \in {"derived", "other"} :
        r = [D!Empty EXCEPT !["binlog_format"] = f, !["lower_case_table_names"] = "master",
                            !["enable_gtid"] = "on", !["enable_binlog"] = "on", !["server_id"] = i]
  BY DEF D!Runtimes, D!Unset, D!ServerIds
<1>3. /\ r \in [D!ConfigKeys -> AllValues]
      /\ r["max_connections"] = "unset" /\ r["binlog_format"] = f
      /\ r["enable_binlog"] = "on" /\ r["enable_gtid"] = "on"
      /\ r["server_id"] = i /\ r["lower_case_table_names"] = "master"
  BY <1>1, <1>2, SixKeys
<1>4. r \in ConfigType
  <2>1. /\ "unset" \in D!Values("max_connections") \cup {"unset"}
        /\ f \in D!Values("binlog_format") \cup {"unset"}
        /\ "master" \in D!Values("lower_case_table_names") \cup {"unset"}
    BY <1>2, KeyValues
  <2>2. i \in {"derived", "other", "unset"}
    BY <1>2
  <2> QED
    BY <1>3, <2>1, <2>2, SixTyped
<1> QED
  BY <1>3, <1>4

\* What a configuration must be for a section to be well formed.
Sound(c) ==
    /\ c \in ConfigType
    /\ c["enable_binlog"] \in {"on", "off"} /\ c["enable_gtid"] \in {"on", "off"}
    /\ c["enable_gtid"] = "on" => c["enable_binlog"] = "on"
    /\ c["server_id"] = "unset" <=> c["enable_binlog"] = "off"

LEMMA FinalizedSound ==
    ASSUME NEW c \in ConfigType
    PROVE  /\ Sound(D!Finalized(c))
           /\ D!Finalized(c)["max_connections"] = c["max_connections"]
           /\ c["binlog_format"] # "unset" => D!Finalized(c)["binlog_format"] = c["binlog_format"]
           /\ c["enable_gtid"] = "on" => D!Finalized(c)["enable_gtid"] = "on"
<1> DEFINE gtid == D!Given(c["enable_gtid"], "on")
           binlog == IF gtid = "on" THEN "on" ELSE D!Given(c["enable_binlog"], "on")
           format == IF binlog = "on" THEN D!Given(c["binlog_format"], "platform") ELSE c["binlog_format"]
           id == IF binlog = "on" THEN D!Given(c["server_id"], "derived") ELSE "unset"
           d == D!Finalized(c)
<1>1. /\ c["enable_binlog"] \in {"on", "off", "unset"} /\ c["enable_gtid"] \in {"on", "off", "unset"}
      /\ c["server_id"] \in {"derived", "other", "unset"}
      /\ c["binlog_format"] \in D!Values("binlog_format") \cup {"unset"}
      /\ c["max_connections"] \in D!Values("max_connections") \cup {"unset"}
      /\ c["lower_case_table_names"] \in D!Values("lower_case_table_names") \cup {"unset"}
  BY Typed6, KeyValues, SixKeys
<1>2. gtid \in {"on", "off"} /\ binlog \in {"on", "off"} /\ (gtid = "on" => binlog = "on")
      /\ (c["enable_gtid"] = "on" => gtid = "on")
  BY <1>1 DEF D!Given, D!Unset
<1>3. /\ format \in D!Values("binlog_format") \cup {"unset"}
      /\ c["binlog_format"] # "unset" => format = c["binlog_format"]
  BY <1>1, KeyValues DEF D!Given, D!Unset
<1>4. id \in {"derived", "other", "unset"} /\ (id = "unset" <=> binlog = "off")
  BY <1>1, <1>2 DEF D!Given, D!Unset
<1>5. d = [c EXCEPT !["enable_binlog"] = binlog, !["enable_gtid"] = gtid,
                    !["binlog_format"] = format, !["server_id"] = id]
  BY DEF D!Finalized, D!Unset
<1> HIDE DEF gtid, binlog, format, id, d
<1>6. /\ c \in [D!ConfigKeys -> AllValues]
      /\ {binlog, gtid, format, id} \subseteq AllValues
  <2>1. {"on", "off", "derived", "other", "unset"} \subseteq AllValues
    BY DEF AllValues
  <2>2. format \in AllValues
    BY <1>3, KeyValues, SixKeys
  <2> QED
    BY <1>2, <1>4, <2>1, <2>2, Typed6
<1>7. /\ d \in [D!ConfigKeys -> AllValues]
      /\ d["enable_binlog"] = binlog /\ d["enable_gtid"] = gtid
      /\ d["binlog_format"] = format /\ d["server_id"] = id
      /\ d["max_connections"] = c["max_connections"]
      /\ d["lower_case_table_names"] = c["lower_case_table_names"]
  BY <1>5, <1>6, SixKeys
<1>8. d \in ConfigType
  BY <1>1, <1>2, <1>3, <1>4, <1>7, SixTyped
<1> QED
  BY <1>2, <1>3, <1>4, <1>7, <1>8 DEF Sound, d

--------------------------------------------------------------------------------
(* Parameters: the inductive invariant *)

Naming(key) == D!ItemsNaming(key)

\* What form, template and profile make of the two parameters that all may set.
MaxGiven == D!Prevailing("max_connections", "max-connections")
FormatGiven == D!Prevailing("binlog_format", "binlog-format")

ParamTyped ==
    /\ replica \in BOOLEAN
    /\ items \in D!Templates /\ form \in D!Forms
    /\ replica => form["enable_binlog"] = "on" /\ form["enable_gtid"] = "on"
    /\ stage \in {"new", "resolved"}
    /\ stage = "new" => cnf = <<>> /\ runtime = D!Empty
    /\ config \in ConfigType
    /\ runtime \in D!Runtimes \cup {D!Empty}
    /\ probes \in 0..MaxProbes

ResolvedWell ==
    /\ Sound(config)
    /\ cnf = D!Built(config)
    /\ config["max_connections"] = MaxGiven /\ MaxGiven # "unset"
    /\ replica => config["enable_gtid"] = "on"
    /\ FormatGiven # "unset"
    /\ runtime = D!Empty => config["binlog_format"] = FormatGiven
    /\ runtime # D!Empty =>
          /\ config["binlog_format"] = runtime["binlog_format"]
          /\ config["server_id"] # runtime["server_id"]

ParamInv == ParamTyped /\ (stage = "resolved" => ResolvedWell)

\* What the items and the form make of one of the two parameters.
LEMMA Prevails ==
    ASSUME items \in D!Templates, NEW c, NEW t, NEW k, NEW key, Taken(c, t, Size, k, key),
           c[k] = "profile", form[k] \in {"user", "unset"}
    PROVE  /\ D!Prevailing(k, key) = IF form[k] = "unset" THEN t[k] ELSE form[k]
           /\ D!Prevailing(k, key) # "unset"
<1> DEFINE P(n) == items[n] = D!Underscored(key)
           first == CHOOSE n \in DOMAIN items : P(n)
<1>1. DOMAIN items = 1..Size /\ \A n \in 1..Size : n \in 1..MaxItems
  BY Chosen
<1>2. D!Prevailing(k, key) =
        IF form[k] = "user" THEN "user"
        ELSE IF \E n \in DOMAIN items : P(n) THEN ItemValue[first] ELSE "profile"
  BY DEF D!Prevailing
<1>3. CASE \E n \in DOMAIN items : P(n)
  <2>1. first \in DOMAIN items /\ P(first)
    BY <1>3
  <2> HIDE DEF first
  <2>2. first \in 1..Size /\ t[k] = ItemValue[first]
    BY <1>1, <2>1 DEF Taken
  <2>3. ItemValue[first] # "unset"
    BY <1>1, <2>2, ParamConstants
  <2> QED
    BY <1>2, <1>3, <2>2, <2>3
<1>4. CASE ~\E n \in DOMAIN items : P(n)
  <2>1. t[k] = "profile"
    BY <1>1, <1>4 DEF Taken
  <2> QED
    BY <1>2, <1>4, <2>1
<1> QED
  BY <1>3, <1>4

LEMMA SourcesMerged ==
    ASSUME items \in D!Templates, form \in D!Forms
    PROVE  LET c == D!Override(D!WithTemplate(D!ProfileConfig), form) IN
           /\ c \in ConfigType
           /\ c["max_connections"] = MaxGiven /\ MaxGiven # "unset"
           /\ c["binlog_format"] = FormatGiven /\ FormatGiven # "unset"
           /\ form["enable_gtid"] = "on" => c["enable_gtid"] = "on"
<1> DEFINE p == D!ProfileConfig
           t == D!WithTemplate(p)
           c == D!Override(t, form)
<1>1. p \in ConfigType /\ p["max_connections"] = "profile" /\ p["binlog_format"] = "profile"
  BY Profile
<1>2. /\ form \in ConfigType
      /\ form["max_connections"] \in {"user", "unset"} /\ form["binlog_format"] \in {"user", "unset"}
  BY FormType
<1> HIDE DEF p
<1>3. t \in ConfigType /\ Combined(p, t, Size)
  BY <1>1, WithTemplateCombines
<1> HIDE DEF t
<1>4. /\ c \in ConfigType
      /\ \A k \in D!ConfigKeys : c[k] = IF form[k] = "unset" THEN t[k] ELSE form[k]
  BY <1>2, <1>3, OverrideType
<1> HIDE DEF c
<1>5. form["enable_gtid"] = "on" => c["enable_gtid"] = "on"
  BY <1>4, SixKeys
<1>6. c["max_connections"] = MaxGiven /\ MaxGiven # "unset"
  <2>1. Taken(p, t, Size, "max_connections", "max-connections")
    BY <1>3 DEF Combined
  <2> QED
    BY <1>1, <1>2, <1>4, <2>1, Prevails, SixKeys DEF MaxGiven
<1>7. c["binlog_format"] = FormatGiven /\ FormatGiven # "unset"
  <2>1. Taken(p, t, Size, "binlog_format", "binlog-format")
    BY <1>3 DEF Combined
  <2> QED
    BY <1>1, <1>2, <1>4, <2>1, Prevails, SixKeys DEF FormatGiven
<1> QED
  BY <1>4, <1>5, <1>6, <1>7 DEF c, t, p

\* What the sources say does not change.
LEMMA SourcesKept ==
    ASSUME UNCHANGED <<items, form>>
    PROVE  MaxGiven' = MaxGiven /\ FormatGiven' = FormatGiven
  BY DEF MaxGiven, FormatGiven, D!Prevailing, D!Underscored

LEMMA InitParams == D!Init => ParamInv
<1> SUFFICES ASSUME D!Init PROVE ParamInv
  OBVIOUS
<1>1. D!Empty \in ConfigType /\ 0 \in 0..MaxProbes
  BY EmptyType, ParamConstants
<1> QED
  BY <1>1 DEF D!Init, ParamInv, ParamTyped

LEMMA ResolveStep == ASSUME ParamInv, D!Resolve PROVE ParamInv'
<1> DEFINE given == D!Override(D!WithTemplate(D!ProfileConfig), form)
           merged == D!Finalized(given)
<1>1. /\ config' = merged /\ cnf' = D!Built(merged)
      /\ stage = "new" /\ stage' = "resolved"
      /\ UNCHANGED <<replica, items, form, runtime, probes>>
  BY DEF D!Resolve
<1>2. /\ given \in ConfigType
      /\ given["max_connections"] = MaxGiven /\ MaxGiven # "unset"
      /\ given["binlog_format"] = FormatGiven /\ FormatGiven # "unset"
      /\ form["enable_gtid"] = "on" => given["enable_gtid"] = "on"
  BY SourcesMerged DEF ParamInv, ParamTyped
<1> HIDE DEF given
<1>3. /\ Sound(merged)
      /\ merged["max_connections"] = MaxGiven
      /\ merged["binlog_format"] = FormatGiven
      /\ given["enable_gtid"] = "on" => merged["enable_gtid"] = "on"
  BY <1>2, FinalizedSound
<1> HIDE DEF merged
<1>4. MaxGiven' = MaxGiven /\ FormatGiven' = FormatGiven
  BY <1>1, SourcesKept
<1>5. D!Built(config)' = D!Built(merged)
  <2>1. UNCHANGED <<replica, items>>
    BY <1>1
  <2>2. D!Built(config)' = D!Built(config')
    BY <2>1 DEF D!Built, D!Written, D!FixedLines, D!AddItem
  <2> QED
    BY <1>1, <2>2
<1>6. runtime' = D!Empty
  BY <1>1 DEF ParamInv, ParamTyped
<1>7. ParamTyped'
  BY <1>1, <1>3 DEF ParamInv, ParamTyped, Sound
<1>8. replica' => config'["enable_gtid"] = "on"
  BY <1>1, <1>2, <1>3 DEF ParamInv, ParamTyped
<1>9. Sound(config)'
  BY <1>1, <1>3 DEF Sound
<1>10. ResolvedWell'
  BY <1>1, <1>2, <1>3, <1>4, <1>5, <1>6, <1>8, <1>9 DEF ResolvedWell, D!Empty
<1> QED
  BY <1>7, <1>10 DEF ParamInv

LEMMA RuntimeMerged ==
    ASSUME Sound(config), config["enable_gtid"] = "on",
           NEW r \in D!Runtimes, config["server_id"] # r["server_id"]
    PROVE  LET c == D!Repaired(D!WithRuntime(config, r), r) IN
           /\ Sound(c)
           /\ c["max_connections"] = config["max_connections"]
           /\ c["server_id"] = config["server_id"]
           /\ c["enable_gtid"] = "on" /\ c["enable_binlog"] = "on"
           /\ c["binlog_format"] = r["binlog_format"]
<1> DEFINE w == D!WithRuntime(config, r)
           c == D!Repaired(w, r)
<1>1. /\ r \in ConfigType
      /\ r["enable_binlog"] = "on" /\ r["enable_gtid"] = "on"
      /\ r["server_id"] \in {"derived", "other"}
  BY RuntimeType
<1>2. config \in ConfigType /\ config["server_id"] # "unset"
  BY DEF Sound
<1>3. /\ w \in ConfigType
      /\ \A k \in {"max_connections", "server_id"} : w[k] = config[k]
      /\ \A k \in D!ConfigKeys \ {"max_connections", "server_id"} : w[k] = r[k]
  <2>1. w = [k \in D!ConfigKeys |-> IF k \in {"max_connections", "server_id"} THEN config[k] ELSE r[k]]
    BY DEF D!WithRuntime
  <2>2. /\ config \in [D!ConfigKeys -> AllValues] /\ r \in [D!ConfigKeys -> AllValues]
        /\ \A k \in D!ConfigKeys : /\ config[k] \in D!Values(k) \cup {"unset"}
                                   /\ r[k] \in D!Values(k) \cup {"unset"}
    BY <1>1, <1>2, Typed6
  <2> HIDE DEF w
  <2>3. /\ w \in [D!ConfigKeys -> AllValues]
        /\ \A k \in D!ConfigKeys : w[k] \in D!Values(k) \cup {"unset"}
    BY <2>1, <2>2
  <2>4. w \in ConfigType
    BY <2>3, Typed6
  <2> QED
    BY <2>1, <2>4, SixKeys
<1> HIDE DEF w
<1>4. /\ w["max_connections"] = config["max_connections"]
      /\ w["server_id"] = config["server_id"]
      /\ w["enable_gtid"] = "on" /\ w["enable_binlog"] = "on"
      /\ w["binlog_format"] = r["binlog_format"]
  BY <1>1, <1>3, SixKeys
<1>5. c = w
  BY <1>2, <1>4 DEF D!Repaired, D!Unset
<1> HIDE DEF c
<1>6. Sound(w)
  BY <1>2, <1>3, <1>4 DEF Sound
<1>7. /\ Sound(c)
      /\ c["max_connections"] = config["max_connections"]
      /\ c["server_id"] = config["server_id"]
      /\ c["enable_gtid"] = "on" /\ c["enable_binlog"] = "on"
      /\ c["binlog_format"] = r["binlog_format"]
  BY <1>4, <1>5, <1>6
<1> QED
  BY <1>7 DEF c, w

LEMMA ProbeStep == ASSUME ParamInv, NEW r \in D!Runtimes, D!Probe(r) PROVE ParamInv'
<1>1. /\ replica /\ stage = "resolved" /\ probes' = probes + 1 /\ probes' \in 0..MaxProbes
      /\ UNCHANGED <<replica, items, form, stage>>
  <2>1. probes \in 0..MaxProbes /\ probes < MaxProbes /\ MaxProbes \in Nat
    BY ParamConstants DEF D!Probe, ParamInv, ParamTyped
  <2> QED
    BY <2>1 DEF D!Probe
<1>2. MaxGiven' = MaxGiven /\ FormatGiven' = FormatGiven
  BY <1>1, SourcesKept
<1>3. CASE UNCHANGED <<config, cnf, runtime>>
  <2>1. D!Built(config)' = D!Built(config)
    BY <1>1, <1>3 DEF D!Built, D!Written, D!FixedLines, D!AddItem
  <2>2. Sound(config)'
    BY <1>1, <1>3 DEF ParamInv, ResolvedWell, Sound
  <2>3. ParamTyped'
    BY <1>1, <1>3 DEF ParamInv, ParamTyped
  <2>4. ResolvedWell'
    BY <1>1, <1>2, <1>3, <2>1, <2>2 DEF ParamInv, ResolvedWell, D!Empty
  <2> QED
    BY <2>3, <2>4 DEF ParamInv
<1>4. CASE config["server_id"] # r["server_id"]
  <2> DEFINE c == D!Repaired(D!WithRuntime(config, r), r)
  <2>1. config' = c /\ cnf' = D!Built(config') /\ runtime' = r
    BY <1>4 DEF D!Probe
  <2>2. Sound(config) /\ config["enable_gtid"] = "on"
    BY <1>1 DEF ParamInv, ResolvedWell
  <2>3. /\ Sound(c)
        /\ c["max_connections"] = config["max_connections"]
        /\ c["server_id"] = config["server_id"]
        /\ c["enable_gtid"] = "on" /\ c["enable_binlog"] = "on"
        /\ c["binlog_format"] = r["binlog_format"]
    BY <1>4, <2>2, RuntimeMerged
  <2> HIDE DEF c
  <2>4. D!Built(config)' = D!Built(config')
    BY <1>1 DEF D!Built, D!Written, D!FixedLines, D!AddItem
  <2>5. Sound(config)'
    BY <2>1, <2>3 DEF Sound
  <2>6. ParamTyped'
    BY <1>1, <2>1, <2>3 DEF ParamInv, ParamTyped, Sound
  <2>7. r # D!Empty
    BY RuntimeType, EmptyType, SixKeys
  <2>8. ResolvedWell'
    BY <1>1, <1>2, <1>4, <2>1, <2>3, <2>4, <2>5, <2>7 DEF ParamInv, ResolvedWell, D!Empty
  <2> QED
    BY <2>6, <2>8 DEF ParamInv
<1> QED
  BY <1>3, <1>4 DEF D!Probe

LEMMA StepParams == ParamInv /\ [D!Next]_paramVars => ParamInv'
<1> SUFFICES ASSUME ParamInv, [D!Next]_paramVars PROVE ParamInv'
  OBVIOUS
<1>1. CASE UNCHANGED paramVars
  <2>1. /\ UNCHANGED <<replica, items, form, stage>> /\ UNCHANGED <<config, cnf, runtime, probes>>
    BY <1>1 DEF paramVars
  <2>2. D!Built(config)' = D!Built(config) /\ MaxGiven' = MaxGiven /\ FormatGiven' = FormatGiven
    BY <2>1, SourcesKept DEF D!Built, D!Written, D!FixedLines, D!AddItem
  <2>3. Sound(config)' <=> Sound(config)
    BY <2>1 DEF Sound
  <2>4. ParamTyped'
    BY <2>1 DEF ParamInv, ParamTyped
  <2>5. ResolvedWell => ResolvedWell'
    BY <2>1, <2>2, <2>3 DEF ResolvedWell, D!Empty
  <2> QED
    BY <2>1, <2>4, <2>5 DEF ParamInv
<1> QED
  BY <1>1, ResolveStep, ProbeStep DEF D!Next

--------------------------------------------------------------------------------
(* Parameters: what the invariant says of my.cnf *)

LEMMA ResolvedLines ==
    ASSUME ParamInv, stage = "resolved"
    PROVE  Section(cnf) /\ Completed(config, cnf, Size)
  BY BuiltCompletes DEF ParamInv, ParamTyped, ResolvedWell

\* The value of a name is that of its line.
LEMMA ValueAt ==
    ASSUME Section(cnf), NEW key, NEW value, Entry(key, value) \in LineSet(cnf)
    PROVE  D!ValueOf(key) = value
<1>1. PICK n \in DOMAIN cnf : cnf[n] = Entry(key, value)
  BY DEF LineSet
<1>2. cnf[n].key = key /\ cnf[n].value = value
  BY <1>1 DEF Entry
<1>3. \A m \in DOMAIN cnf : cnf[m].key = key <=> m = n
  BY <1>2 DEF Section
<1>4. (CHOOSE m \in DOMAIN cnf : cnf[m].key = key) = n
  BY <1>3
<1>5. D!ValueOf(key) = cnf[CHOOSE m \in DOMAIN cnf : cnf[m].key = key].value
  BY DEF D!ValueOf
<1> QED
  BY <1>2, <1>4, <1>5

LEMMA ParamInvImpliesWellFormed == ParamInv => MyCnfWellFormed
<1> SUFFICES ASSUME ParamInv, stage = "resolved"
             PROVE  /\ \A m, n \in DOMAIN cnf : cnf[m].key = cnf[n].key => m = n
                    /\ \A n \in DOMAIN cnf : cnf[n].key \in D!Reserved => cnf[n].value = config["server_id"]
                    /\ "server-id" \in D!Keys(cnf) <=> config["enable_binlog"] = "on"
                    /\ config["enable_gtid"] = "on" => {"gtid-mode", "server-id"} \subseteq D!Keys(cnf)
                    /\ config["server_id"] = "unset" <=> config["enable_binlog"] = "off"
                    /\ runtime # D!Empty => config["server_id"] # runtime["server_id"]
  BY DEF MyCnfWellFormed, D!MyCnfWellFormed, D!Unset
<1>1. Section(cnf) /\ Completed(config, cnf, Size)
  BY ResolvedLines
<1>2. \A key, value : Entry(key, value).key = key /\ Entry(key, value).value = value
  BY DEF Entry
<1>3. D!Reserved = {"server-id"}
  BY DEF D!Reserved
<1>4. \A l \in FixedSet(config) : l.key = "server-id" =>
          l.value = config["server_id"] /\ config["enable_binlog"] = "on"
  BY <1>2 DEF FixedSet
<1>5. \A l \in LineSet(cnf) : l.key = "server-id" => l \in FixedSet(config)
  BY <1>1, <1>2, <1>3 DEF Completed
<1>6. \A n \in DOMAIN cnf : cnf[n].key \in D!Reserved => cnf[n].value = config["server_id"]
  BY <1>3, <1>4, <1>5 DEF LineSet
<1>7. "server-id" \in D!Keys(cnf) <=> config["enable_binlog"] = "on"
  <2>1. ASSUME "server-id" \in D!Keys(cnf) PROVE config["enable_binlog"] = "on"
    BY <1>4, <1>5, <2>1, KeysOf
  <2>2. ASSUME config["enable_binlog"] = "on" PROVE "server-id" \in D!Keys(cnf)
    <3>1. Entry("server-id", config["server_id"]) \in LineSet(cnf)
      BY <1>1, <2>2 DEF Completed, FixedSet
    <3> QED
      BY <1>2, <3>1, KeysOf
  <2> QED
    BY <2>1, <2>2
<1>8. config["enable_gtid"] = "on" => {"gtid-mode", "server-id"} \subseteq D!Keys(cnf)
  <2> SUFFICES ASSUME config["enable_gtid"] = "on" PROVE {"gtid-mode", "server-id"} \subseteq D!Keys(cnf)
    OBVIOUS
  <2>1. config["enable_binlog"] = "on"
    BY DEF ParamInv, ResolvedWell, Sound
  <2>2. Entry("gtid-mode", "platform") \in LineSet(cnf)
    BY <1>1, <2>1 DEF Completed, FixedSet
  <2>3. "gtid-mode" \in D!Keys(cnf)
    BY <1>2, <2>2, KeysOf
  <2> QED
    BY <1>7, <2>1, <2>3
<1> QED
  BY <1>1, <1>6, <1>7, <1>8 DEF Section, ParamInv, ResolvedWell, Sound

LEMMA ParamInvImpliesPrecedence == ParamInv => Precedence
<1> SUFFICES ASSUME ParamInv, stage = "resolved"
             PROVE  /\ D!ValueOf("max-connections") = MaxGiven
                    /\ config["enable_binlog"] = "on" =>
                         D!ValueOf("binlog-format") =
                            IF runtime = D!Empty THEN FormatGiven
                            ELSE D!Given(runtime["binlog_format"], "platform")
                    /\ \A n \in DOMAIN items :
                         items[n].key = "sort-buffer-size" =>
                             /\ "sort-buffer-size" \in D!Keys(cnf)
                             /\ D!ValueOf("sort-buffer-size") =
                                  ItemValue[CHOOSE m \in Naming("sort-buffer-size") :
                                              \A l \in Naming("sort-buffer-size") : m <= l]
  BY DEF Precedence, D!Precedence, MaxGiven, FormatGiven, Naming
<1>1. Section(cnf) /\ Completed(config, cnf, Size)
  BY ResolvedLines
<1>2. \A key, value : Entry(key, value).key = key
  BY DEF Entry
<1>3. D!ValueOf("max-connections") = MaxGiven
  <2>1. config["max_connections"] = MaxGiven /\ MaxGiven # "unset"
    BY DEF ParamInv, ResolvedWell
  <2>2. D!Given(config["max_connections"], "platform") = MaxGiven
    BY <2>1 DEF D!Given, D!Unset
  <2>3. Entry("max-connections", MaxGiven) \in LineSet(cnf)
    BY <1>1, <2>2 DEF Completed, FixedSet
  <2> QED
    BY <1>1, <2>3, ValueAt
<1>4. ASSUME config["enable_binlog"] = "on"
      PROVE  D!ValueOf("binlog-format") =
                IF runtime = D!Empty THEN FormatGiven
                ELSE D!Given(runtime["binlog_format"], "platform")
  <2>1. D!Given(config["binlog_format"], "platform") =
          IF runtime = D!Empty THEN FormatGiven ELSE D!Given(runtime["binlog_format"], "platform")
    BY DEF ParamInv, ResolvedWell, D!Given, D!Unset
  <2>2. Entry("binlog-format", D!Given(config["binlog_format"], "platform")) \in LineSet(cnf)
    BY <1>1, <1>4 DEF Completed, FixedSet
  <2>3. D!ValueOf("binlog-format") = D!Given(config["binlog_format"], "platform")
    BY <1>1, <2>2, ValueAt
  <2> QED
    BY <2>1, <2>3
<1>5. ASSUME NEW n \in DOMAIN items, items[n].key = "sort-buffer-size"
      PROVE  /\ "sort-buffer-size" \in D!Keys(cnf)
             /\ D!ValueOf("sort-buffer-size") =
                  ItemValue[CHOOSE m \in Naming("sort-buffer-size") :
                              \A l \in Naming("sort-buffer-size") : m <= l]
  <2> DEFINE N == Naming("sort-buffer-size")
  <2>1. DOMAIN items = 1..Size /\ Size \in Nat
    BY Chosen DEF ParamInv, ParamTyped
  <2>2. N = {m \in 1..Size : items[m].key = "sort-buffer-size"}
    BY <2>1 DEF Naming, D!ItemsNaming
  <2> HIDE DEF N
  <2>3. "sort-buffer-size" \in D!Keys(cnf)
    BY <1>1, <1>5, <2>1 DEF Completed, D!Reserved
  <2>4. PICK l \in LineSet(cnf) : l.key = "sort-buffer-size"
    BY <2>3, KeysOf
  <2>5. l \notin FixedSet(config)
    BY <1>2, <2>4 DEF FixedSet
  <2>6. PICK m \in 1..Size : l = Entry(items[m].key, ItemValue[m]) /\ First(m, Size)
    BY <1>1, <2>5 DEF Completed
  <2>7. items[m].key = "sort-buffer-size"
    BY <1>2, <2>4, <2>6
  <2>8. m \in N /\ \A k \in N : m <= k
    BY <2>2, <2>6, <2>7 DEF First
  <2>9. \A k \in N : (\A j \in N : k <= j) <=> k = m
    <3>1. \A k \in N : k \in Nat
      BY <2>2
    <3> QED
      BY <2>8, <3>1
  <2>10. (CHOOSE k \in N : \A j \in N : k <= j) = m
    BY <2>8, <2>9
  <2>11. D!ValueOf("sort-buffer-size") = ItemValue[m]
    BY <1>1, <2>4, <2>6, <2>7, ValueAt
  <2> QED
    BY <2>3, <2>10, <2>11 DEF N
<1> QED
  BY <1>3, <1>4, <1>5

LEMMA ParamInvImpliesTypeOK == ParamInv => D!TypeOK
<1> SUFFICES ASSUME ParamInv PROVE D!TypeOK
  OBVIOUS
<1>1. \A k \in D!ConfigKeys : config[k] \in D!Values(k) \cup {D!Unset}
  BY Typed6 DEF ParamInv, ParamTyped, D!Unset
<1>2. \A n \in DOMAIN cnf : cnf[n].key \in D!CnfKeys
  <2>1. CASE stage = "new"
    BY <2>1 DEF ParamInv, ParamTyped
  <2>2. CASE stage = "resolved"
    <3>1. cnf \in Seq(LineType)
      BY <2>2, ResolvedLines DEF Section
    <3>2. \A n \in DOMAIN cnf : cnf[n] \in LineType
      BY <3>1
    <3> QED
      BY <3>2 DEF LineType
  <2> QED
    BY <2>1, <2>2 DEF ParamInv, ParamTyped
<1> QED
  BY <1>1, <1>2 DEF ParamInv, ParamTyped, D!TypeOK

--------------------------------------------------------------------------------
(* The three parts *)

\* A step of the whole is a step of each part or leaves it alone.
LEMMA Apart ==
    [MCNext]_<<area, hostVars, vars, paramVars>> =>
        [H!Next]_hostVars /\ [Next]_vars /\ [D!Next]_paramVars
  BY DEF MCNext

LEMMA TemplateConstants == MaxTemplate \in Nat /\ MaxVersion \in Nat /\ None \notin Rows
  BY CatalogAssumption

LEMMA AllInvariants == MCSpec => [](HostInv /\ TemplateInv /\ ParamInv)
<1>1. MCInit => HostInv /\ TemplateInv /\ ParamInv
  BY InitHost, InitTemplate, InitParams, TemplateConstants DEF MCInit
<1>2. HostInv /\ TemplateInv /\ ParamInv /\ [MCNext]_<<area, hostVars, vars, paramVars>>
        => (HostInv /\ TemplateInv /\ ParamInv)'
  BY Apart, StepHost, StepTemplate, StepParams, TemplateConstants
<1> QED
  BY <1>1, <1>2, PTL DEF MCSpec

\* Hosts and the forms open on them, templates, saves and loads, and the
\* parameters and lines of a deployment have their types (common/services.py,
\* deploy_param_template_services.py and deploy_constants.py).
THEOREM CatalogTypes == MCSpec => []RowsTyped
<1>1. HostInv /\ TemplateInv /\ ParamInv => RowsTyped
  BY HostInvImpliesTypeOK, TemplateInvImpliesTypeOK, ParamInvImpliesTypeOK DEF RowsTyped
<1> QED
  BY AllInvariants, <1>1, PTL

\* However many forms are open on a host, and however old, the last save, if
\* no other joined it and nothing cut it short, leaves exactly one
\* administrator, or a business address first (update_host, _sync_ips and
\* _sync_accounts).
THEOREM HostKept == MCSpec => []HostFits
  BY AllInvariants, HostInvImpliesFits, PTL

\* However the sources of the parameters spell and repeat a name, my.cnf has
\* it once, nothing reserved from a template, and the switches and numbers that
\* it needs, after every answer of the master (build_mysql_cnf_sections and
\* apply_mysql_master_runtime).
THEOREM SectionWellFormed == MCSpec => []MyCnfWellFormed
  BY AllInvariants, ParamInvImpliesWellFormed, PTL

\* What the master last said, blank or not, wins over the form, the form over
\* the template and that over the profile, and what only the template knows is
\* written, the first of its spellings.  Of max_connections and binlog_format a
\* template has a say only in this spelling: an item max-connections or
\* binlog-format is left to the profile (_deep_merge,
\* _config_key_for_param_name, apply_mysql_master_runtime and
\* build_mysql_cnf_sections).
THEOREM SourcesPrecede == MCSpec => []Precedence
  BY AllInvariants, ParamInvImpliesPrecedence, PTL
================================================================================
