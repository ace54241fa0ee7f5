-------------------------- MODULE MCConnections_proofs --------------------------
(***************************************************************************)
(* Theorems about the connectivity probe, its dashboard and the web         *)
(* terminal, for any instances, deploy hosts, rounds, sessions and size of  *)
(* the pool.                                                                *)
(***************************************************************************)
EXTENDS MCConnections, FiniteSetTheorems, SequenceTheorems, WellFoundedInduction, TLAPS

--------------------------------------------------------------------------------
(* The probe: types *)

RoundPcs == {"resting", "probing", "saving", "done"}
RoundType == [pc : RoundPcs, maintained : SUBSET Ids, unusable : SUBSET Targets,
              todo : SUBSET Targets,
              result : Status, summary : [Status -> Nat], clean : BOOLEAN]
FormType == [target : Targets, shown : Status]

TypeInv ==
    /\ inst \in [Ids -> Rows \cup {Gone}]
    /\ shown \in [Targets -> Status \cup {Gone}]
    /\ \A t \in Targets : Exists(t) => inst[t[1]] # Gone
    /\ malformed \subseteq Targets /\ \A t \in malformed : Exists(t)
    /\ form \in FormType \cup {NoForm}
    /\ edits \in 0..MaxEdits
    /\ round \in [Rounds -> RoundType]

LEMMA TargetParts ==
    /\ \A t \in Targets : t[1] \in Ids /\ t[1] \in Nat /\ t[2] \in Nat /\ t = <<t[1], t[2]>>
    /\ \A i \in Ids : Instance(i) \in Targets
  BY ConnectionsAssumption DEF Targets, Ids, Instance

LEMMA TargetsFinite == IsFiniteSet(Targets)
<1>1. IsFiniteSet(Ids)
  BY ConnectionsAssumption, FS_Interval DEF Ids
<1>2. IsFiniteSet(Ids \X {0})
  BY <1>1, FS_Product, FS_Singleton
<1> QED
  BY <1>2, ConnectionsAssumption, FS_Union DEF Targets

LEMMA ZeroType == Zero \in [Status -> Nat]
  BY DEF Zero

LEMMA RestingType ==
    Resting \in RoundType /\ Resting.pc = "resting" /\ Resting.summary = Zero
  BY ZeroType DEF Resting, RoundType, RoundPcs, Status

LEMMA LeastNat ==
    ASSUME NEW S \in SUBSET Nat, S # {}
    PROVE  \E n \in S : \A m \in S : n <= m
<1> DEFINE R == {ss \in Nat \X Nat : ss[1] < ss[2]}
<1>1. IsWellFoundedOn(R, Nat)
  BY NatLessThanWellFounded DEF OpToRel
<1>2. PICK n \in S : \A m \in S : <<m, n>> \notin R
  <2> HIDE DEF R
  <2> QED
    BY <1>1, WFMin
<1>3. \A m \in S : n <= m
  <2> SUFFICES ASSUME NEW m \in S, ~(n <= m) PROVE FALSE
    OBVIOUS
  <2>1. <<m, n>> \in Nat \X Nat /\ m < n
    OBVIOUS
  <2>2. <<m, n>>[1] < <<m, n>>[2]
    BY <2>1
  <2>3. <<m, n>> \in R
    BY <2>1, <2>2, Zenon
  <2> QED
    BY <1>2, <2>3
<1> QED
  BY <1>3

\* The order of a round is total, so that there is a next target as long as
\* there is anything to do.
LEMMA First ==
    ASSUME NEW S \in SUBSET Targets, S # {}
    PROVE  (CHOOSE t \in S : \A u \in S : Before(t, u)) \in S
<1>1. PICK i \in {t[1] : t \in S} : \A j \in {t[1] : t \in S} : i <= j
  <2>1. {t[1] : t \in S} \in SUBSET Nat /\ {t[1] : t \in S} # {}
    BY TargetParts, ConnectionsAssumption DEF Ids
  <2> QED
    BY <2>1, LeastNat
<1> DEFINE Mine == {t \in S : t[1] = i}
<1>2. PICK n \in {t[2] : t \in Mine} : \A m \in {t[2] : t \in Mine} : n <= m
  <2>1. {t[2] : t \in Mine} \in SUBSET Nat /\ {t[2] : t \in Mine} # {}
    BY TargetParts, <1>1
  <2> HIDE DEF Mine
  <2> QED
    BY <2>1, LeastNat
<1>3. PICK t \in Mine : t[2] = n
  BY <1>2
<1>4. \A u \in S : Before(t, u)
  <2> SUFFICES ASSUME NEW u \in S PROVE Before(t, u)
    OBVIOUS
  <2>1. t \in Targets /\ u \in Targets /\ t[1] = i
    BY <1>3
  <2>2. t[1] \in Nat /\ u[1] \in Nat
    BY <2>1, TargetParts, Zenon
  <2>3. i <= u[1]
    BY <1>1
  <2>4. CASE u[1] = i
    BY <2>1, <2>4, <1>2, <1>3 DEF Before
  <2>5. CASE u[1] # i
    BY <2>1, <2>2, <2>3, <2>5 DEF Before
  <2> QED
    BY <2>4, <2>5
<1> QED
  BY <1>3, <1>4

LEMMA NextTargetType ==
    ASSUME TypeInv, NEW r \in Rounds, round[r].todo # {}
    PROVE  NextTarget(r) \in round[r].todo /\ NextTarget(r) \in Targets
<1>1. round[r].todo \in SUBSET Targets
  BY DEF TypeInv, RoundType
<1>2. NextTarget(r) \in round[r].todo
  BY <1>1, First DEF NextTarget
<1> QED
  BY <1>1, <1>2

--------------------------------------------------------------------------------
(* The probe: what a round has counted *)

\* A round whose summary still counts; so far every other round rested.
Tracked(q) == q.clean /\ q.pc # "resting"

Legal(q) ==
    /\ ~Tracked(q) => q.summary = Zero
    /\ q.pc = "done" => q.clean /\ q.todo = {}
    /\ q.pc = "saving" => q.todo # {}

\* What a round that began now would probe.
All == UNION {Probed(i) : i \in Listed}
Seen(r, s) == {t \in All \ round[r].todo : shown[t] = s}

Counted(r) ==
    Tracked(round[r]) =>
        /\ \A q \in Rounds \ {r} : ~UnderWay(q)
        /\ round[r].todo \subseteq All
        /\ \A s \in Status : round[r].summary[s] = Cardinality(Seen(r, s))

IInv == TypeInv /\ \A r \in Rounds : Legal(round[r]) /\ Counted(r)

LEMMA RestingLegal == Legal(Resting) /\ ~Tracked(Resting)
  BY DEF Resting, Legal, Tracked

LEMMA UncleanType ==
    ASSUME NEW q \in RoundType, Legal(q)
    PROVE  /\ Unclean(q) \in RoundType
           /\ Legal(Unclean(q))
           /\ ~Tracked(Unclean(q))
<1>1. CASE q.pc \in {"probing", "saving"}
  <2>1. Unclean(q) = [q EXCEPT !.clean = FALSE, !.summary = Zero]
    BY <1>1 DEF Unclean
  <2>2. Unclean(q) \in RoundType
    BY <2>1, ZeroType DEF RoundType
  <2>3. Unclean(q).clean = FALSE /\ Unclean(q).summary = Zero /\ Unclean(q).pc = q.pc
        /\ Unclean(q).todo = q.todo
    BY <2>1 DEF RoundType
  <2> QED
    BY <1>1, <2>2, <2>3 DEF Legal, Tracked
<1>2. CASE q.pc \notin {"probing", "saving"}
  BY <1>2, RestingType, RestingLegal DEF Unclean
<1> QED
  BY <1>1, <1>2

LEMMA AllTargets == TypeInv => All \subseteq Targets
  BY TargetParts DEF All, Probed, NodesOf, Listed

LEMMA SeenFinite ==
    ASSUME TypeInv, NEW r \in Rounds, NEW s
    PROVE  /\ IsFiniteSet(Seen(r, s))
           /\ Cardinality(Seen(r, s)) \in Nat
           /\ Cardinality(Seen(r, s)) <= Cardinality(Targets)
<1>1. Seen(r, s) \in SUBSET Targets
  BY AllTargets DEF Seen
<1> QED
  BY <1>1, TargetsFinite, FS_Subset, FS_CardinalityType

LEMMA InitIInv == Init => IInv
<1> SUFFICES ASSUME Init PROVE IInv
  OBVIOUS
<1>1. inst \in [Ids -> Rows \cup {Gone}] /\ \A i \in Ids : inst[i] \in Rows
  BY DEF Init, Rows
<1>2. shown \in [Targets -> Status \cup {Gone}]
  BY DEF Init, Status
<1>3. \A t \in Targets : inst[t[1]] # Gone
  BY <1>1, TargetParts, ConnectionsAssumption
<1>4. round \in [Rounds -> RoundType] /\ \A r \in Rounds : round[r] = Resting
  BY RestingType DEF Init
<1>5. TypeInv
  BY <1>1, <1>2, <1>3, <1>4, ConnectionsAssumption DEF TypeInv, Init
<1> QED
  BY <1>4, <1>5, RestingLegal DEF IInv, Counted

\* A step that every round notices leaves none that counts.
LEMMA TouchInv ==
    ASSUME IInv, Touch
    PROVE  /\ round' \in [Rounds -> RoundType]
           /\ \A r \in Rounds : Legal(round[r])' /\ Counted(r)'
<1>1. \A r \in Rounds : round[r] \in RoundType /\ Legal(round[r])
  BY DEF IInv, TypeInv
<1>2. \A r \in Rounds : /\ Unclean(round[r]) \in RoundType
                        /\ Legal(Unclean(round[r]))
                        /\ ~Tracked(Unclean(round[r]))
  BY <1>1, UncleanType
<1>3. round' = [r \in Rounds |-> Unclean(round[r])]
  BY DEF Touch, Disturb
<1> HIDE DEF Touch
<1>4. \A r \in Rounds : round'[r] = Unclean(round[r])
  BY <1>3
<1>5. \A r \in Rounds : Legal(round[r])' /\ ~Tracked(round[r])'
  <2> SUFFICES ASSUME NEW r \in Rounds PROVE Legal(round'[r]) /\ ~Tracked(round'[r])
    BY DEF Legal, Tracked
  <2> QED
    BY <1>2, <1>4
<1> QED
  BY <1>2, <1>3, <1>5 DEF Counted

--------------------------------------------------------------------------------
(* The probe: one lemma per step *)

BeginState(r) ==
    [Resting EXCEPT !.pc = "probing", !.maintained = {i \in Listed : inst[i].maintained},
                    !.unusable = {t \in UNION {Probed(i) : i \in Listed} : Raises(t)},
                    !.todo = UNION {Probed(i) : i \in Listed},
                    !.clean = \A s \in Rounds : ~UnderWay(s)]

LEMMA BeginRoundInv == ASSUME IInv, NEW r \in Rounds, BeginRound(r) PROVE IInv'
<1>1. \A q \in Rounds : /\ Unclean(round[q]) \in RoundType
                        /\ Legal(Unclean(round[q]))
                        /\ ~Tracked(Unclean(round[q]))
  BY UncleanType DEF IInv, TypeInv
<1>2. PICK b : b = BeginState(r)
  OBVIOUS
<1>3. b \in RoundType
  <2>1. All \in SUBSET Targets
    BY AllTargets DEF IInv
  <2>2. (\A s \in Rounds : ~UnderWay(s)) \in BOOLEAN
    OBVIOUS
  <2> QED
    BY <1>2, <2>1, <2>2, RestingType DEF BeginState, All, RoundType, RoundPcs, Listed
<1>4. /\ b.pc = "probing" /\ b.summary = Zero /\ b.todo = All
      /\ b.clean => \A s \in Rounds : ~UnderWay(s)
  BY <1>2 DEF BeginState, Resting, All
<1>5. Legal(b)
  BY <1>4 DEF Legal
<1>6. round' = [[q \in Rounds |-> Unclean(round[q])] EXCEPT ![r] = b]
  BY <1>2 DEF BeginRound, Disturb, BeginState
<1>7. round'[r] = b /\ \A q \in Rounds \ {r} : round'[q] = Unclean(round[q])
  BY <1>6
<1>8. round' \in [Rounds -> RoundType]
  BY <1>1, <1>3, <1>6
<1>9. UNCHANGED <<inst, shown, malformed, form, edits>>
  BY DEF BeginRound
<1>10. TypeInv'
  BY <1>8, <1>9 DEF IInv, TypeInv, Exists
<1>11. \A q \in Rounds : Legal(round'[q])
  BY <1>1, <1>5, <1>7
<1>12. ASSUME NEW q \in Rounds, Tracked(round'[q]) PROVE Counted(q)'
  <2>1. q = r /\ b.clean
    BY <1>1, <1>7, <1>12 DEF Tracked
  <2>2. \A p \in Rounds \ {r} : ~UnderWay(p)'
    <3> SUFFICES ASSUME NEW p \in Rounds \ {r} PROVE ~UnderWay(p)'
      OBVIOUS
    <3>1. round'[p] = Resting
      BY <1>4, <1>7, <2>1 DEF UnderWay, Unclean
    <3> QED
      BY <3>1, RestingType DEF UnderWay
  <2>3. All' = All
    BY <1>9 DEF All, Listed, Probed, NodesOf, Exists
  <2>4. \A s \in Status : Seen(r, s)' = {}
    BY <1>4, <1>7, <2>3 DEF Seen
  <2>5. \A s \in Status : round'[r].summary[s] = 0
    BY <1>4, <1>7 DEF Zero
  <2> QED
    BY <1>4, <1>7, <2>1, <2>2, <2>3, <2>4, <2>5, FS_EmptySet DEF Counted
<1>13. \A q \in Rounds : Counted(q)'
  BY <1>12 DEF Counted
<1> QED
  BY <1>10, <1>11, <1>13 DEF IInv, Legal

\* A step of one round that saves nothing: what it counts, if it counts, stays.
LEMMA MovesOn ==
    ASSUME IInv, NEW r \in Rounds, NEW b \in RoundType, Legal(b),
           round' = [round EXCEPT ![r] = b],
           UNCHANGED <<inst, shown, malformed, form, edits>>,
           b.pc \in {"probing", "saving"} => UnderWay(r),
           Tracked(b) => /\ Tracked(round[r])
                         /\ b.todo = round[r].todo
                         /\ b.summary = round[r].summary
    PROVE  IInv'
<1>1. round \in [Rounds -> RoundType]
  BY DEF IInv, TypeInv
<1>2. round'[r] = b /\ \A q \in Rounds \ {r} : round'[q] = round[q]
  BY <1>1
<1>3. round' \in [Rounds -> RoundType]
  BY <1>1
<1>4. TypeInv'
  BY <1>3 DEF IInv, TypeInv, Exists
<1>5. \A q \in Rounds : Legal(round'[q])
  BY <1>2 DEF IInv
<1>6. \A q \in Rounds : UnderWay(q)' => UnderWay(q)
  BY <1>2 DEF UnderWay
<1>7. \A q \in Rounds : Tracked(round'[q]) => /\ Tracked(round[q])
                                              /\ round'[q].todo = round[q].todo
                                              /\ round'[q].summary = round[q].summary
  BY <1>2
<1>8. All' = All /\ shown' = shown
  BY DEF All, Listed, Probed, NodesOf, Exists
<1>9. ASSUME NEW q \in Rounds, Tracked(round'[q]) PROVE Counted(q)'
  <2>1. \A s \in Status : Seen(q, s)' = Seen(q, s)
    BY <1>7, <1>8, <1>9 DEF Seen
  <2> QED
    BY <1>6, <1>7, <1>8, <1>9, <2>1 DEF IInv, Counted
<1>10. \A q \in Rounds : Counted(q)'
  BY <1>9 DEF Counted
<1> QED
  BY <1>4, <1>5, <1>10 DEF IInv, Legal

LEMMA ContactInv == ASSUME IInv, NEW r \in Rounds, Contact(r) PROVE IInv'
<1>1. round[r] \in RoundType /\ Legal(round[r])
  BY DEF IInv, TypeInv
<1>2. round[r].pc = "probing" /\ round[r].todo # {} /\ UNCHANGED <<inst, shown, malformed, form, edits>>
  BY DEF Contact
<1>3. ASSUME NEW s \in Status,
             round' = [round EXCEPT ![r] = [round[r] EXCEPT !.pc = "saving", !.result = s]]
      PROVE  IInv'
  <2>1. PICK b : b = [round[r] EXCEPT !.pc = "saving", !.result = s]
    OBVIOUS
  <2>2. /\ b \in RoundType /\ b.pc = "saving" /\ b.summary = round[r].summary
        /\ b.todo = round[r].todo /\ b.clean = round[r].clean
    BY <1>1, <2>1 DEF RoundType, RoundPcs
  <2>3. round' = [round EXCEPT ![r] = b]
    BY <1>3, <2>1
  <2>4. Tracked(b) <=> Tracked(round[r])
    BY <1>2, <2>2 DEF Tracked
  <2>5. Legal(b)
    BY <1>1, <1>2, <2>2, <2>4 DEF Legal
  <2> QED
    BY <1>2, <2>2, <2>3, <2>4, <2>5, MovesOn DEF UnderWay
<1>4. CASE round' = [round EXCEPT ![r] = Resting]
  BY <1>2, <1>4, RestingType, RestingLegal, MovesOn
<1>5. Outcomes(r, NextTarget(r)) \subseteq Status
  BY DEF Outcomes, Status
<1> QED
  BY <1>3, <1>4, <1>5 DEF Contact

LEMMA EndRoundInv == ASSUME IInv, NEW r \in Rounds, EndRound(r) PROVE IInv'
<1>1. round[r] \in RoundType /\ Legal(round[r])
  BY DEF IInv, TypeInv
<1>2. round[r].pc = "probing" /\ round[r].todo = {} /\ UNCHANGED <<inst, shown, malformed, form, edits>>
  BY DEF EndRound
<1>3. PICK b : b = IF round[r].clean
                   THEN [round[r] EXCEPT !.pc = "done", !.maintained = {}, !.unusable = {}]
                   ELSE Resting
  OBVIOUS
<1>4. round' = [round EXCEPT ![r] = b]
  BY <1>3 DEF EndRound
<1>5. CASE round[r].clean
  <2>1. b = [round[r] EXCEPT !.pc = "done", !.maintained = {}, !.unusable = {}]
    BY <1>3, <1>5
  <2>2. /\ b \in RoundType /\ b.pc = "done" /\ b.summary = round[r].summary
        /\ b.todo = round[r].todo /\ b.clean = round[r].clean
    BY <1>1, <2>1 DEF RoundType, RoundPcs
  <2>3. Tracked(round[r]) /\ Tracked(b) /\ Legal(b)
    BY <1>2, <1>5, <2>2 DEF Tracked, Legal
  <2> QED
    BY <1>2, <1>4, <2>2, <2>3, MovesOn
<1>6. CASE ~round[r].clean
  <2>1. b = Resting
    BY <1>3, <1>6
  <2> QED
    BY <1>2, <1>4, <2>1, RestingType, RestingLegal, MovesOn
<1> QED
  BY <1>5, <1>6

\* A result that is saved is counted under it, and under it alone.
LEMMA SavedInv ==
    ASSUME IInv, NEW r \in Rounds, SaveResult(r), Exists(NextTarget(r))
    PROVE  IInv'
<1>1. PICK t : t = NextTarget(r)
  OBVIOUS
<1>2. PICK x : x = round[r].result
  OBVIOUS
<1>3. round \in [Rounds -> RoundType] /\ round[r] \in RoundType /\ Legal(round[r])
  BY DEF IInv, TypeInv
<1>4. round[r].pc = "saving" /\ UNCHANGED <<inst, malformed, form, edits>>
  BY DEF SaveResult
<1>5. t \in round[r].todo /\ t \in Targets /\ shown[t] # Gone
  BY <1>1, <1>3, <1>4, NextTargetType DEF IInv, Legal, Exists
<1>6. x \in Status /\ x # Gone
  BY <1>2, <1>3, ConnectionsAssumption DEF RoundType
<1>7. shown' = [shown EXCEPT ![t] = x]
  BY <1>1, <1>2 DEF SaveResult
<1>8. PICK b : b = [round[r] EXCEPT !.pc = "probing", !.todo = @ \ {t}, !.result = "unknown",
                                    !.summary[x] = IF round[r].clean THEN @ + 1 ELSE @]
  OBVIOUS
<1>9. round' = [round EXCEPT ![r] = b]
  BY <1>1, <1>2, <1>8 DEF SaveResult
<1>10. round[r].summary \in [Status -> Nat] /\ round[r].summary[x] \in Nat
  BY <1>3, <1>6 DEF RoundType
<1>11. PICK n \in Nat : n = IF round[r].clean THEN round[r].summary[x] + 1 ELSE round[r].summary[x]
  BY <1>10
<1>12. b = [round[r] EXCEPT !.pc = "probing", !.todo = round[r].todo \ {t}, !.result = "unknown",
                            !.summary = [round[r].summary EXCEPT ![x] = n]]
  BY <1>3, <1>8, <1>11 DEF RoundType
<1>13. /\ b \in RoundType /\ b.pc = "probing" /\ b.todo = round[r].todo \ {t}
       /\ b.summary = [round[r].summary EXCEPT ![x] = n] /\ b.clean = round[r].clean
  BY <1>3, <1>10, <1>12 DEF RoundType, RoundPcs, Status
<1>14. Tracked(b) <=> Tracked(round[r])
  BY <1>4, <1>13 DEF Tracked
<1>15. Legal(b)
  <2>1. ~Tracked(b) => n = round[r].summary[x]
    BY <1>4, <1>11, <1>14 DEF Tracked
  <2>2. ~Tracked(b) => b.summary = round[r].summary
    BY <1>10, <1>13, <2>1
  <2> QED
    BY <1>3, <1>13, <1>14, <2>2 DEF Legal
<1>16. round'[r] = b /\ \A q \in Rounds \ {r} : round'[q] = round[q]
  BY <1>3, <1>9
<1>17. \A u \in Targets : Exists(u)' <=> Exists(u)
  BY <1>5, <1>6, <1>7 DEF Exists, IInv, TypeInv
<1>18. TypeInv'
  <2>1. round' \in [Rounds -> RoundType]
    BY <1>3, <1>9, <1>13
  <2>2. shown' \in [Targets -> Status \cup {Gone}]
    BY <1>6, <1>7 DEF IInv, TypeInv
  <2> QED
    BY <1>4, <1>17, <2>1, <2>2 DEF IInv, TypeInv
<1>19. All' = All
  <2>1. \A i \in Ids : NodesOf(i)' = NodesOf(i)
    BY <1>17 DEF NodesOf
  <2>2. Listed' = Listed /\ Listed \subseteq Ids
    BY <1>4 DEF Listed
  <2> QED
    BY <1>4, <2>1, <2>2 DEF All, Probed
<1>20. ASSUME NEW q \in Rounds, Tracked(round'[q]) PROVE Counted(q)'
  <2>1. q = r
    <3>1. UnderWay(r)
      BY <1>4 DEF UnderWay
    <3> QED
      BY <3>1, <1>16, <1>20 DEF IInv, Counted
  <2>2. Tracked(round[r])
    BY <1>14, <1>16, <1>20, <2>1
  <2>3. /\ \A p \in Rounds \ {r} : ~UnderWay(p)
        /\ round[r].todo \subseteq All
        /\ \A s \in Status : round[r].summary[s] = Cardinality(Seen(r, s))
    BY <2>2 DEF IInv, Counted
  <2>4. n = round[r].summary[x] + 1
    BY <1>11, <2>2 DEF Tracked
  <2>5. \A p \in Rounds \ {r} : ~UnderWay(p)'
    BY <1>16, <2>3 DEF UnderWay
  <2>6. round'[r].todo \subseteq All'
    BY <1>13, <1>16, <1>19, <2>3
  <2>7. All \subseteq Targets
    BY AllTargets DEF IInv
  <2>8. ASSUME NEW s \in Status, s # x PROVE Seen(r, s)' = Seen(r, s)
    BY <1>5, <1>7, <1>13, <1>16, <1>19, <2>7, <2>8 DEF Seen, IInv, TypeInv
  <2>9. Seen(r, x)' = Seen(r, x) \cup {t} /\ t \notin Seen(r, x)
    BY <1>5, <1>7, <1>13, <1>16, <1>19, <2>3, <2>7 DEF Seen, IInv, TypeInv
  <2>10. Cardinality(Seen(r, x)') = Cardinality(Seen(r, x)) + 1
    BY <2>9, SeenFinite, FS_AddElement DEF IInv
  <2>11. \A s \in Status : round'[r].summary[s] = Cardinality(Seen(r, s)')
    BY <1>6, <1>10, <1>13, <1>16, <2>3, <2>4, <2>8, <2>10
  <2> QED
    BY <2>1, <2>5, <2>6, <2>11 DEF Counted
<1>21. \A q \in Rounds : Counted(q)'
  BY <1>20 DEF Counted
<1>22. \A q \in Rounds : Legal(round'[q])
  BY <1>15, <1>16 DEF IInv
<1> QED
  BY <1>18, <1>21, <1>22 DEF IInv, Legal

LEMMA SaveResultInv == ASSUME IInv, NEW r \in Rounds, SaveResult(r) PROVE IInv'
<1>1. CASE ~Exists(NextTarget(r))
  BY <1>1, RestingType, RestingLegal, MovesOn DEF SaveResult
<1> QED
  BY <1>1, SavedInv

\* A user's step: what is left to show is that rows have their types.
LEMMA TouchIInv ==
    ASSUME IInv, Touch,
           inst' \in [Ids -> Rows \cup {Gone}],
           shown' \in [Targets -> Status \cup {Gone}],
           \A t \in Targets : shown'[t] # Gone => inst'[t[1]] # Gone,
           malformed' \subseteq Targets, \A t \in malformed' : shown'[t] # Gone,
           form' \in FormType \cup {NoForm},
           edits' \in 0..MaxEdits
    PROVE  IInv'
  BY TouchInv DEF IInv, TypeInv, Exists, Legal

LEMMA CreateInstanceInv == ASSUME IInv, NEW i \in Ids, CreateInstance(i) PROVE IInv'
<1>1. PICK w \in Rows : inst' = [inst EXCEPT ![i] = w]
  BY DEF CreateInstance
<1>2. w # Gone /\ Instance(i) \in Targets /\ Instance(i)[1] = i
  BY TargetParts, ConnectionsAssumption DEF Instance
<1>3. inst' \in [Ids -> Rows \cup {Gone}] /\ \A j \in Ids : inst[j] # Gone => inst'[j] # Gone
  BY <1>1, <1>2 DEF IInv, TypeInv
<1>4. shown' = [shown EXCEPT ![Instance(i)] = "unknown"]
  BY DEF CreateInstance
<1>5. shown' \in [Targets -> Status \cup {Gone}]
  BY <1>4 DEF IInv, TypeInv, Status
<1>6. ASSUME NEW t \in Targets, shown'[t] # Gone PROVE inst'[t[1]] # Gone
  <2>1. CASE t = Instance(i)
    BY <1>1, <1>2, <2>1 DEF IInv, TypeInv
  <2>2. CASE t # Instance(i)
    BY <1>3, <1>4, <1>6, <2>2, TargetParts DEF IInv, TypeInv, Exists
  <2> QED
    BY <2>1, <2>2
<1>7. edits' \in 0..MaxEdits /\ form' = form /\ Touch
  BY ConnectionsAssumption DEF CreateInstance, IInv, TypeInv
<1>8. malformed' \subseteq Targets /\ \A t \in malformed' : shown'[t] # Gone
  <2>1. malformed' \subseteq malformed \cup {Instance(i)}
    BY DEF CreateInstance, StoreAddress
  <2>2. \A t \in Targets : shown[t] # Gone => shown'[t] # Gone
    BY <1>4, ConnectionsAssumption DEF Status, IInv, TypeInv
  <2>3. shown'[Instance(i)] # Gone
    BY <1>2, <1>4, ConnectionsAssumption DEF Status, IInv, TypeInv
  <2> QED
    BY <1>2, <2>1, <2>2, <2>3 DEF IInv, TypeInv, Exists
<1> QED
  BY <1>3, <1>5, <1>6, <1>7, <1>8, TouchIInv DEF IInv, TypeInv

LEMMA CreateNodeInv == ASSUME IInv, NEW t \in Targets, CreateNode(t) PROVE IInv'
<1>1. shown' = [shown EXCEPT ![t] = "unknown"] /\ inst[t[1]] # Gone /\ inst' = inst
  BY DEF CreateNode
<1>2. shown' \in [Targets -> Status \cup {Gone}]
  BY <1>1 DEF IInv, TypeInv, Status
<1>3. \A u \in Targets : shown'[u] # Gone => inst'[u[1]] # Gone
  BY <1>1 DEF IInv, TypeInv, Exists
<1>4. edits' \in 0..MaxEdits /\ form' = form /\ Touch
  BY ConnectionsAssumption DEF CreateNode, IInv, TypeInv
<1>5. malformed' \subseteq Targets /\ \A u \in malformed' : shown'[u] # Gone
  <2>1. malformed' \subseteq malformed \cup {t}
    BY DEF CreateNode, StoreAddress
  <2>2. \A u \in Targets : shown[u] # Gone \/ u = t => shown'[u] # Gone
    BY <1>1, ConnectionsAssumption DEF Status, IInv, TypeInv
  <2> QED
    BY <2>1, <2>2 DEF IInv, TypeInv, Exists
<1> QED
  BY <1>1, <1>2, <1>3, <1>4, <1>5, TouchIInv DEF IInv, TypeInv

LEMMA LoadFormInv == ASSUME IInv, NEW t \in Targets, LoadForm(t) PROVE IInv'
<1>1. form' \in FormType
  BY DEF LoadForm, IInv, TypeInv, Exists, FormType
<1>2. edits' \in 0..MaxEdits /\ UNCHANGED <<inst, shown, malformed, round>>
  BY ConnectionsAssumption DEF LoadForm, IInv, TypeInv
<1>3. TypeInv'
  BY <1>1, <1>2 DEF IInv, TypeInv, Exists
<1>4. All' = All
  BY <1>2 DEF All, Listed, Probed, NodesOf, Exists
<1>5. \A r \in Rounds, s \in Status : Seen(r, s)' = Seen(r, s)
  BY <1>2, <1>4 DEF Seen
<1>6. \A r \in Rounds : Counted(r)'
  BY <1>2, <1>4, <1>5 DEF IInv, Counted, UnderWay
<1> QED
  BY <1>2, <1>3, <1>6 DEF IInv, Legal

LEMMA SaveFormInv == ASSUME IInv, SaveForm PROVE IInv'
<1>1. PICK t : t = form.target
  OBVIOUS
<1>2. PICK x : x = form.shown
  OBVIOUS
<1>3. t \in Targets /\ x \in Status
  BY <1>1, <1>2 DEF SaveForm, IInv, TypeInv, FormType
<1>4. t[1] \in Ids
  BY <1>3, TargetParts
<1>5. /\ inst' = inst \/ \E w \in Rows : inst' = [inst EXCEPT ![t[1]] = w]
      /\ shown' = IF inst'[t[1]] # Gone THEN [shown EXCEPT ![t] = x] ELSE shown
      /\ malformed' \subseteq malformed \cup (IF inst'[t[1]] # Gone THEN {t} ELSE {})
  BY <1>1, <1>2 DEF SaveForm, StoreAddress
<1>6. inst' \in [Ids -> Rows \cup {Gone}] /\ \A j \in Ids : inst[j] # Gone => inst'[j] # Gone
  BY <1>4, <1>5, ConnectionsAssumption DEF IInv, TypeInv
<1>7. shown' \in [Targets -> Status \cup {Gone}]
  BY <1>3, <1>5 DEF IInv, TypeInv
<1>8. ASSUME NEW u \in Targets, shown'[u] # Gone PROVE inst'[u[1]] # Gone
  <2>1. CASE u = t /\ inst'[t[1]] # Gone
    BY <2>1
  <2>2. CASE ~(u = t /\ inst'[t[1]] # Gone)
    <3>1. shown'[u] = shown[u]
      BY <1>3, <1>5, <2>2 DEF IInv, TypeInv
    <3> QED
      BY <1>6, <1>8, <3>1, TargetParts DEF IInv, TypeInv, Exists
  <2> QED
    BY <2>1, <2>2
<1>9. edits' = edits /\ form' = NoForm /\ Touch
  BY DEF SaveForm
<1>10. malformed' \subseteq Targets /\ \A u \in malformed' : shown'[u] # Gone
  <2>1. x # Gone
    BY <1>3, ConnectionsAssumption
  <2>2. \A u \in Targets : shown[u] # Gone => shown'[u] # Gone
    BY <1>5, <2>1 DEF IInv, TypeInv
  <2>3. inst'[t[1]] # Gone => shown'[t] # Gone
    BY <1>3, <1>5, <2>1 DEF IInv, TypeInv
  <2> QED
    BY <1>3, <1>5, <2>2, <2>3 DEF IInv, TypeInv, Exists
<1> QED
  BY <1>6, <1>7, <1>8, <1>9, <1>10, TouchIInv DEF IInv, TypeInv

LEMMA DeleteInv == ASSUME IInv, NEW t \in Targets, Delete(t) PROVE IInv'
<1>1. t[1] \in Ids /\ t[2] \in Nat
  BY TargetParts
<1>2. /\ inst' = IF t[2] = 0 THEN [inst EXCEPT ![t[1]] = Gone] ELSE inst
      /\ shown' = [u \in Targets |-> IF u = t \/ (t[2] = 0 /\ u[1] = t[1]) THEN Gone ELSE shown[u]]
  BY DEF Delete
<1>3. inst' \in [Ids -> Rows \cup {Gone}]
  BY <1>1, <1>2 DEF IInv, TypeInv
<1>4. shown' \in [Targets -> Status \cup {Gone}]
  BY <1>2 DEF IInv, TypeInv
<1>5. ASSUME NEW u \in Targets, shown'[u] # Gone PROVE inst'[u[1]] # Gone
  <2>1. shown[u] # Gone /\ ~(t[2] = 0 /\ u[1] = t[1])
    BY <1>2, <1>5
  <2>2. inst'[u[1]] = inst[u[1]]
    BY <1>1, <1>2, <2>1, TargetParts DEF IInv, TypeInv
  <2> QED
    BY <2>1, <2>2 DEF IInv, TypeInv, Exists
<1>6. edits' \in 0..MaxEdits /\ form' = form /\ Touch
  BY ConnectionsAssumption DEF Delete, IInv, TypeInv
<1>7. malformed' \subseteq Targets /\ \A u \in malformed' : shown'[u] # Gone
  BY DEF Delete, IInv, TypeInv
<1> QED
  BY <1>3, <1>4, <1>5, <1>6, <1>7, TouchIInv DEF IInv, TypeInv

LEMMA StepIInv == IInv /\ [Next]_vars => IInv'
<1> SUFFICES ASSUME IInv, [Next]_vars PROVE IInv'
  OBVIOUS
<1>1. ASSUME NEW r \in Rounds, BeginRound(r) \/ Contact(r) \/ SaveResult(r) \/ EndRound(r)
      PROVE  IInv'
  BY <1>1, BeginRoundInv, ContactInv, SaveResultInv, EndRoundInv
<1>2. ASSUME NEW i \in Ids, CreateInstance(i) PROVE IInv'
  BY <1>2, CreateInstanceInv
<1>3. ASSUME NEW t \in Targets, CreateNode(t) \/ LoadForm(t) \/ Delete(t) PROVE IInv'
  BY <1>3, CreateNodeInv, LoadFormInv, DeleteInv
<1>4. CASE SaveForm
  BY <1>4, SaveFormInv
<1>5. CASE UNCHANGED vars
  <2>1. UNCHANGED <<inst, shown, malformed, form, edits, round>>
    BY <1>5 DEF vars
  <2>2. All' = All
    BY <2>1 DEF All, Listed, Probed, NodesOf, Exists
  <2>3. \A r \in Rounds, s \in Status : Seen(r, s)' = Seen(r, s)
    BY <2>1, <2>2 DEF Seen
  <2>4. \A r \in Rounds : Counted(r)'
    BY <2>1, <2>2, <2>3 DEF IInv, Counted, UnderWay
  <2> QED
    BY <2>1, <2>4 DEF IInv, TypeInv, Exists, Legal
<1> QED
  BY <1>1, <1>2, <1>3, <1>4, <1>5 DEF Next

--------------------------------------------------------------------------------
(* The probe: theorems *)

LEMMA TypeInvImpliesTypeOK == IInv => TypeOK
<1> SUFFICES ASSUME IInv PROVE TypeOK
  OBVIOUS
<1>1. form.target \in Targets \cup {NoForm.target} /\ form.shown \in Status \cup {Gone}
  BY DEF IInv, TypeInv, FormType, NoForm
<1>2. ASSUME NEW r \in Rounds
      PROVE  /\ round[r].pc \in {"resting", "probing", "saving", "done"}
             /\ round[r].maintained \subseteq Ids
             /\ round[r].unusable \subseteq Targets /\ round[r].todo \subseteq Targets
             /\ round[r].result \in Status
             /\ round[r].summary \in [Status -> 0..Cardinality(Targets)]
             /\ round[r].clean \in BOOLEAN
  <2>1. round[r] \in RoundType
    BY DEF IInv, TypeInv
  <2>2. Cardinality(Targets) \in Nat
    BY TargetsFinite, FS_CardinalityType
  <2>3. \A s \in Status : round[r].summary[s] \in 0..Cardinality(Targets)
    <3>1. CASE Tracked(round[r])
      BY <3>1, <2>2, SeenFinite DEF IInv, Counted
    <3>2. CASE ~Tracked(round[r])
      BY <3>2, <2>2 DEF IInv, Legal, Zero
    <3> QED
      BY <3>1, <3>2
  <2> QED
    BY <2>1, <2>3 DEF RoundType, RoundPcs
<1> QED
  BY <1>1, <1>2 DEF IInv, TypeInv, TypeOK

LEMMA DisjointUnion ==
    ASSUME NEW A, NEW B, IsFiniteSet(A), IsFiniteSet(B), A \cap B = {}
    PROVE  IsFiniteSet(A \cup B) /\ Cardinality(A \cup B) = Cardinality(A) + Cardinality(B)
<1>1. Cardinality(A) \in Nat /\ Cardinality(B) \in Nat /\ Cardinality(A \cap B) = 0
  BY FS_EmptySet, FS_CardinalityType
<1>2. /\ IsFiniteSet(A \cup B)
      /\ Cardinality(A \cup B) = Cardinality(A) + Cardinality(B) - Cardinality(A \cap B)
  BY FS_Union, Zenon
<1> QED
  BY <1>1, <1>2

\* A set of rows is counted engine by engine.
LEMMA CountedByEngine ==
    ASSUME NEW S \in SUBSET Targets
    PROVE  Cardinality(S) =   Cardinality({t \in S : EngineOf[t[1]] = "mysql"})
                            + Cardinality({t \in S : EngineOf[t[1]] = "postgresql"})
                            + Cardinality({t \in S : EngineOf[t[1]] = "oracle"})
                            + Cardinality({t \in S : EngineOf[t[1]] = "mssql"})
<1> DEFINE Of(e) == {t \in S : EngineOf[t[1]] = e}
<1>1. \A e : IsFiniteSet(Of(e)) /\ Cardinality(Of(e)) \in Nat
  BY TargetsFinite, FS_Subset, FS_CardinalityType
<1>2. S = ((Of("mysql") \cup Of("postgresql")) \cup Of("oracle")) \cup Of("mssql")
  BY TargetParts, ConnectionsAssumption DEF Engines
<1>3. /\ Of("mysql") \cap Of("postgresql") = {}
      /\ (Of("mysql") \cup Of("postgresql")) \cap Of("oracle") = {}
      /\ ((Of("mysql") \cup Of("postgresql")) \cup Of("oracle")) \cap Of("mssql") = {}
  OBVIOUS
<1> HIDE DEF Of
<1>4. PICK my, pg, ora, ms :
        my = Of("mysql") /\ pg = Of("postgresql") /\ ora = Of("oracle") /\ ms = Of("mssql")
  OBVIOUS
<1>5. /\ IsFiniteSet(my \cup pg)
      /\ Cardinality(my \cup pg) = Cardinality(my) + Cardinality(pg)
  BY <1>1, <1>3, <1>4, DisjointUnion
<1>6. /\ IsFiniteSet((my \cup pg) \cup ora)
      /\ Cardinality((my \cup pg) \cup ora) = Cardinality(my \cup pg) + Cardinality(ora)
  BY <1>1, <1>3, <1>4, <1>5, DisjointUnion
<1>7. Cardinality(((my \cup pg) \cup ora) \cup ms)
        = Cardinality((my \cup pg) \cup ora) + Cardinality(ms)
  BY <1>1, <1>3, <1>4, <1>6, DisjointUnion
<1>8. Cardinality(S) = Cardinality(my) + Cardinality(pg) + Cardinality(ora) + Cardinality(ms)
  BY <1>2, <1>4, <1>5, <1>6, <1>7
<1> QED
  BY <1>4, <1>8 DEF Of

LEMMA IInvImpliesSummaryAgrees == IInv => SummaryAgrees
<1> SUFFICES ASSUME IInv, NEW r \in Rounds, round[r].pc = "done"
             PROVE  round[r].summary = Overall
  BY DEF SummaryAgrees
<1>1. Tracked(round[r]) /\ round[r].todo = {}
  BY DEF IInv, Legal, Tracked
<1>2. \A i : CountedOf(i) = Probed(i)
  BY DEF CountedOf, Probed
<1>3. All = UNION {CountedOf(i) : i \in Listed}
  BY <1>2 DEF All
<1>4. ASSUME NEW s \in Status PROVE round[r].summary[s] = Overall[s]
  <2>1. round[r].summary[s] = Cardinality(Seen(r, s))
    BY <1>1 DEF IInv, Counted
  <2>2. Seen(r, s) \in SUBSET Targets
    BY AllTargets DEF IInv, Seen
  <2>3. \A e : {t \in Seen(r, s) : EngineOf[t[1]] = e} = {t \in All : EngineOf[t[1]] = e /\ shown[t] = s}
    BY <1>1 DEF Seen
  <2>4. \A e : EngineSummary(e)[s] = Cardinality({t \in Seen(r, s) : EngineOf[t[1]] = e})
    BY <1>3, <2>3 DEF EngineSummary
  <2>5. Cardinality(Seen(r, s)) =   Cardinality({t \in Seen(r, s) : EngineOf[t[1]] = "mysql"})
                                  + Cardinality({t \in Seen(r, s) : EngineOf[t[1]] = "postgresql"})
                                  + Cardinality({t \in Seen(r, s) : EngineOf[t[1]] = "oracle"})
                                  + Cardinality({t \in Seen(r, s) : EngineOf[t[1]] = "mssql"})
    BY <2>2, CountedByEngine
  <2>6. Overall[s] = EngineSummary("mysql")[s] + EngineSummary("postgresql")[s]
                     + EngineSummary("oracle")[s] + EngineSummary("mssql")[s]
    BY DEF Overall
  <2> QED
    BY <2>1, <2>4, <2>5, <2>6
<1>5. round[r].summary \in [Status -> Nat]
  BY DEF IInv, TypeInv, RoundType
<1> QED
  BY <1>4, <1>5 DEF Overall

--------------------------------------------------------------------------------
(* The terminal: types *)

\* What the rest needs of the types; the queue's order plays no part in it.
SessionsTyped ==
    /\ handler \in [Sessions -> {"new", "waiting", "announcing", "open", "failed", "rejected",
                                 "cancelled", "over"}]
    /\ ssh \in [Sessions -> {"none", "open", "closed"}]
    /\ chan \in [Sessions -> {"none", "open", "eof", "closed"}]
    /\ thread \in [Sessions -> {"none", "login", "reader"}]

QueueTyped == queue \in Seq(Sessions)

SetsTyped ==
    left \subseteq Sessions /\ running \subseteq Sessions
    /\ told \subseteq Sessions /\ shellless \subseteq Sessions

LEMMA StepSessionsTyped == SessionsTyped /\ [T!Next]_terminalVars => SessionsTyped'
<1> SUFFICES ASSUME SessionsTyped, [T!Next]_terminalVars PROVE SessionsTyped'
  OBVIOUS
<1> USE DEF SessionsTyped, T!Goto
<1>1. CASE T!StartThread
  BY <1>1 DEF T!StartThread
<1>2. ASSUME NEW s \in Sessions, T!Reject(s) \/ T!Accept(s) \/ T!Announce(s) \/ T!Cancel(s)
      PROVE SessionsTyped'
  BY <1>2 DEF T!Reject, T!Accept, T!Announce, T!Cancel
<1>3. ASSUME NEW s \in Sessions, T!LoginSucceeds(s) \/ T!LoginFails(s) PROVE SessionsTyped'
  BY <1>3 DEF T!LoginSucceeds, T!LoginFails
<1>4. ASSUME NEW s \in Sessions, T!EndReader(s) \/ T!ShellExits(s) \/ T!Leave(s)
      PROVE SessionsTyped'
  BY <1>4 DEF T!EndReader, T!ShellExits, T!Leave
<1>5. ASSUME NEW s \in Sessions, T!Disconnect(s) PROVE SessionsTyped'
  BY <1>5 DEF T!Disconnect, T!CloseAll
<1>6. CASE UNCHANGED terminalVars
  BY <1>6 DEF terminalVars
<1> QED
  BY <1>1, <1>2, <1>3, <1>4, <1>5, <1>6 DEF T!Next

\* Sessions join the queue at its end, and leave it from its head or, when
\* their consumer is cancelled, from wherever they wait.
LEMMA StepQueueTyped == QueueTyped /\ [T!Next]_terminalVars => QueueTyped'
<1> SUFFICES ASSUME QueueTyped, [T!Next]_terminalVars PROVE QueueTyped'
  OBVIOUS
<1> USE DEF QueueTyped
<1>1. CASE T!StartThread
  BY <1>1, HeadTailProperties DEF T!StartThread
<1>2. ASSUME NEW s \in Sessions, T!Accept(s) \/ T!Announce(s) PROVE QueueTyped'
  BY <1>2, AppendProperties DEF T!Accept, T!Announce
<1>3. ASSUME NEW s \in Sessions, T!Cancel(s) PROVE QueueTyped'
  <2>1. CASE ~T!Queued(s)
    BY <1>3, <2>1 DEF T!Cancel
  <2>2. CASE T!Queued(s)
    <3>1. PICK n : n = CHOOSE m \in 1..Len(queue) : queue[m] = s
      OBVIOUS
    <3>2. n \in 1..Len(queue)
      BY <2>2, <3>1 DEF T!Queued
    <3>3. queue' = SubSeq(queue, 1, n - 1) \o SubSeq(queue, n + 1, Len(queue))
      BY <1>3, <2>2, <3>1 DEF T!Cancel, T!Without
    <3>4. /\ SubSeq(queue, 1, n - 1) \in Seq(Sessions)
          /\ SubSeq(queue, n + 1, Len(queue)) \in Seq(Sessions)
      BY <3>2
    <3> QED
      BY <3>3, <3>4, ConcatProperties
  <2> QED
    BY <2>1, <2>2
<1>4. ASSUME NEW s \in Sessions,
             T!Reject(s) \/ T!LoginSucceeds(s) \/ T!LoginFails(s) \/ T!EndReader(s)
             \/ T!ShellExits(s) \/ T!Leave(s) \/ T!Disconnect(s)
      PROVE  QueueTyped'
  BY <1>4 DEF T!Reject, T!LoginSucceeds, T!LoginFails, T!EndReader, T!ShellExits, T!Leave,
              T!Disconnect
<1>5. CASE UNCHANGED terminalVars
  BY <1>5 DEF terminalVars
<1> QED
  BY <1>1, <1>2, <1>3, <1>4, <1>5 DEF T!Next

LEMMA StepSetsTyped == SetsTyped /\ [T!Next]_terminalVars => SetsTyped'
<1> SUFFICES ASSUME SetsTyped, [T!Next]_terminalVars PROVE SetsTyped'
  OBVIOUS
<1> USE DEF SetsTyped
<1>1. CASE T!StartThread
  BY <1>1 DEF T!StartThread
<1>2. ASSUME NEW s \in Sessions,
             T!Reject(s) \/ T!Accept(s) \/ T!LoginSucceeds(s) \/ T!Cancel(s) \/ T!ShellExits(s)
      PROVE  SetsTyped'
  BY <1>2 DEF T!Reject, T!Accept, T!LoginSucceeds, T!Cancel, T!ShellExits
<1>3. ASSUME NEW s \in Sessions, T!LoginFails(s) PROVE SetsTyped'
  BY <1>3 DEF T!LoginFails
<1>4. ASSUME NEW s \in Sessions, T!Announce(s) PROVE SetsTyped'
  BY <1>4 DEF T!Announce
<1>5. ASSUME NEW s \in Sessions, T!EndReader(s) PROVE SetsTyped'
  BY <1>5 DEF T!EndReader
<1>6. ASSUME NEW s \in Sessions, T!Leave(s) \/ T!Disconnect(s) PROVE SetsTyped'
  BY <1>6 DEF T!Leave, T!Disconnect
<1>7. CASE UNCHANGED terminalVars
  BY <1>7 DEF terminalVars
<1> QED
  BY <1>1, <1>2, <1>3, <1>4, <1>5, <1>6, <1>7 DEF T!Next

--------------------------------------------------------------------------------
(* The terminal: what is connected *)

\* Nothing is connected before the login is done, which only a consumer that
\* waits, or waited, for it can have running.
BeforeLogin(s) ==
    /\ handler[s] \in {"new", "waiting", "rejected"} => ssh[s] = "none" /\ chan[s] = "none"
    /\ thread[s] = "login" => handler[s] \in {"waiting", "cancelled"}

\* A consumer that got its connection knows the channel, so that disconnect()
\* closes both; one that failed left open at most what only the login knew.
AfterLogin(s) ==
    /\ handler[s] \in {"announcing", "open"} => chan[s] # "none"
    /\ handler[s] = "failed" => chan[s] = "none"
    /\ handler[s] \in {"failed", "over"} /\ ssh[s] = "open" => s \in shellless

Closes == \A s \in Sessions : BeforeLogin(s) /\ AfterLogin(s)

\* One step per action; each disturbs at most the session that takes it.
LEMMA StepCloses == SessionsTyped /\ Closes /\ [T!Next]_terminalVars => Closes'
<1> SUFFICES ASSUME SessionsTyped, Closes, [T!Next]_terminalVars, NEW s \in Sessions
             PROVE  BeforeLogin(s)' /\ AfterLogin(s)'
  BY DEF Closes
<1> USE DEF SessionsTyped, Closes, T!Goto, BeforeLogin, AfterLogin
<1>1. CASE T!StartThread
  BY <1>1 DEF T!StartThread
<1>2. ASSUME NEW t \in Sessions, T!Reject(t) \/ T!Accept(t)
      PROVE  BeforeLogin(s)' /\ AfterLogin(s)'
  BY <1>2 DEF T!Reject, T!Accept
<1>3. ASSUME NEW t \in Sessions, T!LoginSucceeds(t) PROVE BeforeLogin(s)' /\ AfterLogin(s)'
  <2>1. CASE handler[t] = "waiting"
    BY <1>3, <2>1 DEF T!LoginSucceeds
  <2>2. CASE handler[t] = "cancelled"
    BY <1>3, <2>2 DEF T!LoginSucceeds
  <2> QED
    BY <1>3, <2>1, <2>2 DEF T!LoginSucceeds
<1>4. ASSUME NEW t \in Sessions, T!LoginFails(t) PROVE BeforeLogin(s)' /\ AfterLogin(s)'
  <2>1. CASE handler[t] = "waiting"
    BY <1>4, <2>1 DEF T!LoginFails
  <2>2. CASE handler[t] = "cancelled"
    BY <1>4, <2>2 DEF T!LoginFails
  <2> QED
    BY <1>4, <2>1, <2>2 DEF T!LoginFails
<1>5. ASSUME NEW t \in Sessions, T!Announce(t) \/ T!Cancel(t)
      PROVE  BeforeLogin(s)' /\ AfterLogin(s)'
  BY <1>5 DEF T!Announce, T!Cancel, T!InConnect
<1>6. ASSUME NEW t \in Sessions, T!EndReader(t) \/ T!ShellExits(t) \/ T!Leave(t)
      PROVE  BeforeLogin(s)' /\ AfterLogin(s)'
  BY <1>6 DEF T!EndReader, T!ShellExits, T!Leave
<1>7. ASSUME NEW t \in Sessions, T!Disconnect(t) PROVE BeforeLogin(s)' /\ AfterLogin(s)'
  BY <1>7 DEF T!Disconnect, T!CloseAll
<1>8. CASE UNCHANGED terminalVars
  BY <1>8 DEF terminalVars
<1> QED
  BY <1>1, <1>2, <1>3, <1>4, <1>5, <1>6, <1>7, <1>8 DEF T!Next

TInv == SessionsTyped /\ QueueTyped /\ SetsTyped /\ Closes

LEMMA InitTInv == T!Init => TInv
<1> SUFFICES ASSUME T!Init PROVE TInv
  OBVIOUS
<1>1. SessionsTyped /\ SetsTyped
  BY DEF T!Init, SessionsTyped, SetsTyped
<1>2. QueueTyped
  BY EmptySeq DEF T!Init, QueueTyped
<1>3. Closes
  BY DEF T!Init, Closes, BeforeLogin, AfterLogin
<1> QED
  BY <1>1, <1>2, <1>3 DEF TInv

LEMMA StepTInv == TInv /\ [T!Next]_terminalVars => TInv'
  BY StepSessionsTyped, StepQueueTyped, StepSetsTyped, StepCloses DEF TInv

--------------------------------------------------------------------------------
(* Both parts *)

\* A step of the whole is a step of each part or leaves it alone.
LEMMA Apart == [MCNext]_<<area, vars, terminalVars>> => [Next]_vars /\ [T!Next]_terminalVars
  BY DEF MCNext

LEMMA BothInvariants == MCSpec => [](IInv /\ TInv)
<1>1. MCInit => IInv /\ TInv
  BY InitIInv, InitTInv DEF MCInit
<1>2. IInv /\ TInv /\ [MCNext]_<<area, vars, terminalVars>> => (IInv /\ TInv)'
  BY Apart, StepIInv, StepTInv
<1> QED
  BY <1>1, <1>2, PTL DEF MCSpec

\* Rows, forms, rounds and dashboards, and the sessions, threads and queue of
\* the terminal, have their types (probe_services.py, services.py and
\* consumers.py); no row of a deploy host outlives its instance.
THEOREM ConnectionTypes == MCSpec => []RowsTyped
<1>1. IInv /\ TInv => RowsTyped
  BY TypeInvImpliesTypeOK DEF TInv, RowsTyped, T!TypeOK, SessionsTyped, QueueTyped, SetsTyped
<1> QED
  BY BothInvariants, <1>1, PTL

\* However rounds, edits and deletions interleave, the summary of a round that
\* nobody disturbed is what the dashboard shows next: a round counts each row
\* as it saves it, the dashboard counts them afterwards, engine by engine
\* (probe_all_instances and build_dashboard_data).
THEOREM DashboardAgrees == MCSpec => []SummaryAgrees
  BY BothInvariants, IInvImpliesSummaryAgrees, PTL

\* Whatever order logins, readers, cancellations and disconnects come in, a
\* session that is over has no SSH connection left, save the one whose shell
\* was refused (consumers.py, _connect_ssh and disconnect).
THEOREM NoOrphan == MCSpec => []NoOrphanConnection
<1>1. TInv => NoOrphanConnection
  BY DEF TInv, Closes, AfterLogin, NoOrphanConnection, T!NoOrphanConnection
<1> QED
  BY BothInvariants, <1>1, PTL
================================================================================
