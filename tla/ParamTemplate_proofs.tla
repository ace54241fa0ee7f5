-------------------------- MODULE ParamTemplate_proofs --------------------------
(***************************************************************************)
(* Theorems about ParamTemplate, for any number of templates, saves and     *)
(* major versions.                                                          *)
(***************************************************************************)
EXTENDS ParamTemplate, FiniteSetTheorems, WellFoundedInduction, TLAPS

--------------------------------------------------------------------------------
(* Inductive invariants *)

SaveState == [pc : {"idle", "clearing", "written"}, id : Nat, row : Rows \cup {None},
              scan : SUBSET Ids, clear : SUBSET Ids]
LoadState == [pc : {"idle", "asked", "counted", "found", "applied"}, major : Majors \cup {None},
              id : Nat, found : Majors \cup {None}, items : Nat]

Typed ==
    /\ template \in [Ids -> Rows \cup {None}]
    /\ save \in [Savers -> SaveState]
    /\ load \in LoadState
    /\ \A s \in Savers : /\ save[s].pc # "idle" => save[s].row \in Rows
                         /\ save[s].pc = "written" => save[s].scan = {}

Defaults(major) == {n \in Present : template[n].default /\ template[n].major = major}
Single(major) == \A x, y \in Defaults(major) : x = y

\* One save at a time makes a default of a major version.
Alone(major) == \A s, t \in Savers : MakesDefault(s, major) /\ MakesDefault(t, major) => s = t

\* It has cleared every other default that there is, or has yet to look at it.
Covers(s, major) == MakesDefault(s, major) =>
    \A n \in Defaults(major) : n = save[s].id \/ n \in save[s].scan \cup save[s].clear

DefaultInv == \A major \in Majors \ rival :
    Single(major) /\ Alone(major) /\ \A s \in Savers : Covers(s, major)

\* What a load has found is there, until somebody overtakes it.
LoadInv == load.pc \in {"found", "applied"} /\ ~overtaken =>
    /\ load.id \in Present
    /\ template[load.id].enabled
    /\ template[load.id].major = load.found
    /\ load.pc = "applied" => load.found = load.major /\ template[load.id].items = load.items

--------------------------------------------------------------------------------
(* Defaults *)

\* The first of a set of ids is one of them, and before the others.
LEMMA FirstId ==
    ASSUME NEW S \in SUBSET Nat, S # {}
    PROVE  Min(S) \in S /\ \A y \in S : Min(S) <= y
<1> DEFINE R == {ss \in Nat \X Nat : ss[1] < ss[2]}
<1>1. IsWellFoundedOn(R, Nat)
  BY NatLessThanWellFounded DEF OpToRel
<1>2. PICK x \in S : \A y \in S : <<y, x>> \notin R
  <2> HIDE DEF R
  <2> QED
    BY <1>1, WFMin
<1>3. \A y \in S : x <= y
  <2> SUFFICES ASSUME NEW y \in S, ~(x <= y) PROVE FALSE
    OBVIOUS
  <2>1. <<y, x>> \in Nat \X Nat /\ y < x
    OBVIOUS
  <2>2. <<y, x>>[1] < <<y, x>>[2]
    BY <2>1
  <2>3. <<y, x>> \in R
    BY <2>1, <2>2, Zenon
  <2> QED
    BY <1>2, <2>3
<1> QED
  BY <1>3 DEF Min

\* So is the template that a title leads to.
LEMMA FirstTitled ==
    ASSUME Titled # {} PROVE Min(Titled) \in Present /\ template[Min(Titled)].enabled
<1>1. Titled \in SUBSET Nat
  BY DEF Titled, Present, Ids
<1>2. Min(Titled) \in Titled
  BY <1>1, FirstId
<1> QED
  BY <1>2 DEF Titled

\* A step that brings no default into being, of a major without rivals, and
\* leaves a save as it is.
LEMMA KeepsSingle ==
    ASSUME NEW major, Single(major), Defaults(major)' \subseteq Defaults(major)
    PROVE  Single(major)'
  BY DEF Single

LEMMA KeepsCovers ==
    ASSUME NEW s, NEW major, Covers(s, major), Defaults(major)' \subseteq Defaults(major),
           save'[s] = save[s]
    PROVE  Covers(s, major)'
  BY DEF Covers, MakesDefault

\* A step by one save, or by none, that brings no default into being.
LEMMA KeepsDefaults ==
    ASSUME DefaultInv, rival \subseteq rival',
           \A major \in Majors : Defaults(major)' \subseteq Defaults(major),
           \A s \in Savers, major \in Majors \ rival' :
               /\ MakesDefault(s, major)' => MakesDefault(s, major)
               /\ Covers(s, major) => Covers(s, major)'
    PROVE  DefaultInv'
<1> SUFFICES ASSUME NEW major \in Majors \ rival'
             PROVE  Single(major)' /\ Alone(major)' /\ \A s \in Savers : Covers(s, major)'
  BY DEF DefaultInv
<1>1. Single(major) /\ Alone(major) /\ \A s \in Savers : Covers(s, major)
  BY DEF DefaultInv
<1> QED
  BY <1>1, KeepsSingle DEF Alone

\* Templates and saves stay: so does all that is said of defaults.
LEMMA SameDefaults ==
    ASSUME UNCHANGED template
    PROVE  /\ Present' = Present
           /\ \A major : Defaults(major)' = Defaults(major)
  BY DEF Present, Defaults, Ids

LEMMA BeginDefaults ==
    ASSUME Typed, DefaultInv, None \notin Rows, NEW s \in Savers, NEW id \in Nat, NEW row \in Rows,
           BeginSave(s, id, row)
    PROVE  DefaultInv'
<1>1. /\ save[s].pc = "idle" /\ UNCHANGED template
      /\ save' = [save EXCEPT ![s] = [NoSave EXCEPT !.pc = "clearing", !.id = id, !.row = row,
                                                    !.scan = IF row.default THEN Ids \ {id} ELSE {}]]
      /\ rival' = IF row.default /\ \E t \in Savers : MakesDefault(t, row.major)
                  THEN rival \cup {row.major} ELSE rival
  BY DEF BeginSave
<1>2. /\ save'[s].id = id /\ save'[s].row = row
      /\ save'[s].scan = IF row.default THEN Ids \ {id} ELSE {}
      /\ \A t \in Savers \ {s} : save'[t] = save[t]
  BY <1>1 DEF NoSave, Typed
<1> SUFFICES ASSUME NEW major \in Majors \ rival'
             PROVE  Single(major)' /\ Alone(major)' /\ \A t \in Savers : Covers(t, major)'
  BY DEF DefaultInv
<1>3. major \in Majors \ rival /\ Single(major) /\ Alone(major) /\ \A t \in Savers : Covers(t, major)
  BY <1>1 DEF DefaultInv
<1>4. Single(major)' /\ \A t \in Savers \ {s} : Covers(t, major)'
  BY <1>1, <1>2, <1>3, SameDefaults, KeepsSingle, KeepsCovers
<1>5. Covers(s, major)'
  BY <1>1, <1>2, SameDefaults DEF Covers, MakesDefault, Defaults, Present
<1>6. Alone(major)'
  <2>1. \A t \in Savers \ {s} : MakesDefault(t, major)' <=> MakesDefault(t, major)
    BY <1>2 DEF MakesDefault
  <2>2. MakesDefault(s, major)' => row.default /\ row.major = major
    BY <1>2 DEF MakesDefault
  <2>3. MakesDefault(s, major)' => \A t \in Savers : ~MakesDefault(t, major)
    BY <1>1, <2>2
  <2> QED
    BY <1>3, <2>1, <2>3 DEF Alone
<1> QED
  BY <1>4, <1>5, <1>6

\* The rows that a commit leaves: one written, the others at most cleared.
LEMMA Committed ==
    ASSUME Typed, None \notin Rows, NEW s \in Savers, Commit(s)
    PROVE  /\ save[s].pc = "written" /\ save[s].row \in Rows /\ save[s].scan = {}
           /\ save' = [save EXCEPT ![s] = NoSave]
           /\ \A n \in Present' \ {save[s].id} :
                  /\ n \in Present
                  /\ template'[n] = template[n] \/ template'[n] = [template[n] EXCEPT !.default = FALSE]
                  /\ template'[n].default => template'[n] = template[n] /\ n \notin save[s].clear
           /\ save[s].id \in Ids => template'[save[s].id] = save[s].row
           /\ \A n \in Present \ {save[s].id} : n \in Present'
<1>1. /\ save[s].pc = "written"
      /\ template' = [n \in Ids |-> IF n = save[s].id THEN save[s].row
                                    ELSE IF n \in save[s].clear /\ n \in Present
                                         THEN [template[n] EXCEPT !.default = FALSE]
                                    ELSE template[n]]
      /\ save' = [save EXCEPT ![s] = NoSave]
  BY DEF Commit
<1>2. \A n \in Present : template[n] \in Rows
  BY DEF Typed, Present
<1>3. \A n \in Present : [template[n] EXCEPT !.default = FALSE] \in Rows
                         /\ [template[n] EXCEPT !.default = FALSE].default = FALSE
  BY <1>2 DEF Rows
<1> QED
  BY <1>1, <1>2, <1>3 DEF Typed, Present, Ids

LEMMA CommitDefaults ==
    ASSUME Typed, DefaultInv, None \notin Rows, NEW s \in Savers, Commit(s)
    PROVE  DefaultInv'
<1> DEFINE id == save[s].id  row == save[s].row
<1>0. /\ save[s].pc = "written" /\ row \in Rows /\ save[s].scan = {}
      /\ save'[s].pc = "idle"
      /\ \A t \in Savers \ {s} : save'[t] = save[t]
      /\ rival' = rival
  BY Committed DEF Typed, NoSave, Commit
<1> SUFFICES ASSUME NEW major \in Majors \ rival
             PROVE  Single(major)' /\ Alone(major)' /\ \A t \in Savers : Covers(t, major)'
  BY <1>0 DEF DefaultInv
<1>1. Single(major) /\ Alone(major) /\ \A t \in Savers : Covers(t, major)
  BY DEF DefaultInv
<1>2. ~MakesDefault(s, major)' /\ \A t \in Savers \ {s} : MakesDefault(t, major)' <=> MakesDefault(t, major)
  BY <1>0 DEF MakesDefault
<1>3. Alone(major)'
  BY <1>1, <1>2 DEF Alone
<1>4. \A n \in Defaults(major)' :
          \/ n \in Defaults(major) /\ n \notin save[s].clear
          \/ n = id /\ MakesDefault(s, major)
  BY <1>0, Committed, ZenonT(30) DEF Defaults, MakesDefault, Present
<1>5. CASE MakesDefault(s, major)
  <2>1. Defaults(major)' \subseteq {id}
    BY <1>0, <1>1, <1>4, <1>5 DEF Covers
  <2>2. Single(major)'
    BY <2>1 DEF Single
  <2>3. \A t \in Savers : ~MakesDefault(t, major)'
    BY <1>1, <1>2, <1>5 DEF Alone
  <2> QED
    BY <1>3, <2>2, <2>3 DEF Covers
<1>6. CASE ~MakesDefault(s, major)
  <2>1. Defaults(major)' \subseteq Defaults(major)
    BY <1>4, <1>6
  <2>2. \A t \in Savers \ {s} : Covers(t, major)'
    BY <1>0, <1>1, <2>1, KeepsCovers
  <2> QED
    BY <1>1, <1>2, <1>3, <2>1, <2>2, KeepsSingle DEF Covers
<1> QED
  BY <1>5, <1>6

LEMMA StepDefaults ==
    ASSUME None \notin Rows
    PROVE  Typed /\ DefaultInv /\ [Next]_vars => DefaultInv'
<1> SUFFICES ASSUME Typed, DefaultInv, [Next]_vars PROVE DefaultInv'
  OBVIOUS
<1>1. ASSUME NEW s \in Savers, Create(s) \/ Update(s) PROVE DefaultInv'
  <2>1. PICK id \in Nat, row \in Rows : BeginSave(s, id, row)
    BY <1>1 DEF Create, Update, Present, Ids
  <2> QED
    BY <2>1, BeginDefaults
<1>2. ASSUME NEW s \in Savers, ClearDefault(s) PROVE DefaultInv'
  <2> DEFINE n == Min(save[s].scan)  matches == n \in Rivals(s)
  <2>1. /\ save' = [save EXCEPT ![s].scan = @ \ {n},
                                ![s].clear = IF matches THEN @ \cup {n} ELSE @]
        /\ UNCHANGED <<template, rival>>
    BY <1>2 DEF ClearDefault
  <2> HIDE DEF n
  <2>2. /\ save'[s].scan = save[s].scan \ {n}
        /\ save'[s].clear = IF matches THEN save[s].clear \cup {n} ELSE save[s].clear
        /\ save'[s].pc = save[s].pc /\ save'[s].id = save[s].id /\ save'[s].row = save[s].row
        /\ \A t \in Savers \ {s} : save'[t] = save[t]
    BY <2>1 DEF Typed, SaveState
  <2>3. \A t \in Savers, major \in Majors : MakesDefault(t, major)' <=> MakesDefault(t, major)
    BY <2>2 DEF MakesDefault
  <2>4. \A major \in Majors : MakesDefault(s, major) => Rivals(s) = Defaults(major)
    BY DEF MakesDefault, Rivals, Defaults
  <2>5. \A major \in Majors : Covers(s, major) => Covers(s, major)'
    <3> SUFFICES ASSUME NEW major \in Majors, Covers(s, major), MakesDefault(s, major)',
                        NEW m \in Defaults(major)'
                 PROVE  m = save'[s].id \/ m \in save'[s].scan \cup save'[s].clear
      BY DEF Covers
    <3>1. m \in Defaults(major) /\ MakesDefault(s, major)
      BY <2>1, <2>3, SameDefaults
    <3>2. m \in Rivals(s)
      BY <2>4, <3>1
    <3>3. m = save[s].id \/ m \in save[s].scan \cup save[s].clear
      BY <3>1 DEF Covers
    <3> QED
      BY <2>2, <3>2, <3>3
  <2>6. \A t \in Savers \ {s}, major \in Majors : Covers(t, major) => Covers(t, major)'
    BY <2>1, <2>2, SameDefaults, KeepsCovers
  <2> QED
    BY <2>1, <2>3, <2>5, <2>6, SameDefaults, KeepsDefaults
<1>3. ASSUME NEW s \in Savers, WriteTemplate(s) PROVE DefaultInv'
  <2>1. PICK id \in Ids :
            /\ save[s].id = 0 \/ save[s].id = id
            /\ save[s].pc = "clearing"
            /\ save' = [save EXCEPT ![s].pc = "written", ![s].id = id]
            /\ UNCHANGED <<template, rival>>
    BY <1>3 DEF WriteTemplate
  <2>2. /\ save'[s].scan = save[s].scan /\ save'[s].clear = save[s].clear
        /\ save'[s].pc = "written" /\ save'[s].id = id /\ save'[s].row = save[s].row
        /\ \A t \in Savers \ {s} : save'[t] = save[t]
    BY <2>1 DEF Typed, SaveState
  <2>3. \A t \in Savers, major \in Majors : MakesDefault(t, major)' <=> MakesDefault(t, major)
    BY <2>1, <2>2 DEF MakesDefault
  <2>4. \A major \in Majors : Covers(s, major) => Covers(s, major)'
    BY <2>1, <2>2, <2>3, SameDefaults DEF Covers, Defaults, Present, Ids
  <2>5. \A t \in Savers \ {s}, major \in Majors : Covers(t, major) => Covers(t, major)'
    BY <2>1, <2>2, SameDefaults, KeepsCovers
  <2> QED
    BY <2>1, <2>3, <2>4, <2>5, SameDefaults, KeepsDefaults
<1>4. ASSUME NEW s \in Savers, Commit(s) PROVE DefaultInv'
  BY <1>4, CommitDefaults
<1>5. ASSUME NEW s \in Savers, Rollback(s) PROVE DefaultInv'
  <2>1. /\ save'[s].pc = "idle" /\ \A t \in Savers \ {s} : save'[t] = save[t]
        /\ UNCHANGED <<template, rival>>
    BY <1>5 DEF Rollback, Typed, NoSave
  <2>2. \A t \in Savers, major \in Majors :
            /\ MakesDefault(t, major)' => MakesDefault(t, major)
            /\ Covers(t, major) => Covers(t, major)'
    BY <2>1, SameDefaults, KeepsCovers DEF MakesDefault, Covers
  <2> QED
    BY <2>1, <2>2, SameDefaults, KeepsDefaults
<1>6. ASSUME NEW n \in Ids, Delete(n) PROVE DefaultInv'
  <2>1. template' = [template EXCEPT ![n] = None] /\ UNCHANGED <<save, rival>>
    BY <1>6 DEF Delete
  <2>2. \A major \in Majors : Defaults(major)' \subseteq Defaults(major)
    BY <2>1 DEF Typed, Defaults, Present
  <2>3. \A t \in Savers, major \in Majors :
            /\ MakesDefault(t, major)' => MakesDefault(t, major)
            /\ Covers(t, major) => Covers(t, major)'
    BY <2>1, <2>2, KeepsCovers DEF MakesDefault
  <2> QED
    BY <2>1, <2>2, <2>3, KeepsDefaults
<1>7. CASE UNCHANGED <<template, save, rival>>
  <2>1. \A t \in Savers, major \in Majors :
            /\ MakesDefault(t, major)' => MakesDefault(t, major)
            /\ Covers(t, major) => Covers(t, major)'
    BY <1>7, SameDefaults, KeepsCovers DEF MakesDefault
  <2> QED
    BY <1>7, <2>1, SameDefaults, KeepsDefaults
<1>8. ASSUME \/ \E n \in Ids : LoadByCode(n)
             \/ \E major \in Majors : BeginLoad(major)
             \/ CountByTitle \/ FirstByTitle \/ Apply \/ Deployed \/ UNCHANGED vars
      PROVE  UNCHANGED <<template, save, rival>>
  BY <1>8 DEF LoadByCode, BeginLoad, CountByTitle, FirstByTitle, Apply, Deployed, vars
<1> QED
  BY <1>1, <1>2, <1>3, <1>4, <1>5, <1>6, <1>7, <1>8 DEF Next

--------------------------------------------------------------------------------
(* What the states of saves and loads are *)

LEMMA StepTyped ==
    ASSUME None \notin Rows
    PROVE  Typed /\ [Next]_vars => Typed'
<1> SUFFICES ASSUME Typed, [Next]_vars PROVE Typed'
  OBVIOUS
<1>0. /\ NoSave \in SaveState /\ NoSave.pc = "idle" /\ NoSave.clear = {}
      /\ NoLoad \in LoadState
  BY DEF NoSave, SaveState, NoLoad, LoadState
<1>1. ASSUME NEW s \in Savers, NEW new \in SaveState, save' = [save EXCEPT ![s] = new],
             new.pc # "idle" => new.row \in Rows, new.pc = "written" => new.scan = {},
             UNCHANGED <<template, load>>
      PROVE  Typed'
  BY <1>1 DEF Typed
<1>2. ASSUME NEW s \in Savers, Create(s) \/ Update(s) PROVE Typed'
  <2>1. PICK id \in Nat, row \in Rows : BeginSave(s, id, row)
    BY <1>2 DEF Create, Update, Present, Ids
  <2> DEFINE scan == IF row.default THEN Ids \ {id} ELSE {}
             new == [NoSave EXCEPT !.pc = "clearing", !.id = id, !.row = row, !.scan = scan]
  <2>2. scan \in SUBSET Ids
    OBVIOUS
  <2>3. save' = [save EXCEPT ![s] = new] /\ UNCHANGED <<template, load>>
    BY <2>1 DEF BeginSave
  <2> HIDE DEF scan
  <2>4. new \in SaveState /\ new.pc = "clearing" /\ new.row \in Rows
    BY <1>0, <2>2 DEF SaveState
  <2> HIDE DEF new
  <2> QED
    BY <1>1, <2>3, <2>4
<1>3. ASSUME NEW s \in Savers, ClearDefault(s) PROVE Typed'
  <2> DEFINE n == Min(save[s].scan)
             clear == IF n \in Rivals(s) THEN save[s].clear \cup {n} ELSE save[s].clear
             new == [save[s] EXCEPT !.scan = @ \ {n}, !.clear = clear]
  <2>1. save[s] \in SaveState /\ save[s].pc = "clearing" /\ save[s].row \in Rows
    BY <1>3 DEF ClearDefault, Typed
  <2>2. clear \in SUBSET Ids
    BY <2>1 DEF SaveState, Rivals, Present
  <2>3. save' = [save EXCEPT ![s] = new] /\ UNCHANGED <<template, load>>
    BY <1>3 DEF ClearDefault
  <2> HIDE DEF n, clear
  <2>4. new \in SaveState /\ new.pc = "clearing" /\ new.row \in Rows
    BY <2>1, <2>2 DEF SaveState
  <2> HIDE DEF new
  <2> QED
    BY <1>1, <2>3, <2>4
<1>4. ASSUME NEW s \in Savers, WriteTemplate(s) PROVE Typed'
  <2>1. PICK id \in Ids : /\ save' = [save EXCEPT ![s] = [@ EXCEPT !.pc = "written", !.id = id]]
                          /\ save[s].pc = "clearing" /\ save[s].scan = {}
                          /\ UNCHANGED <<template, load>>
    BY <1>4 DEF WriteTemplate
  <2> DEFINE new == [save[s] EXCEPT !.pc = "written", !.id = id]
  <2>2. save[s] \in SaveState /\ save[s].row \in Rows /\ id \in Nat
    BY <2>1 DEF Typed, Ids
  <2>3. new \in SaveState /\ new.row \in Rows /\ new.scan = {}
    BY <2>1, <2>2 DEF SaveState
  <2>4. save' = [save EXCEPT ![s] = new]
    BY <2>1
  <2> HIDE DEF new
  <2> QED
    BY <1>1, <2>1, <2>3, <2>4
<1>6. ASSUME NEW s \in Savers, Rollback(s) PROVE Typed'
  BY <1>0, <1>1, <1>6 DEF Rollback
<1>7. ASSUME NEW s \in Savers, Commit(s) PROVE Typed'
  <2>1. \A n \in Ids : template'[n] \in Rows \cup {None}
    <3> SUFFICES ASSUME NEW n \in Ids PROVE template'[n] \in Rows \cup {None}
      OBVIOUS
    <3>1. template'[n] = IF n = save[s].id THEN save[s].row
                         ELSE IF n \in save[s].clear /\ n \in Present
                              THEN [template[n] EXCEPT !.default = FALSE]
                         ELSE template[n]
      BY <1>7 DEF Commit
    <3>2. save[s].row \in Rows
      BY <1>7 DEF Commit, Typed
    <3>3. n \in Present => [template[n] EXCEPT !.default = FALSE] \in Rows
      BY DEF Typed, Present, Rows
    <3> QED
      BY <3>1, <3>2, <3>3 DEF Typed
  <2>2. template' \in [Ids -> Rows \cup {None}]
    BY <1>7, <2>1 DEF Commit
  <2>3. save' = [save EXCEPT ![s] = NoSave] /\ UNCHANGED load
    BY <1>7 DEF Commit
  <2> QED
    BY <1>0, <2>2, <2>3 DEF Typed
<1>8. ASSUME NEW n \in Ids, Delete(n) PROVE Typed'
  BY <1>8 DEF Delete, Typed
<1>10. ASSUME load' \in LoadState, UNCHANGED <<template, save>> PROVE Typed'
  BY <1>10 DEF Typed
<1>11. ASSUME NEW n \in Present, Found(n) PROVE load' \in LoadState
  <2>1. n \in Nat /\ template[n].major \in Majors
    BY DEF Typed, Present, Rows, Ids
  <2> QED
    BY <1>11, <2>1 DEF Found, Typed, LoadState
<1>12. ASSUME NEW n \in Ids, LoadByCode(n) PROVE Typed'
  BY <1>0, <1>10, <1>11, <1>12 DEF LoadByCode, EndLoad
<1>13. ASSUME NEW major \in Majors, BeginLoad(major) PROVE Typed'
  <2>1. load' = [pc |-> "asked", major |-> major, id |-> 0, found |-> None, items |-> 0]
    BY <1>13 DEF BeginLoad, NoLoad
  <2> QED
    BY <1>10, <1>13, <2>1 DEF BeginLoad, LoadState
<1>14. CASE CountByTitle
  BY <1>0, <1>10, <1>14 DEF CountByTitle, EndLoad, Typed, LoadState
<1>15. CASE FirstByTitle
  BY <1>0, <1>10, <1>11, <1>15, FirstTitled DEF FirstByTitle, EndLoad
<1>16. CASE Apply
  <2>1. ItemsNow \in Nat
    BY DEF ItemsNow, Present, Typed, Rows
  <2> QED
    BY <1>0, <1>10, <1>16, <2>1 DEF Apply, EndLoad, Typed, LoadState
<1>17. CASE Deployed
  BY <1>0, <1>10, <1>17 DEF Deployed, EndLoad
<1>18. CASE UNCHANGED vars
  BY <1>10, <1>18 DEF vars, Typed
<1> QED
  BY <1>2, <1>3, <1>4, <1>6, <1>7, <1>8, <1>12, <1>13, <1>14, <1>15, <1>16, <1>17, <1>18 DEF Next

--------------------------------------------------------------------------------
(* Loads *)

LEMMA StepLoad ==
    ASSUME None \notin Rows
    PROVE  Typed /\ LoadInv /\ [Next]_vars => LoadInv'
<1> SUFFICES ASSUME Typed, LoadInv, [Next]_vars PROVE LoadInv'
  OBVIOUS
<1>1. ASSUME UNCHANGED <<template, load, overtaken>> PROVE LoadInv'
  BY <1>1, SameDefaults DEF LoadInv
<1>2. ASSUME EndLoad PROVE LoadInv'
  BY <1>2 DEF EndLoad, NoLoad, LoadInv
<1>3. ASSUME NEW n \in Present, Found(n), template[n].enabled, UNCHANGED template PROVE LoadInv'
  <2>1. load'.pc = "found" /\ load'.id = n /\ load'.found = template[n].major
    BY <1>3 DEF Found, Typed, LoadState
  <2> QED
    BY <1>3, <2>1, SameDefaults DEF LoadInv
<1>4. ASSUME NEW s \in Savers, Commit(s) PROVE LoadInv'
  <2> SUFFICES ASSUME load.pc \in {"found", "applied"}, ~overtaken, load.id # save[s].id
               PROVE  /\ load.id \in Present' /\ template'[load.id].enabled
                      /\ template'[load.id].major = load.found
                      /\ load.pc = "applied" =>
                             load.found = load.major /\ template'[load.id].items = load.items
    BY <1>4 DEF Commit, LoadInv
  <2>1. load.id \in Present /\ template[load.id] \in Rows
    BY DEF LoadInv, Typed, Present
  <2>2. load.id \in Present'
    BY <1>4, <2>1, Committed
  <2>3. template'[load.id] = template[load.id]
        \/ template'[load.id] = [template[load.id] EXCEPT !.default = FALSE]
    BY <1>4, <2>2, Committed
  <2> QED
    BY <2>1, <2>2, <2>3 DEF LoadInv, Rows
<1>5. ASSUME NEW n \in Ids, Delete(n) PROVE LoadInv'
  BY <1>5 DEF Delete, LoadInv, Present, Typed
<1>6. ASSUME NEW s \in Savers, Create(s) \/ Update(s) \/ ClearDefault(s) \/ WriteTemplate(s) \/ Rollback(s)
      PROVE  LoadInv'
  BY <1>1, <1>6 DEF Create, Update, BeginSave, ClearDefault, WriteTemplate, Rollback
<1>7. ASSUME NEW n \in Ids, LoadByCode(n) PROVE LoadInv'
  BY <1>2, <1>3, <1>7 DEF LoadByCode
<1>8. ASSUME NEW major \in Majors, BeginLoad(major) PROVE LoadInv'
  BY <1>8 DEF BeginLoad, NoLoad, LoadInv
<1>9. CASE CountByTitle
  BY <1>2, <1>9 DEF CountByTitle, LoadInv, Typed, LoadState
<1>10. CASE FirstByTitle
  BY <1>2, <1>3, <1>10, FirstTitled DEF FirstByTitle
<1>11. CASE Apply
  <2>1. CASE load.found # load.major
    BY <1>2, <1>11, <2>1 DEF Apply
  <2>2. CASE load.found = load.major
    <3>1. load' = [load EXCEPT !.pc = "applied", !.items = ItemsNow]
          /\ load.pc = "found" /\ UNCHANGED <<template, overtaken>>
      BY <1>11, <2>2 DEF Apply
    <3>2. /\ load'.pc = "applied" /\ load'.items = ItemsNow /\ load'.id = load.id
          /\ load'.found = load.found /\ load'.major = load.major
      BY <3>1 DEF Typed, LoadState
    <3> QED
      BY <2>2, <3>1, <3>2, SameDefaults DEF LoadInv, ItemsNow
  <2> QED
    BY <2>1, <2>2
<1>12. CASE Deployed
  BY <1>2, <1>12 DEF Deployed
<1>13. CASE UNCHANGED vars
  BY <1>1, <1>13 DEF vars
<1> QED
  BY <1>4, <1>5, <1>6, <1>7, <1>8, <1>9, <1>10, <1>11, <1>12, <1>13 DEF Next

--------------------------------------------------------------------------------
(* Theorems *)

IInv == Typed /\ DefaultInv /\ LoadInv

LEMMA InitInv == Init => IInv
<1> SUFFICES ASSUME Init PROVE IInv
  OBVIOUS
<1>1. Typed
  BY DEF Init, Typed, NoSave, NoLoad, SaveState, LoadState
<1>2. DefaultInv
  BY DEF Init, DefaultInv, Single, Alone, Covers, MakesDefault, Defaults, Present, NoSave
<1>3. LoadInv
  BY DEF Init, LoadInv, NoLoad
<1> QED
  BY <1>1, <1>2, <1>3 DEF IInv

LEMMA StepInv == ASSUME None \notin Rows PROVE IInv /\ [Next]_vars => IInv'
  BY StepTyped, StepDefaults, StepLoad DEF IInv

\* A major version has one default template, unless two saves of one overlapped
\* (_clear_default_for_major and the save after it, in one transaction).
THEOREM DefaultSingle == ASSUME None \notin Rows PROVE Spec => []OneDefaultTemplate
<1>1. Init => IInv
  BY InitInv
<1>2. IInv /\ [Next]_vars => IInv'
  BY StepInv
<1>3. IInv => OneDefaultTemplate
  <2> SUFFICES ASSUME IInv, NEW major \in Majors \ rival
               PROVE  Cardinality(Defaults(major)) <= 1
    BY DEF OneDefaultTemplate, Defaults
  <2>1. CASE Defaults(major) = {}
    BY <2>1, FS_EmptySet
  <2>2. ASSUME NEW n \in Defaults(major) PROVE Cardinality(Defaults(major)) <= 1
    <3>1. Defaults(major) = {n}
      BY <2>2 DEF IInv, DefaultInv, Single
    <3>2. Cardinality({n}) = 1
      BY FS_Singleton
    <3> QED
      BY <3>1, <3>2
  <2> QED
    BY <2>1, <2>2
<1> QED
  BY <1>1, <1>2, <1>3, PTL DEF Spec

\* A deployment applies all the items of an enabled template of its own major
\* version, unless that template was changed while it was being loaded
\* (load_template_items_for_deploy and the queries before it).
THEOREM TemplateFits == ASSUME None \notin Rows PROVE Spec => []AppliedFits
<1>1. Init => IInv
  BY InitInv
<1>2. IInv /\ [Next]_vars => IInv'
  BY StepInv
<1>3. IInv => AppliedFits
  BY DEF IInv, LoadInv, AppliedFits
<1> QED
  BY <1>1, <1>2, <1>3, PTL DEF Spec

--------------------------------------------------------------------------------
(* Bounds *)

Bounded ==
    /\ used \in 0..MaxTemplate /\ versions \in 0..MaxVersion
    /\ \A s \in Savers : save[s].id \in 0..MaxTemplate
    /\ load.id \in 0..MaxTemplate /\ load.items \in 0..MaxVersion
    /\ rival \subseteq Majors /\ overtaken \in BOOLEAN

LEMMA Higher == ASSUME NEW a \in Nat, NEW b \in Nat PROVE Max({a, b}) \in {a, b}
<1>1. CASE a <= b
  <2>1. \A x \in {a, b} : (\A y \in {a, b} : x >= y) <=> x = b
    BY <1>1
  <2> QED
    BY <2>1 DEF Max
<1>2. CASE b <= a
  <2>1. \A x \in {a, b} : (\A y \in {a, b} : x >= y) <=> x = a
    BY <1>2
  <2> QED
    BY <2>1 DEF Max
<1> QED
  BY <1>1, <1>2

LEMMA StepBounded ==
    ASSUME MaxTemplate \in Nat, MaxVersion \in Nat, None \notin Rows
    PROVE  Typed /\ Bounded /\ [Next]_vars => Bounded'
<1> SUFFICES ASSUME Typed, Bounded, [Next]_vars PROVE Bounded'
  OBVIOUS
<1>0. /\ Ids \subseteq 0..MaxTemplate
      /\ NoSave.id = 0 /\ NoLoad.id = 0 /\ NoLoad.items = 0
      /\ 0 \in 0..MaxTemplate /\ 0 \in 0..MaxVersion
  BY DEF Ids, NoSave, NoLoad
<1>1. ASSUME NEW s \in Savers, NEW new, save' = [save EXCEPT ![s] = new], new.id \in 0..MaxTemplate
      PROVE  \A t \in Savers : save'[t].id \in 0..MaxTemplate
  BY <1>1 DEF Typed, Bounded
<1>2. ASSUME NEW s \in Savers, NEW id \in 0..MaxTemplate, NEW row \in Rows, BeginSave(s, id, row)
      PROVE  Bounded'
  <2> DEFINE new == [NoSave EXCEPT !.pc = "clearing", !.id = id, !.row = row,
                                   !.scan = IF row.default THEN Ids \ {id} ELSE {}]
  <2>1. new.id = id
    BY DEF NoSave
  <2>2. save' = [save EXCEPT ![s] = new]
    BY <1>2 DEF BeginSave
  <2> HIDE DEF new
  <2>3. \A t \in Savers : save'[t].id \in 0..MaxTemplate
    BY <1>1, <2>1, <2>2
  <2>4. versions' \in 0..MaxVersion
    BY <1>2 DEF BeginSave, Bounded
  <2>5. row.major \in Majors
    BY DEF Rows
  <2> QED
    BY <1>2, <2>3, <2>4, <2>5 DEF BeginSave, Bounded
<1>3. ASSUME NEW s \in Savers, Create(s) \/ Update(s) PROVE Bounded'
  BY <1>0, <1>2, <1>3 DEF Create, Update, Present
<1>4. ASSUME NEW s \in Savers, ClearDefault(s) PROVE Bounded'
  <2>1. PICK scan, clear : save' = [save EXCEPT ![s] = [@ EXCEPT !.scan = scan, !.clear = clear]]
    BY <1>4 DEF ClearDefault
  <2> DEFINE new == [save[s] EXCEPT !.scan = scan, !.clear = clear]
  <2>2. save' = [save EXCEPT ![s] = new]
    BY <2>1
  <2>3. new.id = save[s].id
    BY DEF Typed, SaveState
  <2> HIDE DEF new
  <2> QED
    BY <1>1, <1>4, <2>2, <2>3 DEF ClearDefault, Bounded
<1>5. ASSUME NEW s \in Savers, WriteTemplate(s) PROVE Bounded'
  <2>1. PICK id \in Ids : /\ save' = [save EXCEPT ![s] = [@ EXCEPT !.pc = "written", !.id = id]]
                          /\ used' = Max({used, id})
    BY <1>5 DEF WriteTemplate
  <2> DEFINE new == [save[s] EXCEPT !.pc = "written", !.id = id]
  <2>2. save' = [save EXCEPT ![s] = new]
    BY <2>1
  <2>3. new.id = id
    BY DEF Typed, SaveState
  <2>4. used' \in 0..MaxTemplate
    <3>1. used \in Nat /\ id \in Nat /\ used \in 0..MaxTemplate /\ id \in 0..MaxTemplate
      BY <1>0 DEF Bounded
    <3> QED
      BY <2>1, <3>1, Higher
  <2> HIDE DEF new
  <2> QED
    BY <1>0, <1>1, <1>5, <2>2, <2>3, <2>4 DEF WriteTemplate, Bounded
<1>6. ASSUME NEW s \in Savers, Commit(s) \/ Rollback(s) PROVE Bounded'
  <2>1. overtaken' \in BOOLEAN
    BY <1>6 DEF Commit, Rollback, Bounded
  <2>2. save' = [save EXCEPT ![s] = NoSave] /\ UNCHANGED <<used, versions, load, rival>>
    BY <1>6 DEF Commit, Rollback
  <2> QED
    BY <1>0, <1>1, <2>1, <2>2 DEF Bounded
<1>7. ASSUME NEW n \in Ids, Delete(n) PROVE Bounded'
  BY <1>7 DEF Delete, Bounded
<1>8. ASSUME load'.id \in 0..MaxTemplate, load'.items \in 0..MaxVersion, overtaken' \in BOOLEAN,
             UNCHANGED <<used, versions, save, rival>>
      PROVE  Bounded'
  BY <1>8 DEF Bounded
<1>9. ASSUME NEW n \in Ids, Found(n), UNCHANGED <<used, versions, save, rival>> PROVE Bounded'
  <2>1. load'.id = n /\ load'.items = load.items /\ overtaken' = overtaken
    BY <1>9 DEF Found, Typed, LoadState
  <2> QED
    BY <1>0, <1>8, <1>9, <2>1 DEF Bounded
<1>10. ASSUME EndLoad, UNCHANGED <<used, versions, save, rival>> PROVE Bounded'
  BY <1>0, <1>8, <1>10 DEF EndLoad
<1>11. ASSUME NEW n \in Ids, LoadByCode(n) PROVE Bounded'
  BY <1>9, <1>10, <1>11 DEF LoadByCode
<1>12. ASSUME NEW major \in Majors, BeginLoad(major) PROVE Bounded'
  <2>1. load'.id = 0 /\ load'.items = 0 /\ overtaken' = overtaken
    BY <1>12 DEF BeginLoad, NoLoad
  <2> QED
    BY <1>0, <1>8, <1>12, <2>1 DEF BeginLoad, Bounded
<1>13. CASE CountByTitle
  <2>1. CASE EndLoad
    BY <1>10, <1>13, <2>1 DEF CountByTitle
  <2>2. CASE load' = [load EXCEPT !.pc = "counted"] /\ UNCHANGED overtaken
    <3>1. load'.id = load.id /\ load'.items = load.items
      BY <2>2 DEF Typed, LoadState
    <3> QED
      BY <1>8, <1>13, <2>2, <3>1 DEF CountByTitle, Bounded
  <2> QED
    BY <1>13, <2>1, <2>2 DEF CountByTitle
<1>14. CASE FirstByTitle
  <2>1. CASE Titled # {}
    <3>1. Min(Titled) \in Ids
      BY <2>1, FirstTitled DEF Present
    <3> QED
      BY <1>9, <1>14, <2>1, <3>1 DEF FirstByTitle
  <2> QED
    BY <1>10, <1>14, <2>1 DEF FirstByTitle
<1>15. CASE Apply
  <2>1. CASE EndLoad
    BY <1>10, <1>15, <2>1 DEF Apply
  <2>2. CASE load' = [load EXCEPT !.pc = "applied", !.items = ItemsNow] /\ UNCHANGED overtaken
    <3>1. load'.id = load.id /\ load'.items = ItemsNow
      BY <2>2 DEF Typed, LoadState
    <3>2. ItemsNow \in 0..MaxVersion
      <4>1. \A row \in Rows : row.items \in 0..MaxVersion
        BY DEF Rows
      <4>2. load.id \in Present => template[load.id] \in Rows
        BY DEF Present, Typed
      <4> QED
        BY <1>0, <4>1, <4>2 DEF ItemsNow
    <3> QED
      BY <1>8, <1>15, <2>2, <3>1, <3>2 DEF Apply, Bounded
  <2> QED
    BY <1>15, <2>1, <2>2 DEF Apply
<1>16. CASE Deployed
  BY <1>10, <1>16 DEF Deployed
<1>17. CASE UNCHANGED vars
  BY <1>17 DEF vars, Bounded
<1> QED
  BY <1>3, <1>4, <1>5, <1>6, <1>7, <1>11, <1>12, <1>13, <1>14, <1>15, <1>16, <1>17 DEF Next

TemplateInv == IInv /\ Bounded

LEMMA InitTemplate ==
    ASSUME MaxTemplate \in Nat, MaxVersion \in Nat
    PROVE  Init => TemplateInv
<1> SUFFICES ASSUME Init PROVE TemplateInv
  OBVIOUS
<1>1. /\ NoSave.id = 0 /\ NoLoad.id = 0 /\ NoLoad.items = 0
      /\ 0 \in 0..MaxTemplate /\ 0 \in 0..MaxVersion
  BY DEF NoSave, NoLoad
<1>2. Bounded
  BY <1>1 DEF Init, Bounded
<1> QED
  BY <1>2, InitInv DEF TemplateInv

LEMMA StepTemplate ==
    ASSUME MaxTemplate \in Nat, MaxVersion \in Nat, None \notin Rows
    PROVE  TemplateInv /\ [Next]_vars => TemplateInv'
  BY StepInv, StepBounded DEF TemplateInv, IInv

LEMMA TemplateInvImpliesTypeOK == TemplateInv => TypeOK
<1> SUFFICES ASSUME TemplateInv PROVE TypeOK
  OBVIOUS
<1>1. ASSUME NEW s \in Savers
      PROVE  /\ save[s].pc \in {"idle", "clearing", "written"}
             /\ save[s].id \in 0..MaxTemplate
             /\ save[s].row \in Rows \cup {None}
             /\ save[s].scan \cup save[s].clear \subseteq Ids
  BY DEF TemplateInv, IInv, Typed, Bounded, SaveState
<1>2. load \in [pc : {"idle", "asked", "counted", "found", "applied"}, major : Majors \cup {None},
                id : 0..MaxTemplate, found : Majors \cup {None}, items : 0..MaxVersion]
  BY DEF TemplateInv, IInv, Typed, Bounded, LoadState
<1> QED
  BY <1>1, <1>2 DEF TemplateInv, IInv, Typed, Bounded, TypeOK
================================================================================
