------------------------------ MODULE ParamTemplate -----------------------------
(***************************************************************************)
(* The MySQL parameter templates (deploy_param_template_services.py): saves *)
(* in transactions, deletions, and deployments that load one.               *)
(*                                                                          *)
(* Django runs MySQL at READ COMMITTED: a query sees what is committed, an  *)
(* UPDATE looks at one row after the other, takes the committed row for its *)
(* condition and waits only for a row that meets it.  A load is three or    *)
(* four queries without a transaction.                                      *)
(***************************************************************************)
EXTENDS Naturals, FiniteSets, FiniteSetsExt

CONSTANTS
    MaxTemplate,  \* bound: templates ever created (their ids are 1..MaxTemplate)
    MaxVersion,   \* bound: saves ever begun
    Majors,       \* the major versions of MySQL
    Savers,       \* saves under way at a time
    None

Ids == 1..MaxTemplate

VARIABLES
    template,   \* the committed rows; None if there is none
    used,       \* ids given so far
    versions,   \* saves begun so far
    save,       \* the progress of each transaction
    load,       \* the progress of a deployment that loads a template
    rival,      \* history: majors of which two saves of a default have overlapped
    overtaken   \* history: the template was changed while it was being loaded

vars == <<template, used, versions, save, load, rival, overtaken>>

--------------------------------------------------------------------------------
\* items: the version of the rows that belong to a template, which a save
\* replaces as a whole; twin: its title is the one some others have too
Rows == [major : Majors, enabled : BOOLEAN, default : BOOLEAN, twin : BOOLEAN,
         items : 1..MaxVersion]

\* scan: rows the UPDATE has yet to look at; clear: rows it has cleared
NoSave == [pc |-> "idle", id |-> 0, row |-> None, scan |-> {}, clear |-> {}]
NoLoad == [pc |-> "idle", major |-> None, id |-> 0, found |-> None, items |-> 0]

Present == {n \in Ids : template[n] # None}
Locks(s) == save[s].clear \cup (IF save[s].pc = "written" THEN {save[s].id} ELSE {})
LockedByOther(n, s) == \E t \in Savers \ {s} : n \in Locks(t)

Init ==
    /\ template = [n \in Ids |-> None]
    /\ used = 0 /\ versions = 0
    /\ save = [s \in Savers |-> NoSave]
    /\ load = NoLoad
    /\ rival = {}
    /\ overtaken = FALSE

--------------------------------------------------------------------------------
(* Saves *)

MakesDefault(t, major) ==
    save[t].pc # "idle" /\ save[t].row.default /\ save[t].row.major = major

\* Validation over, the row to write is known; a save that does not make a
\* default has nothing to clear.  New rows (id 0) are to be inserted.
BeginSave(s, id, row) ==
    /\ save[s].pc = "idle"
    /\ versions < MaxVersion
    /\ row.items = versions + 1
    /\ versions' = versions + 1
    /\ save' = [save EXCEPT ![s] =
                  [NoSave EXCEPT !.pc = "clearing", !.id = id, !.row = row,
                                 !.scan = IF row.default THEN Ids \ {id} ELSE {}]]
    /\ rival' = IF row.default /\ \E t \in Savers : MakesDefault(t, row.major)
                THEN rival \cup {row.major} ELSE rival
    /\ UNCHANGED <<template, used, load, overtaken>>

Create(s) == used < MaxTemplate /\ \E row \in Rows : BeginSave(s, 0, row)
Update(s) == \E n \in Present, row \in Rows : BeginSave(s, n, row)

Rivals(s) == {n \in Present : template[n].default /\ template[n].major = save[s].row.major}

ClearEnabledBug(s) ==
    LET n == Min(save[s].scan)
        matches == n \in Rivals(s) /\ template[n].enabled
    IN
    /\ save[s].pc = "clearing"
    /\ save[s].scan # {}
    /\ matches => ~LockedByOther(n, s)
    /\ save' = [save EXCEPT ![s].scan = @ \ {n}, ![s].clear = IF matches THEN @ \cup {n} ELSE @]
    /\ UNCHANGED <<template, used, versions, load, rival, overtaken>>

\* _clear_default_for_major, one row of the table.
ClearDefault(s) ==
    LET n == Min(save[s].scan)
        matches == n \in Rivals(s)
    IN
    /\ save[s].pc = "clearing"
    /\ save[s].scan # {}
    /\ matches => ~LockedByOther(n, s)
    /\ save' = [save EXCEPT ![s].scan = @ \ {n}, ![s].clear = IF matches THEN @ \cup {n} ELSE @]
    /\ UNCHANGED <<template, used, versions, load, rival, overtaken>>

\* The row is inserted or updated; one that was deleted meanwhile is inserted
\* again.
WriteTemplate(s) ==
    LET id == IF save[s].id = 0 THEN used + 1 ELSE save[s].id IN
    /\ save[s].pc = "clearing"
    /\ save[s].scan = {}
    /\ id \in Ids /\ ~LockedByOther(id, s)
    /\ used' = Max({used, id})
    /\ save' = [save EXCEPT ![s].pc = "written", ![s].id = id]
    /\ UNCHANGED <<template, versions, load, rival, overtaken>>

Commit(s) ==
    /\ save[s].pc = "written"
    /\ template' = [n \in Ids |->
                      IF n = save[s].id THEN save[s].row
                      ELSE IF n \in save[s].clear /\ n \in Present
                           THEN [template[n] EXCEPT !.default = FALSE]
                      ELSE template[n]]
    /\ save' = [save EXCEPT ![s] = NoSave]
    /\ overtaken' = (overtaken \/ save[s].id = load.id)
    /\ UNCHANGED <<used, versions, load, rival>>

\* A deadlock, a lock that does not come, a process that ends.
Rollback(s) ==
    /\ save[s].pc # "idle"
    /\ save' = [save EXCEPT ![s] = NoSave]
    /\ UNCHANGED <<template, used, versions, load, rival, overtaken>>

Delete(n) ==
    /\ n \in Present
    /\ \A s \in Savers : n \notin Locks(s)
    /\ template' = [template EXCEPT ![n] = None]
    /\ overtaken' = (overtaken \/ n = load.id)
    /\ UNCHANGED <<used, versions, save, load, rival>>

--------------------------------------------------------------------------------
(* Loads *)

Titled == {n \in Present : template[n].twin /\ template[n].enabled
                           /\ template[n].major = load.major}

Found(n) ==
    /\ load' = [load EXCEPT !.pc = "found", !.id = n, !.found = template[n].major]
    /\ UNCHANGED overtaken
EndLoad == load' = NoLoad /\ overtaken' = FALSE

BeginLoad(major) ==
    /\ load = NoLoad
    /\ load' = [NoLoad EXCEPT !.pc = "asked", !.major = major]
    /\ UNCHANGED <<template, used, versions, save, rival, overtaken>>

\* By code, whatever its major version.
LoadByCode(n) ==
    /\ load.pc = "asked"
    /\ IF n \in Present /\ template[n].enabled THEN Found(n) ELSE EndLoad
    /\ UNCHANGED <<template, used, versions, save, rival>>

\* By title: the rows are counted, and then the first one is fetched.
CountByTitle ==
    /\ load.pc = "asked"
    /\ IF Cardinality(Titled) = 1
       THEN load' = [load EXCEPT !.pc = "counted"] /\ UNCHANGED overtaken
       ELSE EndLoad
    /\ UNCHANGED <<template, used, versions, save, rival>>

FirstByTitle ==
    /\ load.pc = "counted"
    /\ IF Titled # {} THEN Found(Min(Titled)) ELSE EndLoad
    /\ UNCHANGED <<template, used, versions, save, rival>>

ItemsNow == IF load.id \in Present THEN template[load.id].items ELSE 0

ApplyUncheckedBug ==
    /\ load.pc = "found"
    /\ load' = [load EXCEPT !.pc = "applied", !.items = ItemsNow]
    /\ UNCHANGED overtaken
    /\ UNCHANGED <<template, used, versions, save, rival>>

\* The items are read afresh, not as they were fetched with the template.
Apply ==
    /\ load.pc = "found"
    /\ IF load.found # load.major
       THEN EndLoad
       ELSE /\ load' = [load EXCEPT !.pc = "applied", !.items = ItemsNow]
            /\ UNCHANGED overtaken
    /\ UNCHANGED <<template, used, versions, save, rival>>

Deployed ==
    /\ load.pc = "applied"
    /\ EndLoad
    /\ UNCHANGED <<template, used, versions, save, rival>>

Next ==
    \/ \E s \in Savers :
        Create(s) \/ Update(s) \/ ClearDefault(s) \/ WriteTemplate(s) \/ Commit(s) \/ Rollback(s)
    \/ \E n \in Ids : Delete(n) \/ LoadByCode(n)
    \/ \E major \in Majors : BeginLoad(major)
    \/ CountByTitle \/ FirstByTitle \/ Apply \/ Deployed

Spec == Init /\ [][Next]_vars

--------------------------------------------------------------------------------
(* Properties *)

TypeOK ==
    /\ template \in [Ids -> Rows \cup {None}]
    /\ used \in 0..MaxTemplate /\ versions \in 0..MaxVersion
    /\ \A s \in Savers :
        /\ save[s].pc \in {"idle", "clearing", "written"}
        /\ save[s].id \in 0..MaxTemplate
        /\ save[s].row \in Rows \cup {None}
        /\ save[s].scan \cup save[s].clear \subseteq Ids
    /\ load \in [pc : {"idle", "asked", "counted", "found", "applied"}, major : Majors \cup {None},
                 id : 0..MaxTemplate, found : Majors \cup {None}, items : 0..MaxVersion]
    /\ rival \subseteq Majors /\ overtaken \in BOOLEAN

\* A major version has one default template at most, unless two saves that made
\* one of its templates the default ran at the same time.
OneDefaultTemplate ==
    \A major \in Majors \ rival :
        Cardinality({n \in Present : template[n].default /\ template[n].major = major}) <= 1

\* A deployment gets all the items of a template of its own major version that
\* is enabled, found by code or by title, unless that very template was saved
\* or deleted between the queries that look for it and the one that reads them.
AppliedFits ==
    load.pc = "applied" /\ ~overtaken =>
        /\ load.id \in Present
        /\ template[load.id].enabled
        /\ template[load.id].major = load.major
        /\ template[load.id].items = load.items
================================================================================
