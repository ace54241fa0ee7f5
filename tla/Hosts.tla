---------------------------------- MODULE Hosts ---------------------------------
(***************************************************************************)
(* One host and the rows of one of its two tables, addresses or accounts    *)
(* (common/services.py).  The page loads a host with its rows, lets the     *)
(* user change them and sends the whole list back; the rows of the host are *)
(* then made to agree with it one commit at a time, while other requests    *)
(* for the same host go on.                                                 *)
(*                                                                          *)
(* The two tables are filled by the same steps and share nothing: a         *)
(* behaviour is about one of them.                                          *)
(***************************************************************************)
EXTENDS Naturals, FiniteSets, FiniteSetsExt, SequencesExt

CONSTANTS
    MaxId,      \* bound: rows ever created
    MaxList,    \* bound: rows in a form
    Forms,      \* forms that may be open at a time
    Gone

Ids == 1..MaxId

VARIABLES
    table,      \* which table the behaviour is about
    host,       \* the host has a row
    rows,       \* the type of each row of the table; Gone if there is none
    used,       \* the highest id given so far
    form,       \* the progress of each form
    disturbed,  \* history: the last save ran beside another, or was cut short
    stale       \* history: it listed rows deleted since its form was loaded

vars == <<table, host, rows, used, form, disturbed, stale>>

--------------------------------------------------------------------------------
Tables == {"addresses", "accounts"}
Types == IF table = "addresses" THEN {"business", "inner"} ELSE {"adm", "std"}

\* A listed row keeps the id it was loaded with; a row just added has none.
New == 0
Entries == [id : Ids \cup {New}, type : Types]

Idle == [pc |-> "idle", loaded |-> {}, list |-> <<>>, existing |-> {}, keep |-> {}]

Existing == {n \in Ids : rows[n] # Gone}
Saving(f) == form[f].pc \notin {"idle", "loaded"}
NoneSaving == \A f \in Forms : ~Saving(f)

Init ==
    /\ table \in Tables
    /\ host = FALSE
    /\ rows = [n \in Ids |-> Gone]
    /\ used = 0
    /\ form = [f \in Forms |-> Idle]
    /\ disturbed = FALSE
    /\ stale = FALSE

--------------------------------------------------------------------------------
(* Validation *)

\* _validate_host_ip_account: each table has its rule.
Valid(list) ==
    IF table = "addresses"
    THEN list # <<>> => list[1].type = "business"
    ELSE Cardinality({n \in DOMAIN list : list[n].type = "adm"}) = 1

\* What the page can send: the rows loaded, in their order, without those the
\* user removed, and then the rows added; rows left blank are dropped.
Lists(loaded) ==
    {list \in UNION {[1..n -> Entries] : n \in 0..MaxList} :
        /\ \A n \in DOMAIN list : list[n].id \in loaded \cup {New}
        /\ \A m, n \in DOMAIN list :
             m < n /\ list[n].id # New => list[m].id # New /\ list[m].id < list[n].id}

--------------------------------------------------------------------------------
(* Requests *)

Load(f) ==
    /\ form[f].pc = "idle"
    /\ host
    /\ form' = [form EXCEPT ![f] = [Idle EXCEPT !.pc = "loaded", !.loaded = Existing]]
    /\ UNCHANGED <<table, host, rows, used, disturbed, stale>>

\* create_host; the new host has an id of its own, so that no open form is
\* about it.
Create(f) ==
    /\ ~host
    /\ \A g \in Forms : form[g].pc = "idle"
    /\ \E list \in Lists({}) :
        /\ Valid(list)
        /\ form' = [form EXCEPT ![f] = [Idle EXCEPT !.pc = "reading", !.list = list]]
    /\ host' = TRUE
    /\ disturbed' = FALSE
    /\ UNCHANGED <<table, rows, used, stale>>

\* update_host as far as its checks; a host that is gone, or a list that is not
\* valid, ends it.
Check(f) ==
    /\ form[f].pc = "loaded"
    /\ IF host
       THEN \E list \in Lists(form[f].loaded) :
              /\ Valid(list)
              /\ form' = [form EXCEPT ![f] = [Idle EXCEPT !.pc = "checked", !.list = list]]
              /\ disturbed' = ~NoneSaving
       ELSE form' = [form EXCEPT ![f] = Idle] /\ UNCHANGED disturbed
    /\ UNCHANGED <<table, host, rows, used, stale>>

\* save() inserts a host that is gone again.
SaveHost(f) ==
    /\ form[f].pc = "checked"
    /\ host' = TRUE
    /\ form' = [form EXCEPT ![f].pc = "reading"]
    /\ UNCHANGED <<table, rows, used, disturbed, stale>>

ReadExisting(f) ==
    /\ form[f].pc = "reading"
    /\ form' = [form EXCEPT ![f].pc = "syncing", ![f].existing = Existing]
    /\ stale' = \E n \in DOMAIN form[f].list : form[f].list[n].id \notin Existing \cup {New}
    /\ UNCHANGED <<table, host, rows, used, disturbed>>

SyncTrustingIdBug(f) ==
    LET entry == Head(form[f].list) IN
    /\ form[f].pc = "syncing"
    /\ form[f].list # <<>>
    /\ IF entry.id # New
       THEN /\ rows' = [rows EXCEPT ![entry.id] = IF @ = Gone THEN Gone ELSE entry.type]
            /\ form' = [form EXCEPT ![f].list = Tail(@), ![f].keep = @ \cup {entry.id}]
            /\ UNCHANGED used
       ELSE /\ used < MaxId
            /\ IF host
               THEN /\ rows' = [rows EXCEPT ![used + 1] = entry.type]
                    /\ used' = used + 1
                    /\ form' = [form EXCEPT ![f].list = Tail(@), ![f].keep = @ \cup {used + 1}]
               ELSE form' = [form EXCEPT ![f] = Idle] /\ UNCHANGED <<rows, used>>
    /\ UNCHANGED <<table, host, disturbed, stale>>

\* A row that existed a moment ago is updated, if it still does; any other is
\* created, which raises if the host is gone.
SyncEntry(f) ==
    LET entry == Head(form[f].list) IN
    /\ form[f].pc = "syncing"
    /\ form[f].list # <<>>
    /\ IF entry.id \in form[f].existing
       THEN /\ rows' = [rows EXCEPT ![entry.id] = IF @ = Gone THEN Gone ELSE entry.type]
            /\ form' = [form EXCEPT ![f].list = Tail(@), ![f].keep = @ \cup {entry.id}]
            /\ UNCHANGED used
       ELSE /\ used < MaxId
            /\ IF host
               THEN /\ rows' = [rows EXCEPT ![used + 1] = entry.type]
                    /\ used' = used + 1
                    /\ form' = [form EXCEPT ![f].list = Tail(@), ![f].keep = @ \cup {used + 1}]
               ELSE form' = [form EXCEPT ![f] = Idle] /\ UNCHANGED <<rows, used>>
    /\ UNCHANGED <<table, host, disturbed, stale>>

DeleteOthers(f) ==
    /\ form[f].pc = "syncing"
    /\ form[f].list = <<>>
    /\ rows' = [n \in Ids |-> IF n \in form[f].keep THEN rows[n] ELSE Gone]
    /\ form' = [form EXCEPT ![f] = Idle]
    /\ UNCHANGED <<table, host, used, disturbed, stale>>

DeleteAloneBug ==
    /\ host
    /\ host' = FALSE
    /\ UNCHANGED <<table, rows, used, form, disturbed, stale>>

\* delete_host takes the rows with it.
Delete ==
    /\ host
    /\ host' = FALSE
    /\ rows' = [n \in Ids |-> Gone]
    /\ UNCHANGED <<table, used, form, disturbed, stale>>

\* The process ends between two commits.
Abandon(f) ==
    /\ Saving(f)
    /\ form' = [form EXCEPT ![f] = Idle]
    /\ disturbed' = TRUE
    /\ UNCHANGED <<table, host, rows, used, stale>>

Next ==
    \/ Delete
    \/ \E f \in Forms :
        \/ Load(f) \/ Create(f) \/ Check(f) \/ SaveHost(f) \/ ReadExisting(f)
        \/ SyncEntry(f) \/ DeleteOthers(f) \/ Abandon(f)

Spec == Init /\ [][Next]_vars

--------------------------------------------------------------------------------
(* Properties *)

TypeOK ==
    /\ table \in Tables
    /\ host \in BOOLEAN
    /\ rows \in [Ids -> Types \cup {Gone}]
    /\ used \in 0..MaxId
    /\ ~host => Existing = {}
    /\ \A f \in Forms :
        /\ form[f].pc \in {"idle", "loaded", "checked", "reading", "syncing"}
        /\ form[f].loaded \cup form[f].existing \cup form[f].keep \subseteq Ids
        /\ \A n \in DOMAIN form[f].list : form[f].list[n] \in Entries
    /\ disturbed \in BOOLEAN /\ stale \in BOOLEAN

\* The first address by id is the one that the terminal, the probe and the
\* replica wizard connect to.
FirstAddress == rows[Min(Existing)]
Settled == host /\ NoneSaving /\ ~disturbed

\* What the checks of a list are for survives the row by row writing of it,
\* with forms however old: the host comes out with exactly one administrator;
\* and with a business address first, if every row listed still existed.
HostFits ==
    Settled =>
        IF table = "accounts"
        THEN Cardinality({n \in Existing : rows[n] = "adm"}) = 1
        ELSE Existing # {} /\ ~stale => FirstAddress = "business"
================================================================================
