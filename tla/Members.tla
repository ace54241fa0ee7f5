-------------------------------- MODULE Members --------------------------------
(***************************************************************************)
(* The two tables below a database instance (dbmgr/services.py): its        *)
(* deploy hosts, one of which may be primary, and its accounts, one of      *)
(* which is the default.  Requests interleave at every statement, for no    *)
(* request here opens a transaction.  A row's flag is is_primary or         *)
(* is_default.  Hosts, names and grant hosts are left out: that one is      *)
(* taken is among the reasons for which a form or the database may refuse.  *)
(***************************************************************************)
EXTENDS Naturals, FiniteSets, Sequences

CONSTANTS
    Instances,   \* primary keys of DatabaseInstance rows
    MaxRows,     \* bound: rows ever inserted (their ids are 1..MaxRows)
    Requests,    \* requests in progress at a time
    None

VARIABLES
    kind,        \* the table at hand, "nodes" or "accounts"; never changes
    live,        \* the instances that exist
    row,         \* the rows of the table, by id; Absent if there is none
    used,        \* ids handed out so far
    req,         \* how far each request has come
    disturbed    \* history: instances left without one default, or with two
                 \* flags, by one of the causes OneDefault names, since a request
                 \* last cleared all flags but its own

vars == <<kind, live, row, used, req, disturbed>>

--------------------------------------------------------------------------------
Ids == 1..MaxRows
Absent == [inst |-> None, flag |-> FALSE]
Rows == [inst : Instances, flag : BOOLEAN]

\* A request: the row and the instance it is about, the flag it read or was sent,
\* and of a registration the flags of the rows it has still to insert.
Idle == [pc |-> "idle", id |-> 0, inst |-> None, flag |-> FALSE, todo |-> <<>>]

Exists(id) == row[id] # Absent
RowsOf(table, i) == {id \in Ids : table[id].inst = i}
Flagged(i) == {id \in RowsOf(row, i) : row[id].flag}

Start(r, q) ==
    /\ req[r] = Idle
    /\ req' = [req EXCEPT ![r] = q]
    /\ UNCHANGED <<kind, row, used>>

Begin(r, q) == Start(r, q) /\ UNCHANGED <<live, disturbed>>

End(r) == req' = [req EXCEPT ![r] = Idle]
Goto(r, pc) == req' = [req EXCEPT ![r].pc = pc]

Init ==
    /\ kind \in {"nodes", "accounts"}
    /\ live = {}
    /\ row = [id \in Ids |-> Absent]
    /\ used = 0
    /\ req = [r \in Requests |-> Idle]
    /\ disturbed = {}

--------------------------------------------------------------------------------
(* Create and update *)

CheckCreate(r) ==
    \E i \in live, flag \in BOOLEAN :
        Begin(r, [Idle EXCEPT !.pc = "insert", !.inst = i, !.flag = flag])

\* The body names any instance; only an account's is looked up at this point.
CheckUpdate(r) ==
    \E id \in Ids, i \in Instances, flag \in BOOLEAN :
        /\ Exists(id)
        /\ kind = "accounts" => i \in live
        /\ Begin(r, [Idle EXCEPT !.pc = "save", !.id = id, !.inst = i, !.flag = flag])

NextAfterNoUpdateBug(r) ==
    IF req[r].pc # "insert" THEN "idle"
    ELSE IF req[r].flag THEN "clear"
    ELSE IF kind = "accounts" THEN "seek" ELSE "idle"

NextAfter(r) ==
    IF req[r].flag THEN "clear"
    ELSE IF kind = "accounts" /\ req[r].pc = "insert" THEN "seek" ELSE "idle"

\* Nothing looks after an instance whose default an update switches off or moves
\* away, nor after one that gets its only account from an update.
Unset(r, id) ==
    {i \in Instances :
        /\ kind = "accounts" /\ req[r].pc = "save"
        /\ \/ id \in Flagged(i) /\ ~(req[r].flag /\ req[r].inst = i)
           \/ RowsOf(row, i) = {} /\ req[r].inst = i /\ ~req[r].flag}

Write(r, id) ==
    /\ row' = [row EXCEPT ![id] = [inst |-> req[r].inst, flag |-> req[r].flag]]
    /\ disturbed' = disturbed \cup Unset(r, id)
    /\ req' = [req EXCEPT ![r] = IF NextAfter(r) = "idle" THEN Idle
                                 ELSE [@ EXCEPT !.pc = NextAfter(r), !.id = id]]
    /\ UNCHANGED <<kind, live>>

Fail(r) == End(r) /\ UNCHANGED <<kind, live, row, used, disturbed>>

Insert(r) ==
    /\ req[r].pc = "insert"
    /\ \/ Fail(r)
       \/ req[r].inst \in live /\ used < MaxRows /\ used' = used + 1 /\ Write(r, used + 1)

\* save() updates by id and inserts the row again if somebody deleted it.
Save(r) ==
    /\ req[r].pc = "save"
    /\ \/ Fail(r)
       \/ req[r].inst \in live /\ Write(r, req[r].id) /\ UNCHANGED used

Unflagged(table, i, id) ==
    [x \in Ids |-> IF x # id /\ table[x].inst = i THEN [table[x] EXCEPT !.flag = FALSE]
                   ELSE table[x]]

\* Its own account may have lost the flag since the request saved it: then no
\* default is left.
Bereaved(r) ==
    {i \in {req[r].inst} : kind = "accounts" /\ req[r].id \notin Flagged(i) /\ Flagged(i) # {}}

ClearOthers(r) ==
    /\ req[r].pc = "clear"
    /\ row' = Unflagged(row, req[r].inst, req[r].id)
    /\ disturbed' = IF kind = "nodes" \/ req[r].id \in Flagged(req[r].inst)
                    THEN disturbed \ {req[r].inst}
                    ELSE disturbed \cup Bereaved(r)
    /\ End(r)
    /\ UNCHANGED <<kind, live, used>>

--------------------------------------------------------------------------------
(* The default account that the service picks itself *)

\* A new account becomes the default if its instance has none.
SeekDefault(r) ==
    /\ req[r].pc = "seek"
    /\ IF Flagged(req[r].inst) = {} THEN Goto(r, "promote") ELSE End(r)
    /\ UNCHANGED <<kind, live, row, used, disturbed>>

\* After the default account is deleted the first one left becomes default.
SeekFirst(r) ==
    /\ req[r].pc = "first"
    /\ LET left == RowsOf(row, req[r].inst) IN
       IF left = {} THEN End(r)
       ELSE req' = [req EXCEPT ![r].pc = "promote",
                               ![r].id = CHOOSE id \in left : \A x \in left : id <= x]
    /\ UNCHANGED <<kind, live, row, used, disturbed>>

\* The account it picked may be gone or elsewhere, or another may be the default.
Mispicked(r) ==
    {i \in Instances :
        \/ req[r].id \in RowsOf(row, i) /\ Flagged(i) \ {req[r].id} # {}
        \/ req[r].id \notin RowsOf(row, i) /\ req[r].inst = i /\ Flagged(i) = {}}

PromoteGoneBug(r) ==
    /\ req[r].pc = "promote"
    /\ row' = [row EXCEPT ![req[r].id].flag = TRUE]
    /\ disturbed' = disturbed \cup Mispicked(r)
    /\ End(r)
    /\ UNCHANGED <<kind, live, used>>

\* save(update_fields=["is_default"]) raises if the row is gone.
Promote(r) ==
    /\ req[r].pc = "promote"
    /\ row' = IF Exists(req[r].id) THEN [row EXCEPT ![req[r].id].flag = TRUE] ELSE row
    /\ disturbed' = disturbed \cup Mispicked(r)
    /\ End(r)
    /\ UNCHANGED <<kind, live, used>>

--------------------------------------------------------------------------------
(* Delete *)

DeleteNode(id) ==
    /\ kind = "nodes"
    /\ Exists(id)
    /\ row' = [row EXCEPT ![id] = Absent]
    /\ UNCHANGED <<kind, live, used, req, disturbed>>

ReadAccount(r) ==
    \E id \in Ids :
        /\ kind = "accounts"
        /\ Exists(id)
        /\ Begin(r, [Idle EXCEPT !.pc = "delete", !.id = id, !.inst = row[id].inst,
                                 !.flag = row[id].flag])

DeleteAccountNoFallbackBug(r) ==
    /\ req[r].pc = "delete"
    /\ row' = [row EXCEPT ![req[r].id] = Absent]
    /\ End(r)
    /\ UNCHANGED <<kind, live, used, disturbed>>

\* The account may have become the default, or moved, since the request read it.
Misread(r) ==
    {i \in Instances : req[r].id \in Flagged(i) /\ ~(req[r].flag /\ req[r].inst = i)}

DeleteAccount(r) ==
    /\ req[r].pc = "delete"
    /\ row' = [row EXCEPT ![req[r].id] = Absent]
    /\ IF req[r].flag THEN Goto(r, "first") ELSE End(r)
    /\ disturbed' = disturbed \cup Misread(r)
    /\ UNCHANGED <<kind, live, used>>

--------------------------------------------------------------------------------
(* The instance itself: the ledger's form, a deployment's registration, and *)
(* deletion, whose cascade takes the rows of both tables in one transaction *)

\* Ids are never given twice; one that no request knows any more stands for
\* a new one.
Unborn(i) == i \notin live /\ \A r \in Requests : req[r].inst # i

CreateInstance(i) ==
    /\ Unborn(i)
    /\ live' = live \cup {i}
    /\ disturbed' = disturbed \ {i}
    /\ UNCHANGED <<kind, row, used, req>>

\* What a finished deployment registers: its one node, as primary; root and
\* the administrator, who is the default; or, of a replica, the accounts of
\* its master as they stand, by id.
Rank(id, ids) == Cardinality({x \in ids : x <= id})
Copied(m) ==
    LET ids == RowsOf(row, m) IN
    [n \in 1..Cardinality(ids) |-> \E id \in ids : Rank(id, ids) = n /\ row[id].flag]
Registered ==
    IF kind = "nodes" THEN {<<TRUE>>} ELSE {<<FALSE, TRUE>>} \cup {Copied(m) : m \in live}
OneAmong(flags) == \E n \in DOMAIN flags : \A k \in DOMAIN flags : flags[k] <=> k = n

\* A copy is no better than its original.
RegisterInstance(r, i, flags) ==
    /\ Unborn(i)
    /\ flags # <<>>
    /\ live' = live \cup {i}
    /\ Start(r, [Idle EXCEPT !.pc = "register", !.inst = i, !.todo = flags])
    /\ disturbed' = IF OneAmong(flags) THEN disturbed \ {i} ELSE disturbed \cup {i}

\* Nothing is cleared: the instance is taken to be new, but others may have been
\* at its rows already.
DefaultDue(flags) == \E n \in DOMAIN flags : flags[n]
Overtaken(r) ==
    {i \in {req[r].inst} : IF Head(req[r].todo) THEN Flagged(i) # {}
                           ELSE RowsOf(row, i) = {} /\ ~DefaultDue(req[r].todo)}

\* When a row is refused the others stay.
InsertRegistered(r) ==
    LET i == req[r].inst IN
    /\ req[r].pc = "register"
    /\ \/ End(r) /\ disturbed' = disturbed \cup {i} /\ UNCHANGED <<row, used>>
       \/ /\ i \in live
          /\ used < MaxRows
          /\ used' = used + 1
          /\ row' = [row EXCEPT ![used + 1] = [inst |-> i, flag |-> Head(req[r].todo)]]
          /\ IF Len(req[r].todo) = 1 THEN End(r)
             ELSE req' = [req EXCEPT ![r].todo = Tail(@)]
          /\ disturbed' = disturbed \cup Overtaken(r)
    /\ UNCHANGED <<kind, live>>

DeleteInstance(i) ==
    /\ i \in live
    /\ live' = live \ {i}
    /\ row' = [id \in Ids |-> IF row[id].inst = i THEN Absent ELSE row[id]]
    /\ UNCHANGED <<kind, used, req, disturbed>>

\* A server process dies, or the database refuses the second statement.
Halfway == {"clear", "seek", "first", "promote", "register"}
Abandon(r) ==
    /\ req[r] # Idle
    /\ End(r)
    /\ disturbed' = disturbed \cup {i \in {req[r].inst} : req[r].pc \in Halfway}
    /\ UNCHANGED <<kind, live, row, used>>

Next ==
    \/ \E r \in Requests :
        \/ CheckCreate(r)
        \/ CheckUpdate(r)
        \/ Insert(r)
        \/ Save(r)
        \/ ClearOthers(r)
        \/ SeekDefault(r)
        \/ SeekFirst(r)
        \/ Promote(r)
        \/ ReadAccount(r)
        \/ DeleteAccount(r)
        \/ Abandon(r)
        \/ \E i \in Instances, flags \in Registered : RegisterInstance(r, i, flags)
        \/ InsertRegistered(r)
    \/ \E id \in Ids : DeleteNode(id)
    \/ \E i \in Instances : CreateInstance(i) \/ DeleteInstance(i)

Spec == Init /\ [][Next]_vars

--------------------------------------------------------------------------------
(* Properties *)

TypeOK ==
    /\ kind \in {"nodes", "accounts"}
    /\ live \subseteq Instances
    /\ row \in [Ids -> Rows \cup {Absent}]
    /\ used \in 0..MaxRows
    /\ disturbed \subseteq Instances
    /\ \A r \in Requests :
        /\ req[r].pc \in {"idle", "insert", "save", "register", "clear", "seek", "first",
                          "promote", "delete"}
        /\ req[r].id \in Ids \cup {0}
        /\ req[r].inst \in Instances \cup {None}
        /\ req[r].flag \in BOOLEAN
        /\ req[r].todo \in Seq(BOOLEAN)

\* _ensure_single_primary_host: an instance has two primary nodes only until
\* the request that made the second clears the other, however the requests
\* interleave; a registration that met rows already there, or a request that
\* died in between, is made good by the next one that sets a primary.
SinglePrimary ==
    kind = "nodes" =>
        \A i \in live \ disturbed :
            \/ \A x, y \in Flagged(i) : x = y
            \/ \E r \in Requests : req[r].pc = "clear" /\ req[r].inst = i

\* _ensure_single_default_account and the two fallbacks, however requests interleave:
\* two accounts of an instance are default only while a request is about to clear
\* the other, and none of several is only while one is about to pick a default.
\* Six things break it, each until a request next sets a default and clears the
\* others: an update that switches the default off, moves it away or brings an
\* instance its only account; a clear whose own account has lost the flag since; a
\* pick that is gone or no longer needed when it is saved; a delete of an account
\* that became the default or moved after it was read; a registration refused a row,
\* overtaken by others or copying a master that has not one default itself; and a
\* request that dies after its first write and before its last.
OneDefault ==
    kind = "accounts" =>
        \A i \in live \ disturbed :
            /\ \/ \A x, y \in Flagged(i) : x = y
               \/ \E r \in Requests : req[r].pc = "clear" /\ req[r].inst = i
            /\ \/ RowsOf(row, i) = {} \/ Flagged(i) # {}
               \/ \E r \in Requests :
                      /\ req[r].inst = i
                      /\ \/ req[r].pc \in {"seek", "first", "promote"}
                         \/ req[r].pc = "register" /\ DefaultDue(req[r].todo)
================================================================================
