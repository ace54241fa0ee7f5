------------------------------ MODULE DeployParams ------------------------------
(***************************************************************************)
(* What becomes of the parameters of one MySQL deployment: profile,         *)
(* template and form merged in that order (profile_loader.py,               *)
(* deploy_param_template_services.py), completed and written out as the     *)
(* lines of my.cnf (deploy_constants.py), and, for a replica, adapted to    *)
(* what its master is found to run with, again at every run of the          *)
(* configure step (deploy_services.py).                                     *)
(*                                                                          *)
(* A value stands for who gave it.  Of the configuration there is one key   *)
(* of each kind that is treated in a way of its own.                        *)
(***************************************************************************)
EXTENDS Naturals, Sequences

CONSTANTS
    MaxItems,     \* bound: items of the template
    ItemValue,    \* the value that each item gives
    MaxProbes     \* bound: times that the configure step asks the master

VARIABLES
    replica,      \* the deployment is of a replica
    template,     \* the items of the template chosen, by sort order
    form,         \* config of user_params
    stage,        \* how far the parameters have come
    config,       \* config of resolved_params
    cnf,          \* the lines of section mysqld; empty before they are built
    runtime,      \* what the master last said
    probes        \* times it was asked

vars == <<replica, template, form, stage, config, cnf, runtime, probes>>

--------------------------------------------------------------------------------
Unset == "unset"
ConfigKeys == {"max_connections", "binlog_format", "lower_case_table_names",
               "enable_binlog", "enable_gtid", "server_id"}
Switches == {"enable_binlog", "enable_gtid"}
Empty == [k \in ConfigKeys |-> Unset]

\* The platform's own number for the target's address and port, or another.
ServerIds == {"derived", "other"}

Values(k) ==
    IF k \in Switches THEN {"on", "off"}
    ELSE IF k = "server_id" THEN ServerIds
    ELSE {"profile", "user", "master", "platform"} \cup {ItemValue[n] : n \in 1..MaxItems}
Configs == {c \in [ConfigKeys -> UNION {Values(k) \cup {Unset} : k \in ConfigKeys}] :
              \A k \in ConfigKeys : c[k] \in Values(k) \cup {Unset}}

\* Items name a parameter with dashes or with underscores.  Reserved names are
\* refused, but of server_id the list has one spelling only.
CnfKeys == {"max-connections", "binlog-format", "lower-case-table-names", "server-id",
            "gtid-mode", "sort-buffer-size"}
Reserved == {"server-id"}
Items == {item \in [key : CnfKeys, dashed : BOOLEAN] : item.key \in Reserved => item.dashed}

Underscored(key) == [key |-> key, dashed |-> FALSE]

\* The parameters that a template also sets in config.  The table has these
\* names with underscores, and the second look-up is for dashes: an item that
\* spells them with dashes is found by neither.
ConfigKeyOf(item) ==
    CASE item = Underscored("max-connections") -> "max_connections"
      [] item = Underscored("binlog-format") -> "binlog_format"
      [] OTHER -> Unset

\* The same name twice is refused, another spelling of it is not.
Templates ==
    {t \in UNION {[1..n -> Items] : n \in 0..MaxItems} :
       \A m, n \in DOMAIN t : t[m] = t[n] => m = n}

\* A replica's form has both switches on.
Forms ==
    {[Empty EXCEPT !["max_connections"] = m, !["binlog_format"] = m,
                   !["enable_binlog"] = b, !["enable_gtid"] = g, !["server_id"] = s] :
        m \in {Unset, "user"}, b \in {Unset, "on", "off"}, g \in {Unset, "on", "off"},
        s \in {Unset} \cup ServerIds}

Init ==
    /\ replica \in BOOLEAN
    /\ template \in Templates
    /\ form \in Forms
    /\ replica => form["enable_binlog"] = "on" /\ form["enable_gtid"] = "on"
    /\ stage = "new"
    /\ config = Empty
    /\ cnf = <<>>
    /\ runtime = Empty
    /\ probes = 0

--------------------------------------------------------------------------------
(* Merging *)

KeptBug(base, given) == [k \in ConfigKeys |-> IF base[k] = Unset THEN given[k] ELSE base[k]]

\* _deep_merge: what is given wins.
Override(base, given) == [k \in ConfigKeys |-> IF given[k] = Unset THEN base[k] ELSE given[k]]

Merge(acc, n) ==
    LET k == ConfigKeyOf(template[n]) IN
    IF k = Unset THEN acc ELSE [acc EXCEPT ![k] = ItemValue[n]]

\* _apply_template_object_to_merged, item by item.
Merged(c) ==
    LET upto[n \in 0..Len(template)] == IF n = 0 THEN c ELSE Merge(upto[n - 1], n)
    IN upto
WithTemplate(c) == Merged(c)[Len(template)]

ProfileConfig ==
    [Empty EXCEPT !["max_connections"] = "profile", !["binlog_format"] = "profile",
                  !["enable_binlog"] = "on", !["enable_gtid"] = "on"]

--------------------------------------------------------------------------------
(* my.cnf *)

Line(key, value) == <<[key |-> key, value |-> value]>>
Keys(lines) == {lines[n].key : n \in DOMAIN lines}
Given(value, default) == IF value = Unset THEN default ELSE value

FixedLines(c) ==
    Line("max-connections", Given(c["max_connections"], "platform"))
    \o (IF replica
        THEN Line("lower-case-table-names", Given(c["lower_case_table_names"], "platform"))
        ELSE <<>>)
    \o (IF c["enable_binlog"] = "on"
        THEN Line("server-id", c["server_id"])
             \o Line("binlog-format", Given(c["binlog_format"], "platform"))
             \o (IF c["enable_gtid"] = "on" THEN Line("gtid-mode", "platform") ELSE <<>>)
        ELSE <<>>)

AddItemBug(lines, n) ==
    IF template[n].key \in Keys(lines) THEN lines
    ELSE lines \o Line(template[n].key, ItemValue[n])

\* An item is written unless its name is there already or reserved.
AddItem(lines, n) ==
    IF template[n].key \in Keys(lines) \cup Reserved THEN lines
    ELSE lines \o Line(template[n].key, ItemValue[n])

Written(c) ==
    LET upto[n \in 0..Len(template)] == IF n = 0 THEN FixedLines(c) ELSE AddItem(upto[n - 1], n)
    IN upto
Built(c) == Written(c)[Len(template)]

\* finalize_mysql_deploy_params: a GTID needs the binlog, the binlog a number.
Finalized(c) ==
    LET gtid == Given(c["enable_gtid"], "on")
        binlog == IF gtid = "on" THEN "on" ELSE Given(c["enable_binlog"], "on")
    IN [c EXCEPT !["enable_binlog"] = binlog,
                 !["enable_gtid"] = gtid,
                 !["binlog_format"] = IF binlog = "on" THEN Given(@, "platform") ELSE @,
                 !["server_id"] = IF binlog = "on" THEN Given(@, "derived") ELSE Unset]

--------------------------------------------------------------------------------
Resolve ==
    /\ stage = "new"
    /\ LET merged == Finalized(Override(WithTemplate(ProfileConfig), form)) IN
       config' = merged /\ cnf' = Built(merged)
    /\ stage' = "resolved"
    /\ UNCHANGED <<replica, template, form, runtime, probes>>

\* What a master may say that the playbook accepts: it must run with a binlog
\* and GTIDs; its binlog format may come back blank.
Runtimes ==
    {[Empty EXCEPT !["binlog_format"] = f, !["lower_case_table_names"] = "master",
                   !["enable_gtid"] = "on", !["enable_binlog"] = "on", !["server_id"] = s] :
        f \in {Unset, "master"}, s \in ServerIds}

\* apply_mysql_master_runtime takes over what it asks the master for, a blank
\* answer too, which replaces a format that was set.
WithRuntime(c, r) ==
    [k \in ConfigKeys |-> IF k \in {"max_connections", "server_id"} THEN c[k] ELSE r[k]]

\* A number equal to the master's would give way to the platform's own.
Repaired(c, r) ==
    IF c["server_id"] \in {Unset, r["server_id"]} THEN [c EXCEPT !["server_id"] = "derived"] ELSE c

\* The playbook refuses a planned number that is the master's; nothing is saved.
Probe(r) ==
    /\ replica
    /\ stage = "resolved"
    /\ probes < MaxProbes
    /\ probes' = probes + 1
    /\ IF config["server_id"] = r["server_id"]
       THEN UNCHANGED <<config, cnf, runtime>>
       ELSE /\ config' = Repaired(WithRuntime(config, r), r)
            /\ cnf' = Built(config')
            /\ runtime' = r
    /\ UNCHANGED <<replica, template, form, stage>>

Next == Resolve \/ \E r \in Runtimes : Probe(r)

Spec == Init /\ [][Next]_vars

--------------------------------------------------------------------------------
(* Properties *)

TypeOK ==
    /\ replica \in BOOLEAN
    /\ template \in Templates /\ form \in Forms
    /\ stage \in {"new", "resolved"}
    /\ \A k \in ConfigKeys : config[k] \in Values(k) \cup {Unset}
    /\ \A n \in DOMAIN cnf : cnf[n].key \in CnfKeys
    /\ runtime \in Runtimes \cup {Empty}
    /\ probes \in 0..MaxProbes

ValueOf(key) == LET n == CHOOSE m \in DOMAIN cnf : cnf[m].key = key IN cnf[n].value
ItemsNaming(key) == {n \in DOMAIN template : template[n].key = key}

\* However its sources spell and repeat a parameter, my.cnf has it once; what
\* the platform reserves never comes from a template; GTIDs come with a binlog
\* and a binlog with the deployment's own server_id, before and after every
\* answer of the master.
MyCnfWellFormed ==
    stage = "resolved" =>
        /\ \A m, n \in DOMAIN cnf : cnf[m].key = cnf[n].key => m = n
        /\ \A n \in DOMAIN cnf : cnf[n].key \in Reserved => cnf[n].value = config["server_id"]
        /\ "server-id" \in Keys(cnf) <=> config["enable_binlog"] = "on"
        /\ config["enable_gtid"] = "on" => {"gtid-mode", "server-id"} \subseteq Keys(cnf)
        /\ config["server_id"] = Unset <=> config["enable_binlog"] = "off"
        /\ runtime # Empty => config["server_id"] # runtime["server_id"]

\* What form, template and profile make of a parameter that the profile sets:
\* a template has a say only through the spelling that config knows.
Prevailing(k, key) ==
    IF form[k] = "user" THEN "user"
    ELSE IF \E n \in DOMAIN template : template[n] = Underscored(key)
         THEN ItemValue[CHOOSE n \in DOMAIN template : template[n] = Underscored(key)]
    ELSE "profile"

\* Reference for the order of precedence: the last answer of the master, a blank
\* one included, over the form over the template over the profile, whatever
\* number of times the master was asked and wherever the items stand; a
\* parameter that only the template knows is never lost, and of its spellings
\* the first counts.  What a dashed item says of a parameter that the profile
\* sets too is lost to the profile.
Precedence ==
    stage = "resolved" =>
        /\ ValueOf("max-connections") = Prevailing("max_connections", "max-connections")
        /\ config["enable_binlog"] = "on" =>
             ValueOf("binlog-format") =
                IF runtime = Empty THEN Prevailing("binlog_format", "binlog-format")
                ELSE Given(runtime["binlog_format"], "platform")
        /\ \A n \in DOMAIN template :
             template[n].key = "sort-buffer-size" =>
                 "sort-buffer-size" \in Keys(cnf)
                 /\ ValueOf("sort-buffer-size") = ItemValue[CHOOSE m \in ItemsNaming("sort-buffer-size") :
                                       \A l \in ItemsNaming("sort-buffer-size") : m <= l]
================================================================================
