-------------------------------- MODULE MCCatalog -------------------------------
(* What users describe to the program, for TLC: a behaviour is about a host   *)
(* with its addresses or accounts (Hosts), about the parameter templates      *)
(* (ParamTemplate), or about the parameters of one deployment (DeployParams). *)
(* The three share no row, so that their states can be added instead of       *)
(* multiplied; what is not about an area starts, and stays, in one state.     *)
EXTENDS ParamTemplate, TLC

CONSTANTS MaxId, MaxList, Editors, Gone, MaxItems, ItemValue, MaxProbes

ASSUME CatalogAssumption ==
    /\ {MaxId, MaxList, MaxTemplate, MaxVersion, MaxItems, MaxProbes} \subseteq Nat
    /\ IsFiniteSet(Editors) /\ IsFiniteSet(Savers)
    /\ None \notin Majors /\ None \notin Rows
    /\ Gone \notin {"business", "inner", "adm", "std"}
    /\ \A n \in 1..MaxItems : ItemValue[n] # "unset"

VARIABLES area,
          table, host, rows, usedRows, pages, disturbed, stale,
          replica, items, form, stage, config, cnf, runtime, probes

hostVars == <<table, host, rows, usedRows, pages, disturbed, stale>>
paramVars == <<replica, items, form, stage, config, cnf, runtime, probes>>

H == INSTANCE Hosts WITH Forms <- Editors, used <- usedRows, form <- pages
D == INSTANCE DeployParams WITH template <- items

MCInit ==
    /\ area \in {"hosts", "templates", "params"}
    /\ H!Init /\ (area # "hosts" => table = "addresses")
    /\ Init
    /\ D!Init /\ (area # "params" => ~replica /\ items = <<>> /\ form = D!Empty)

MCNext ==
    \/ area = "hosts" /\ H!Next /\ UNCHANGED <<area, vars, paramVars>>
    \/ area = "templates" /\ Next /\ UNCHANGED <<area, hostVars, paramVars>>
    \/ area = "params" /\ D!Next /\ UNCHANGED <<area, hostVars, vars>>

MCSpec == MCInit /\ [][MCNext]_<<area, hostVars, vars, paramVars>>

TwoItems == <<"first item", "second item">>

Symmetry == Permutations(Editors) \cup Permutations(Savers) \cup Permutations(Majors)

\* Every row, form, save and parameter of the three parts has its type.
RowsTyped ==
    /\ area = "hosts" => H!TypeOK
    /\ area = "templates" => TypeOK
    /\ area = "params" => D!TypeOK

\* The properties of Hosts and DeployParams, as they are stated there.
HostFits == H!HostFits
MyCnfWellFormed == D!MyCnfWellFormed
Precedence == D!Precedence
================================================================================
