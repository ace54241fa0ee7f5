----------------------------- MODULE Replica_proofs -----------------------------
(***************************************************************************)
(* Theorems about Replica, for any number of runs of the job.               *)
(***************************************************************************)
EXTENDS Replica, TLAPS

--------------------------------------------------------------------------------
(* Inductive invariants *)

Step == [code : Codes, status : StepStatus]
At(n, st) == steps[n].status = st

\* The list of today, and the old one, which no worker of today has taken up.
Full ==
    /\ steps \in [1..6 -> Step]
    /\ steps[1].code = "configure" /\ steps[2].code = "repl_bootstrap"
    /\ steps[3].code = "repl_semi_sync" /\ steps[4].code = "repl_setup"
    /\ steps[5].code = "repl_verify" /\ steps[6].code = "register_cmdb"
Old ==
    /\ steps \in [1..3 -> Step]
    /\ steps[1].code = "configure" /\ steps[2].code = "post_config"
    /\ steps[3].code = "register_cmdb"
    /\ \A n \in 1..3 : ~At(n, "running")
    /\ ~At(3, "succeeded")
    /\ At(1, "succeeded") => late

\* The steps before one that is under way, done or failed are done; only the
\* last may have failed in an old list, which lacks those in the middle.
Waits(n) == At(n, "pending") \/ (n = 6 /\ At(n, "failed"))
Prefix == \A m, n \in 1..6 : m < n /\ ~Waits(n) => At(m, "succeeded")

Shape ==
    /\ status = "none" => steps = <<>>
    /\ status \in {"pending", "cancelled", "failed"} => Old \/ (Full /\ Prefix)
    /\ status \in {"running", "succeeded"} => Full /\ Prefix
    /\ status # "running" /\ Full => \A n \in 1..6 : ~At(n, "running")

\* What a job with the parameters it was created with knows: the master's number
\* once configure is done, its own as soon as replication is set up, the same as
\* in the ledger, which is written last.
Known ==
    /\ Full /\ At(1, "succeeded") => params.seen = master.sid
    /\ Full /\ At(4, "succeeded") => target = params.sid /\ params.sid # master.sid
    /\ registered # None => Full /\ At(5, "succeeded") /\ registered = params.sid

\* Once they were resolved anew the accounts are gone for good, and without them
\* the configure step is never done again.
Lost == Full => ~At(1, "succeeded")

KnowledgeInv ==
    /\ status = "none" => ~late /\ registered = None
    /\ params.accounts /\ ~late => Known
    /\ ~params.accounts /\ ~late => Lost

IInv == TypeOK /\ Shape /\ KnowledgeInv

--------------------------------------------------------------------------------
(* Lists of steps *)

LEMMA CodeSets ==
    /\ ToSet(ReplicaSteps) = {"configure", "repl_bootstrap", "repl_semi_sync", "repl_setup",
                              "repl_verify", "register_cmdb"}
    /\ ToSet(SingleSteps) = {"configure", "post_config", "register_cmdb"}
<1>1. DOMAIN ReplicaSteps = 1..6 /\ DOMAIN SingleSteps = 1..3
  BY DEF ReplicaSteps, SingleSteps
<1> QED
  BY <1>1 DEF ToSet, ReplicaSteps, SingleSteps

\* The place of each code in the two lists.
Place(code) ==
    CASE code = "configure" -> 1 [] code = "repl_bootstrap" -> 2 [] code = "repl_semi_sync" -> 3
      [] code = "repl_setup" -> 4 [] code = "repl_verify" -> 5 [] code = "register_cmdb" -> 6

LEMMA FullIndexes ==
    ASSUME Full, NEW code \in ToSet(ReplicaSteps)
    PROVE  Place(code) \in 1..6 /\ Indexes(code) = {Place(code)}
  BY CodeSets DEF Full, Indexes, Place

LEMMA OldDone ==
    ASSUME Old
    PROVE  /\ \A code : ~Running(code)
           /\ \A code : Done(code) => code \in {"configure", "post_config"}
           /\ Done("configure") => At(1, "succeeded")
           /\ At(1, "succeeded") => Done("configure")
  BY DEF Old, Done, Running, Indexes, Current, At

LEMMA FullStatus ==
    ASSUME Full, NEW code \in ToSet(ReplicaSteps)
    PROVE  /\ Done(code) <=> At(Place(code), "succeeded")
           /\ Running(code) <=> At(Place(code), "running")
  BY FullIndexes DEF Done, Running, Current, At, Full

\* All the steps of a list that is pending, and one reset from step k on.
LEMMA FreshLists ==
    /\ steps' = Pending(ReplicaSteps) => Full' /\ \A n \in 1..6 : At(n, "pending")'
    /\ \A k \in 0..3 : steps' = OldFailedAt(k) /\ late' = (k > 1) => Old'
<1>1. \A n \in 1..6 : ReplicaSteps[n] \in Codes
  BY DEF Codes, ToSet, ReplicaSteps
<1>2. \A n \in 1..3 : SingleSteps[n] \in Codes
  BY DEF Codes, ToSet, SingleSteps
<1>3. DOMAIN ReplicaSteps = 1..6 /\ DOMAIN SingleSteps = 1..3
  BY DEF ReplicaSteps, SingleSteps
<1>4. ASSUME steps' = Pending(ReplicaSteps) PROVE Full' /\ \A n \in 1..6 : At(n, "pending")'
  <2>1. steps' = [n \in 1..6 |-> [code |-> ReplicaSteps[n], status |-> "pending"]]
    BY <1>3, <1>4 DEF Pending
  <2>2. steps' \in [1..6 -> Step]
    BY <1>1, <2>1 DEF Step, StepStatus
  <2> QED
    BY <2>1, <2>2 DEF Full, At, ReplicaSteps
<1>5. ASSUME NEW k \in 0..3, steps' = OldFailedAt(k), late' = (k > 1) PROVE Old'
  <2>1. steps' = [n \in 1..3 |->
                    [code |-> SingleSteps[n],
                     status |-> IF n < k THEN "succeeded" ELSE IF n = k THEN "failed" ELSE "pending"]]
    BY <1>3, <1>5 DEF OldFailedAt
  <2>2. steps' \in [1..3 -> Step]
    BY <1>2, <2>1 DEF Step, StepStatus
  <2>3. /\ steps'[1].code = "configure" /\ steps'[2].code = "post_config"
        /\ steps'[3].code = "register_cmdb"
    BY <2>1 DEF SingleSteps
  <2>4. /\ \A n \in 1..3 : ~At(n, "running")'
        /\ \A n \in 1..3 : At(n, "succeeded")' => n < k
    BY <1>5, <2>1 DEF At
  <2> QED
    <3>1. k > 1 => late'
      BY <1>5, ZenonT(30)
    <3>2. At(1, "succeeded")' => k > 1
      BY <2>4
    <3>3. ~At(3, "succeeded")'
      BY <2>4
    <3> QED
      BY <2>2, <2>3, <2>4, <3>1, <3>2, <3>3 DEF Old
<1> QED
  BY <1>4, <1>5

LEMMA Resets ==
    ASSUME Full, NEW k \in 1..6, steps' = ResetFrom(k)
    PROVE  /\ Full'
           /\ \A n \in 1..6 : n < k => steps'[n] = steps[n]
           /\ \A n \in 1..6 : n >= k => At(n, "pending")'
<1>1. DOMAIN steps = 1..6
  BY DEF Full
<1>2. \A n \in 1..6 : /\ n < k => steps'[n] = steps[n]
                      /\ n >= k => steps'[n] = [steps[n] EXCEPT !.status = "pending"]
  BY <1>1 DEF ResetFrom
<1>3. \A n \in 1..6 : steps'[n] \in Step /\ steps'[n].code = steps[n].code
  BY <1>2 DEF Full, Step, StepStatus
<1>4. steps' \in [1..6 -> Step]
  BY <1>1, <1>3 DEF ResetFrom
<1>5. \A n \in 1..6 : n >= k => At(n, "pending")'
  BY <1>2 DEF Full, Step, At
<1> QED
  BY <1>2, <1>3, <1>4, <1>5 DEF Full

LEMMA OldResets ==
    ASSUME Old, NEW k \in 1..3, steps' = ResetFrom(k),
           At(1, "succeeded") /\ k > 1 => late'
    PROVE  Old' /\ (At(1, "succeeded")' => At(1, "succeeded") /\ k > 1)
<1>1. DOMAIN steps = 1..3
  BY DEF Old
<1>2. steps' = [n \in 1..3 |-> IF n >= k THEN [steps[n] EXCEPT !.status = "pending"] ELSE steps[n]]
  BY <1>1 DEF ResetFrom
<1>3. \A n \in 1..3 : /\ steps'[n] \in Step /\ steps'[n].code = steps[n].code
                      /\ n >= k => steps'[n].status = "pending"
                      /\ n < k => steps'[n] = steps[n]
  BY <1>2 DEF Old, Step, StepStatus
<1>4. \A n \in 1..3 : ~At(n, "running")'
  BY <1>3 DEF Old, At
<1>5. ~At(3, "succeeded")'
  BY <1>3 DEF At
<1>6. At(1, "succeeded")' => At(1, "succeeded") /\ k > 1
  BY <1>3 DEF At
<1> QED
  BY <1>2, <1>3, <1>4, <1>5, <1>6 DEF Old

\* A worker takes up today's list as it is, and of the old one the steps that
\* both have, the first and the last.
LEMMA Converts ==
    ASSUME steps' = Converted, UNCHANGED late
    PROVE  /\ Full => steps' = steps
           /\ Old => /\ Full' /\ Prefix'
                     /\ \A n \in 1..6 : ~At(n, "running")'
                     /\ \A n \in 2..6 : ~At(n, "succeeded")'
                     /\ At(1, "succeeded")' => late
<1>0. DOMAIN ReplicaSteps = 1..6 /\ \A n \in 1..6 : ReplicaSteps[n] \in Codes
  BY DEF ReplicaSteps, Codes, ToSet
<1>1. CASE Full
  <2>1. [n \in DOMAIN steps |-> steps[n].code] = ReplicaSteps
    BY <1>1 DEF Full, ReplicaSteps
  <2>2. steps' = steps
    BY <2>1 DEF Converted
  <2>3. ~Old
    BY <1>1 DEF Full, Old
  <2> QED
    BY <2>2, <2>3
<1>2. CASE Old
  <2>1. [n \in DOMAIN steps |-> steps[n].code] # ReplicaSteps
    BY <1>2, <1>0 DEF Old
  <2>2. steps' = [n \in 1..6 |-> [code |-> ReplicaSteps[n], status |-> StatusOf(ReplicaSteps[n])]]
    BY <2>1, <1>0 DEF Converted
  <2>3. /\ Indexes("configure") = {1} /\ Indexes("register_cmdb") = {3}
        /\ \A n \in 2..5 : Indexes(ReplicaSteps[n]) = {}
    BY <1>2 DEF Indexes, Old, ReplicaSteps
  <2>4. /\ StatusOf(ReplicaSteps[1]) = steps[1].status
        /\ StatusOf(ReplicaSteps[6]) = steps[3].status
        /\ \A n \in 2..5 : StatusOf(ReplicaSteps[n]) = "pending"
    BY <2>3 DEF StatusOf, ReplicaSteps
  <2>5. /\ At(1, "succeeded")' => At(1, "succeeded")
        /\ At(1, "running")' => At(1, "running")
        /\ \A n \in 2..5 : At(n, "pending")'
        /\ steps'[6].status = steps[3].status
    BY <2>2, <2>4 DEF At
  <2>6. {steps[1].status, steps[3].status} \subseteq {"pending", "succeeded", "failed"}
        /\ steps[3].status # "succeeded"
    BY <1>2 DEF Old, Step, StepStatus, At
  <2>7. \A n \in 1..6 : StatusOf(ReplicaSteps[n]) \in {"pending", "succeeded", "failed"}
    BY <2>4, <2>6
  <2>8. steps' \in [1..6 -> Step]
    BY <2>2, <2>7, <1>0 DEF Step, StepStatus
  <2>9. Full'
    BY <2>2, <2>8 DEF Full, ReplicaSteps
  <2>10. \A n \in 2..6 : Waits(n)' /\ ~At(n, "succeeded")'
    BY <2>5, <2>6 DEF Waits, At
  <2>11. \A n \in 1..6 : ~At(n, "running")'
    BY <2>2, <2>7 DEF At
  <2>12. ~Full
    BY <1>2, <1>0 DEF Full, Old
  <2> QED
    BY <1>2, <2>5, <2>9, <2>10, <2>11, <2>12 DEF Prefix, Old
<1> QED
  BY <1>1, <1>2

\* A step that ends is the only one under way; those before it are done, those
\* after it wait.
LEMMA Ends ==
    ASSUME Full, Prefix, NEW code \in ToSet(ReplicaSteps), Running(code),
           NEW outcome \in {"succeeded", "failed"}, End(code, outcome)
    PROVE  /\ Full' /\ Prefix'
           /\ \A n \in 1..6 : /\ n < Place(code) => At(n, "succeeded") /\ At(n, "succeeded")'
                              /\ n > Place(code) => Waits(n) /\ Waits(n)'
           /\ At(Place(code), "running") /\ At(Place(code), outcome)'
<1> DEFINE k == Place(code)
<1>0. k \in 1..6 /\ Indexes(code) = {k} /\ At(k, "running")
  BY FullIndexes, FullStatus
<1> HIDE DEF k
<1>1. \A n \in 1..6 : /\ n < k => At(n, "succeeded")
                      /\ n > k => Waits(n)
  BY <1>0 DEF Prefix, Waits, At
<1>2. DOMAIN steps = 1..6
  BY DEF Full
<1>3. steps' = [n \in 1..6 |-> IF n = k THEN [steps[n] EXCEPT !.status = outcome] ELSE steps[n]]
  BY <1>0, <1>2 DEF End
<1>4. \A n \in 1..6 : steps'[n] \in Step /\ steps'[n].code = steps[n].code
  BY <1>3 DEF Full, Step, StepStatus
<1>5. Full'
  BY <1>3, <1>4 DEF Full
<1>6. At(k, outcome)' /\ \A n \in 1..6 : n # k => steps'[n] = steps[n]
  <2>1. steps[k] \in Step
    BY <1>0 DEF Full
  <2> QED
    BY <2>1, <1>0, <1>3 DEF Step, At
<1>7. \A n \in 1..6 : /\ n < k => At(n, "succeeded") /\ At(n, "succeeded")'
                      /\ n > k => Waits(n) /\ Waits(n)'
  BY <1>1, <1>6 DEF At, Waits
<1>8. Prefix'
  BY <1>0, <1>6, <1>7 DEF Prefix
<1> QED
  BY <1>0, <1>5, <1>6, <1>7, <1>8 DEF k

--------------------------------------------------------------------------------
(* What a worker's step does *)

Work == Configure \/ Bootstrap \/ SemiSync \/ Setup \/ Verify \/ Register

\* Only a job that runs has a step under way, and its list is today's.
LEMMA RunningStatus ==
    ASSUME IInv, NEW code \in ToSet(ReplicaSteps), Running(code)
    PROVE  status = "running" /\ Full /\ Prefix
<1>1. CASE status = "none"
  BY <1>1 DEF IInv, Shape, Running, Indexes, Current
<1>2. CASE Old
  BY <1>2, OldDone
<1>3. CASE Full
  <2>1. Place(code) \in 1..6 /\ At(Place(code), "running")
    BY <1>3, FullIndexes, FullStatus
  <2> QED
    BY <2>1, <1>1, <1>2 DEF IInv, Shape, TypeOK
<1> QED
  BY <1>1, <1>2, <1>3 DEF IInv, Shape, TypeOK

\* A step of the worker ends the step under way, with the status that belongs to it.
LEMMA WorkEnds ==
    ASSUME Work
    PROVE  \E code \in ToSet(ReplicaSteps), outcome \in {"succeeded", "failed"} :
               /\ Running(code) /\ End(code, outcome)
               /\ status' = IF outcome = "succeeded" THEN "running" ELSE "failed"
<1> USE DEF Succeeds, Fails, Playbook
<1>1. CASE Configure
  BY <1>1, CodeSets DEF Configure
<1>2. CASE Bootstrap
  BY <1>2, CodeSets DEF Bootstrap
<1>3. CASE SemiSync
  BY <1>3, CodeSets DEF SemiSync
<1>4. CASE Setup
  BY <1>4, CodeSets DEF Setup
<1>5. CASE Verify
  BY <1>5, CodeSets DEF Verify
<1>6. CASE Register
  BY <1>6, CodeSets DEF Register
<1> QED
  BY <1>1, <1>2, <1>3, <1>4, <1>5, <1>6 DEF Work

\* The parameters keep their type.
LEMMA WorkTypes ==
    ASSUME IInv, Work
    PROVE  /\ params' \in Params
           /\ {target', registered'} \subseteq ServerIds \cup {None}
           /\ instance' \in BOOLEAN
           /\ UNCHANGED <<form, master, runs, late>>
<1> USE DEF Playbook, Succeeds, Fails
<1>0. /\ params \in Params /\ master \in Masters /\ instance \in BOOLEAN
      /\ {target, registered} \subseteq ServerIds \cup {None}
      /\ \A x \in {"sql", "process"} : {x} \in Installs
  BY DEF IInv, TypeOK, Installs
<1>1. \A p \in Params : Repaired(p) \in Params /\ WithRoot(p) \in Params
  BY DEF Repaired, WithRoot, Params, ServerIds
<1>2. \A p \in Params : p.sid \in ServerIds
  BY DEF Params
<1>3. CASE Configure
  <2>1. [params EXCEPT !.seen = master.sid] \in Params
    BY <1>0 DEF Params, Masters
  <2> QED
    BY <1>0, <1>1, <1>2, <1>3, <2>1 DEF Configure
<1>4. CASE Bootstrap
  BY <1>0, <1>4 DEF Bootstrap
<1>5. CASE SemiSync
  <2> DEFINE p == [WithRoot(params) EXCEPT !.host = @ \/ master.node]
  <2>1. p \in Params
    BY <1>0, <1>1 DEF Params, Masters
  <2>2. \A q \in WithInstall(p) : q \in Params
    <3>1. BySql(p) \cup ByProcess(p) \subseteq {"sql", "process"}
      BY DEF BySql, ByProcess
    <3> HIDE DEF p
    <3>2. SUBSET (BySql(p) \cup ByProcess(p)) \subseteq Installs
      BY <3>1 DEF Installs
    <3>3. \A found \in Installs : [p EXCEPT !.install = found] \in Params
      BY <2>1 DEF Params
    <3> QED
      BY <2>1, <3>2, <3>3 DEF WithInstall
  <2>3. params' \in {params, WithRoot(params)} \cup WithInstall(p)
    BY <1>5 DEF SemiSync
  <2>4. params' \in Params
    BY <1>0, <1>1, <2>2, <2>3
  <2>5. target' = target /\ UNCHANGED <<form, master, registered, instance, runs, late>>
    BY <1>5 DEF SemiSync
  <2> QED
    BY <1>0, <2>4, <2>5
<1>6. CASE Setup
  <2>1. params' \in {params, WithRoot(params), Repaired(WithRoot(params))}
        /\ target' \in {target, Repaired(WithRoot(params)).sid}
        /\ UNCHANGED <<form, master, registered, instance, runs, late>>
    BY <1>6 DEF Setup
  <2> QED
    BY <1>0, <1>1, <1>2, <2>1
<1>7. CASE Verify
  <2>1. params' \in {params, Repaired(params)} /\ target' \in {target, Repaired(params).sid}
        /\ UNCHANGED <<form, master, registered, instance, runs, late>>
    BY <1>7 DEF Verify
  <2> QED
    BY <1>0, <1>1, <1>2, <2>1
<1>8. CASE Register
  BY <1>0, <1>2, <1>8 DEF Register
<1> QED
  BY <1>3, <1>4, <1>5, <1>6, <1>7, <1>8 DEF Work

\* Whatever the step, the list keeps its shape.
LEMMA WorkShape == ASSUME IInv, Work PROVE Shape' /\ TypeOK'
<1>1. PICK code \in ToSet(ReplicaSteps), outcome \in {"succeeded", "failed"} :
          /\ Running(code) /\ End(code, outcome)
          /\ status' = IF outcome = "succeeded" THEN "running" ELSE "failed"
  BY WorkEnds
<1>2. Full /\ Prefix
  BY <1>1, RunningStatus
<1>3. /\ Full' /\ Prefix'
      /\ \A n \in 1..6 : /\ n < Place(code) => At(n, "succeeded")'
                         /\ n > Place(code) => Waits(n)'
      /\ Place(code) \in 1..6 /\ At(Place(code), outcome)'
  BY <1>1, <1>2, Ends, FullIndexes
<1>4. \A n \in 1..6 : ~At(n, "running")'
  BY <1>3 DEF At, Waits
<1>5. Shape'
  BY <1>1, <1>3, <1>4 DEF Shape
<1>6. \A n \in DOMAIN steps' : steps'[n].code \in Codes /\ steps'[n].status \in StepStatus
  BY <1>3 DEF Full, Step
<1>7. TypeOK'
  BY <1>1, <1>6, WorkTypes DEF IInv, TypeOK
<1> QED
  BY <1>5, <1>7

--------------------------------------------------------------------------------
(* What a worker's step knows *)

LEMMA RepairedKeeps ==
    ASSUME NEW p \in Params
    PROVE  /\ Repaired(p) \in Params /\ WithRoot(p) \in Params
           /\ Repaired(p).accounts = p.accounts /\ Repaired(p).seen = p.seen
           /\ p.sid # p.seen => Repaired(p) = p
           /\ WithRoot(p).accounts = p.accounts /\ WithRoot(p).seen = p.seen
           /\ WithRoot(p).sid = p.sid
  BY DEF Repaired, WithRoot, Params, ServerIds

\* The places of a step that ends, of those before and of those after it.
LEMMA EndsAt ==
    ASSUME IInv, NEW code \in ToSet(ReplicaSteps), Running(code), Succeeds(code) \/ Fails(code)
    PROVE  /\ Full' /\ Full
           /\ \A n \in 1..6 : /\ n < Place(code) => At(n, "succeeded") /\ At(n, "succeeded")'
                              /\ n > Place(code) => ~At(n, "succeeded") /\ ~At(n, "succeeded")'
           /\ ~At(Place(code), "succeeded")
           /\ At(Place(code), "succeeded")' => Succeeds(code)
           /\ Fails(code) => ~At(Place(code), "succeeded")'
<1>1. Full /\ Prefix
  BY RunningStatus
<1>2. PICK outcome \in {"succeeded", "failed"} :
          /\ End(code, outcome)
          /\ status' = IF outcome = "succeeded" THEN "running" ELSE "failed"
  BY DEF Succeeds, Fails
<1>3. Place(code) \in 1..6
  BY <1>1, FullIndexes
<1>4. /\ Full'
      /\ \A n \in 1..6 : /\ n < Place(code) => At(n, "succeeded") /\ At(n, "succeeded")'
                         /\ n > Place(code) => Waits(n) /\ Waits(n)'
      /\ At(Place(code), "running") /\ At(Place(code), outcome)'
  BY <1>1, <1>2, Ends
<1>5. At(Place(code), "succeeded")' => Succeeds(code)
  BY <1>2, <1>4 DEF At, Succeeds
<1>6. Fails(code) => ~At(Place(code), "succeeded")'
  BY <1>2, <1>4 DEF At, Fails
<1> QED
  BY <1>1, <1>3, <1>4, <1>5, <1>6 DEF At, Waits

LEMMA WorkKnown == ASSUME IInv, params.accounts, ~late, Work PROVE Known'
<1> USE DEF Playbook
<1>0. Known /\ params \in Params /\ master \in Masters
  BY DEF IInv, KnowledgeInv, TypeOK
<1>1. CASE Configure
  <2> DEFINE asked == [params EXCEPT !.seen = master.sid]
  <2>0. Running("configure") /\ (Succeeds("configure") \/ Fails("configure"))
        /\ "configure" \in ToSet(ReplicaSteps) /\ Place("configure") = 1
    BY <1>1, CodeSets DEF Configure, Place
  <2>1. /\ Full /\ Full'
        /\ \A n \in 2..6 : ~At(n, "succeeded") /\ ~At(n, "succeeded")'
        /\ At(1, "succeeded")' => Succeeds("configure")
        /\ Fails("configure") => ~At(1, "succeeded")'
    BY <2>0, EndsAt
  <2>2. status = "running"
    BY <2>0, RunningStatus
  <2>3. asked \in Params /\ asked.accounts = params.accounts /\ asked.seen = master.sid
    BY <1>0 DEF Params, Masters
  <2>4. CASE params' = Repaired(asked)
    <3> HIDE DEF asked
    <3>1. params'.accounts = params.accounts /\ params'.seen = master.sid
      BY <2>3, <2>4, RepairedKeeps
    <3>2. UNCHANGED <<master, registered>>
      BY <1>1 DEF Configure
    <3> QED
      BY <1>0, <2>1, <2>2, <3>1, <3>2 DEF Known
  <2>5. CASE UNCHANGED params /\ Fails("configure")
    BY <1>0, <1>1, <2>1, <2>2, <2>5 DEF Known, Configure
  <2> QED
    BY <1>1, <2>4, <2>5 DEF Configure
<1>2. CASE Bootstrap
  <2>0. Running("repl_bootstrap") /\ (Succeeds("repl_bootstrap") \/ Fails("repl_bootstrap"))
        /\ "repl_bootstrap" \in ToSet(ReplicaSteps) /\ Place("repl_bootstrap") = 2
    BY <1>2, CodeSets DEF Bootstrap, Place
  <2>1. /\ Full /\ At(1, "succeeded")
        /\ \A n \in 3..6 : ~At(n, "succeeded") /\ ~At(n, "succeeded")'
    BY <2>0, EndsAt
  <2>2. status = "running" /\ UNCHANGED <<params, master, registered>>
    BY <1>2, <2>0, RunningStatus DEF Bootstrap
  <2> QED
    BY <1>0, <2>1, <2>2 DEF Known
<1>3. CASE SemiSync
  <2> DEFINE p == [WithRoot(params) EXCEPT !.host = @ \/ master.node]
  <2>0. Running("repl_semi_sync") /\ (Succeeds("repl_semi_sync") \/ Fails("repl_semi_sync"))
        /\ "repl_semi_sync" \in ToSet(ReplicaSteps) /\ Place("repl_semi_sync") = 3
    BY <1>3, CodeSets DEF SemiSync, Place
  <2>1. /\ Full /\ At(1, "succeeded")
        /\ \A n \in 4..6 : ~At(n, "succeeded") /\ ~At(n, "succeeded")'
    BY <2>0, EndsAt
  <2>2. status = "running" /\ UNCHANGED <<master, registered>>
    BY <1>3, <2>0, RunningStatus DEF SemiSync
  <2>3. p \in Params /\ p.accounts = params.accounts /\ p.seen = params.seen
    <3>1. \A q \in Params, b \in BOOLEAN :
              /\ [q EXCEPT !.host = b] \in Params
              /\ [q EXCEPT !.host = b].accounts = q.accounts
              /\ [q EXCEPT !.host = b].seen = q.seen
      BY DEF Params
    <3>2. WithRoot(params) \in Params /\ (WithRoot(params).host \/ master.node) \in BOOLEAN
      BY <1>0, RepairedKeeps DEF Params, Masters
    <3> HIDE DEF p
    <3>3. p = [WithRoot(params) EXCEPT !.host = WithRoot(params).host \/ master.node]
      BY DEF p
    <3> QED
      BY <1>0, <3>1, <3>2, <3>3, RepairedKeeps
  <2>4. \A q \in WithInstall(p) : q.accounts = params.accounts /\ q.seen = params.seen
    BY <2>3 DEF WithInstall, Params
  <2>5. params'.accounts = params.accounts /\ params'.seen = params.seen
    BY <1>0, <1>3, <2>4, RepairedKeeps DEF SemiSync
  <2> QED
    BY <1>0, <2>1, <2>2, <2>5 DEF Known
<1>4. CASE Setup
  <2> DEFINE p == Repaired(WithRoot(params))
  <2>0. Running("repl_setup") /\ (Succeeds("repl_setup") \/ Fails("repl_setup"))
        /\ "repl_setup" \in ToSet(ReplicaSteps) /\ Place("repl_setup") = 4
    BY <1>4, CodeSets DEF Setup, Place
  <2>1. /\ Full /\ At(1, "succeeded")
        /\ \A n \in 5..6 : ~At(n, "succeeded") /\ ~At(n, "succeeded")'
        /\ At(4, "succeeded")' => Succeeds("repl_setup")
        /\ Fails("repl_setup") => ~At(4, "succeeded")'
    BY <2>0, EndsAt
  <2>2. status = "running" /\ UNCHANGED <<master, registered>>
    BY <1>4, <2>0, RunningStatus DEF Setup
  <2>3. p.accounts = params.accounts /\ p.seen = params.seen
    BY <1>0, RepairedKeeps
  <2>4. params'.accounts = params.accounts /\ params'.seen = params.seen
    BY <1>0, <1>4, <2>3, RepairedKeeps DEF Setup
  <2>5. At(4, "succeeded")' => target' = params'.sid /\ params'.sid # params'.seen
    BY <1>4, <2>1 DEF Setup
  <2> QED
    BY <1>0, <2>1, <2>2, <2>4, <2>5 DEF Known
<1>5. CASE Verify
  <2>0. Running("repl_verify") /\ (Succeeds("repl_verify") \/ Fails("repl_verify"))
        /\ "repl_verify" \in ToSet(ReplicaSteps) /\ Place("repl_verify") = 5
    BY <1>5, CodeSets DEF Verify, Place
  <2>1. /\ Full /\ At(1, "succeeded") /\ At(4, "succeeded") /\ ~At(5, "succeeded")
    BY <2>0, EndsAt
  <2>2. status = "running" /\ UNCHANGED <<master, registered>>
    BY <1>5, <2>0, RunningStatus DEF Verify
  <2>3. Repaired(params) = params
    BY <1>0, <2>1, RepairedKeeps DEF Known
  <2>4. params' = params /\ target' \in {target, params.sid}
    BY <1>5, <2>3 DEF Verify
  <2> QED
    BY <1>0, <2>1, <2>2, <2>4 DEF Known
<1>6. CASE Register
  <2>0. Running("register_cmdb") /\ (Succeeds("register_cmdb") \/ Fails("register_cmdb"))
        /\ "register_cmdb" \in ToSet(ReplicaSteps) /\ Place("register_cmdb") = 6
    BY <1>6, CodeSets DEF Register, Place
  <2>1. Full /\ Full' /\ \A n \in 1..5 : At(n, "succeeded") /\ At(n, "succeeded")'
    BY <2>0, EndsAt
  <2>2. status = "running" /\ UNCHANGED <<master, params, target>>
        /\ registered' \in {registered, params.sid}
    BY <1>6, <2>0, RunningStatus DEF Register
  <2> QED
    BY <1>0, <2>1, <2>2 DEF Known
<1> QED
  BY <1>1, <1>2, <1>3, <1>4, <1>5, <1>6 DEF Work

\* No step of the worker gives the job accounts or takes them.
LEMMA WorkAccounts == ASSUME IInv, Work PROVE params'.accounts = params.accounts
<1>0. params \in Params /\ master \in Masters
  BY DEF IInv, TypeOK
<1>1. CASE Configure
  <2> DEFINE asked == [params EXCEPT !.seen = master.sid]
  <2>1. asked \in Params /\ asked.accounts = params.accounts
    BY <1>0 DEF Params, Masters
  <2>2. params' \in {params, Repaired(asked)}
    BY <1>1 DEF Configure
  <2> HIDE DEF asked
  <2> QED
    BY <2>1, <2>2, RepairedKeeps
<1>2. CASE SemiSync
  <2> DEFINE p == [WithRoot(params) EXCEPT !.host = @ \/ master.node]
  <2>1. p \in Params /\ p.accounts = params.accounts
    <3>1. \A b \in BOOLEAN : /\ [WithRoot(params) EXCEPT !.host = b] \in Params
                             /\ [WithRoot(params) EXCEPT !.host = b].accounts = params.accounts
      BY <1>0, RepairedKeeps DEF Params
    <3> QED
      BY <1>0, <3>1, RepairedKeeps DEF Params, Masters
  <2>2. \A q \in Params : \A found : [q EXCEPT !.install = found].accounts = q.accounts
    BY DEF Params
  <2>3. \A q \in WithInstall(p) : q.accounts = params.accounts
    BY <2>1, <2>2, ZenonT(30) DEF WithInstall
  <2> QED
    BY <1>0, <1>2, <2>3, RepairedKeeps DEF SemiSync
<1>3. CASE Setup \/ Verify
  BY <1>0, <1>3, RepairedKeeps, ZenonT(30) DEF Setup, Verify
<1>4. CASE Bootstrap \/ Register
  BY <1>4 DEF Bootstrap, Register
<1> QED
  BY <1>1, <1>2, <1>3, <1>4 DEF Work

LEMMA WorkLost == ASSUME IInv, ~params.accounts, ~late, Work PROVE Lost'
<1>0. Lost
  BY DEF IInv, KnowledgeInv
<1>1. PICK code \in ToSet(ReplicaSteps), outcome \in {"succeeded", "failed"} :
          Running(code) /\ End(code, outcome)
  BY WorkEnds
<1>2. Full /\ Prefix /\ Place(code) \in 1..6
  BY <1>1, RunningStatus, FullIndexes
<1>3. Place(code) = 1
  BY <1>0, <1>1, <1>2, Ends DEF Lost
<1>4. code = "configure"
  BY <1>3, CodeSets DEF Place
<1>5. ~(Bootstrap \/ SemiSync \/ Setup \/ Verify \/ Register)
  <2>1. ASSUME NEW c \in ToSet(ReplicaSteps) \ {"configure"} PROVE ~Running(c)
    <3>1. Place(c) \in 2..6
      BY <2>1, CodeSets DEF Place
    <3>2. At(1, "running")
      BY <1>1, <1>2, <1>3, FullStatus
    <3> QED
      BY <1>2, <2>1, <3>1, <3>2, FullStatus DEF Prefix, Waits, At
  <2> QED
    BY <2>1, CodeSets DEF Bootstrap, SemiSync, Setup, Verify, Register
<1>6. Fails("configure")
  BY <1>5 DEF Work, Configure
<1> QED
  BY <1>1, <1>3, <1>4, <1>6, EndsAt DEF Lost

LEMMA WorkInv == ASSUME IInv, Work PROVE IInv'
<1>1. Shape' /\ TypeOK'
  BY WorkShape
<1>2. UNCHANGED late /\ params'.accounts = params.accounts
  BY WorkTypes, WorkAccounts
<1>3. status # "none" /\ status' # "none"
  <2>1. status' # "none"
    BY WorkEnds
  <2> QED
    BY <2>1, WorkEnds, RunningStatus
<1>4. KnowledgeInv'
  BY <1>2, <1>3, WorkKnown, WorkLost DEF IInv, KnowledgeInv
<1> QED
  BY <1>1, <1>4 DEF IInv

--------------------------------------------------------------------------------
(* Requests, and the worker between steps *)

LEMMA InitIInv == ASSUME MaxRuns \in Nat PROVE Init => IInv
<1> SUFFICES ASSUME Init PROVE IInv
  OBVIOUS
<1>1. status = "none" /\ steps = <<>> /\ registered = None /\ ~late
  BY DEF Init, NoJob
<1>2. ~Full /\ ~Old
  <2>1. DOMAIN steps = {}
    BY <1>1
  <2> QED
    BY <2>1 DEF Full, Old
<1>3. TypeOK
  <2>1. form \in Forms
    BY DEF Init, NoJob, Forms
  <2>2. params \in Params
    BY <2>1 DEF Init, NoJob, Resolved, Params, Forms, ServerIds, Installs
  <2>3. \A n \in DOMAIN steps : FALSE
    BY <1>1
  <2>4. runs \in 0..MaxRuns
    BY DEF Init
  <2>5. /\ {target, registered} \subseteq ServerIds \cup {None}
        /\ master \in Masters /\ instance \in BOOLEAN /\ late \in BOOLEAN
    BY DEF Init
  <2> QED
    BY <1>1, <2>1, <2>2, <2>3, <2>4, <2>5 DEF TypeOK
<1>4. Known
  BY <1>1, <1>2 DEF Known
<1>5. Lost
  BY <1>2 DEF Lost
<1> QED
  BY <1>1, <1>2, <1>3, <1>4, <1>5 DEF IInv, Shape, KnowledgeInv

\* The two lists are told apart by their lengths, and have the type of one.
LEMMA TwoLists ==
    /\ ~(Old /\ Full) /\ ~(Old /\ Full)'
    /\ Old' \/ Full' => \A n \in DOMAIN steps' : steps'[n].code \in Codes /\ steps'[n].status \in StepStatus
<1>1. (Old => DOMAIN steps = 1..3) /\ (Old' => DOMAIN steps' = 1..3)
  BY DEF Old
<1>2. (Full => DOMAIN steps = 1..6) /\ (Full' => DOMAIN steps' = 1..6)
  BY DEF Full
<1>3. Old' \/ Full' => \A n \in DOMAIN steps' : steps'[n].code \in Codes /\ steps'[n].status \in StepStatus
  BY DEF Full, Old, Step
<1> QED
  BY <1>1, <1>2, <1>3

LEMMA CreateInv == ASSUME IInv, Create PROVE IInv'
<1>1. /\ status = "none" /\ status' = "pending"
      /\ form' \in Forms /\ params' = ReplicaResolved(form')
      /\ steps' = Pending(ReplicaSteps)
      /\ UNCHANGED <<master, target, registered, instance, runs, late>>
  BY DEF Create
<1>2. Full' /\ \A n \in 1..6 : At(n, "pending")'
  BY <1>1, FreshLists
<1>3. params' \in Params /\ params'.accounts
  BY <1>1 DEF ReplicaResolved, Resolved, Params, Forms, ServerIds, Installs
<1>4. registered = None
  BY <1>1 DEF IInv, KnowledgeInv
<1>5. Shape'
  BY <1>1, <1>2, TwoLists DEF Shape, Prefix, Waits, At
<1>6. TypeOK'
  BY <1>1, <1>2, <1>3, TwoLists DEF IInv, TypeOK
<1>7. Known'
  <2>1. ~At(1, "succeeded")' /\ ~At(4, "succeeded")'
    BY <1>2 DEF At
  <2> QED
    BY <1>1, <1>4, <2>1 DEF Known
<1> QED
  BY <1>1, <1>3, <1>5, <1>6, <1>7 DEF IInv, KnowledgeInv

\* An old job that is past its configure step counts as one that does not know.
LEMMA InheritInv == ASSUME IInv, Inherit PROVE IInv'
<1>1. PICK n \in 0..3 :
          /\ steps' = OldFailedAt(n)
          /\ status' = IF n = 0 THEN "pending" ELSE "failed"
          /\ late' = (n > 1)
          /\ target' \in {None, params'.sid}
          /\ registered' \in {None, params'.sid} /\ (n < 3 => registered' = None)
  BY DEF Inherit
<1>2. /\ form' \in Forms /\ params' = ReplicaResolved(form')
      /\ UNCHANGED <<master, instance, runs>>
  BY DEF Inherit
<1>3. Old'
  BY <1>1, FreshLists
<1>4. params' \in Params /\ params'.accounts /\ params'.sid \in ServerIds
  BY <1>2 DEF ReplicaResolved, Resolved, Params, Forms, ServerIds, Installs
<1>5. Shape'
  BY <1>1, <1>3, TwoLists DEF Shape
<1>6. TypeOK'
  BY <1>1, <1>2, <1>3, <1>4, TwoLists DEF IInv, TypeOK
<1>7. ~late' => Known'
  <2>1. ~late' => registered' = None
    <3>1. ~late' => ~(n > 1)
      BY <1>1, ZenonT(30)
    <3> QED
      BY <1>1, <3>1
  <2> QED
    BY <1>3, <2>1, TwoLists DEF Known
<1> QED
  BY <1>1, <1>4, <1>5, <1>6, <1>7 DEF IInv, KnowledgeInv

\* Cancelling, and a message that finds the job, leave steps and parameters alone.
LEMMA StatusInv == ASSUME IInv, Cancel \/ EditMaster \/ Finish \/ UNCHANGED vars PROVE IInv'
<1>1. /\ UNCHANGED <<steps, form, params, target, registered, runs, late, instance>>
      /\ master' \in Masters /\ master'.sid = master.sid
      /\ \/ status \in {"pending", "failed"} /\ status' = "cancelled"
         \/ status = "running" /\ status' = "succeeded" /\ \A n \in DOMAIN steps : At(n, "succeeded")
         \/ UNCHANGED status
  <2>1. CASE EditMaster
    BY <2>1 DEF EditMaster, IInv, TypeOK, Masters
  <2>2. CASE Cancel \/ Finish \/ UNCHANGED vars
    BY <2>2 DEF Cancel, Finish, vars, At, IInv, TypeOK
  <2> QED
    BY <2>1, <2>2
<1>2. TypeOK'
  BY <1>1 DEF IInv, TypeOK
<1>3. (Full' <=> Full) /\ (Old' <=> Old) /\ (Prefix' <=> Prefix) /\ \A n, st : At(n, st)' <=> At(n, st)
  BY <1>1 DEF Full, Old, Prefix, Waits, At
<1>4. Shape'
  <2>1. CASE status = "running" /\ status' = "succeeded"
    <3>1. Full /\ Prefix
      BY <2>1 DEF IInv, Shape
    <3>2. \A n \in 1..6 : At(n, "succeeded")
      BY <1>1, <2>1, <3>1 DEF Full
    <3> QED
      BY <1>3, <2>1, <3>1, <3>2 DEF Shape, At
  <2>2. CASE status \in {"pending", "failed"} /\ status' = "cancelled"
    BY <1>1, <1>3, <2>2 DEF IInv, Shape
  <2>3. CASE UNCHANGED status
    BY <1>1, <1>3, <2>3 DEF IInv, Shape
  <2> QED
    BY <1>1, <2>1, <2>2, <2>3
<1>5. status' = "none" => status = "none"
  BY <1>1
<1>6. Known => Known'
  BY <1>1, <1>3 DEF Known
<1>7. Lost => Lost'
  BY <1>1, <1>3 DEF Lost
<1> QED
  BY <1>1, <1>2, <1>4, <1>5, <1>6, <1>7 DEF IInv, KnowledgeInv

LEMMA ResumeInv == ASSUME IInv, Resume PROVE IInv'
<1>1. /\ Old \/ (Full /\ Prefix)
      /\ status = "failed" /\ status' = "pending"
      /\ UNCHANGED <<form, params, master, target, registered, instance, runs, late>>
  BY DEF Resume, IInv, Shape
<1>2. PICK k \in Failed : (\A m \in Failed : k <= m) /\ steps' = ResetFrom(k)
  BY DEF Resume
<1>3. CASE Old
  <2>1. k \in 1..3 /\ ~Full /\ (At(1, "succeeded") => late')
    BY <1>1, <1>2, <1>3, TwoLists DEF Failed, Old
  <2>2. Old' /\ ~Full'
    BY <1>2, <1>3, <2>1, OldResets, TwoLists
  <2>3. Shape' /\ TypeOK'
    BY <1>1, <2>2, TwoLists DEF IInv, Shape, TypeOK
  <2> QED
    BY <1>1, <2>1, <2>2, <2>3 DEF IInv, KnowledgeInv, Known, Lost
<1>4. CASE Full /\ Prefix
  <2>1. k \in 1..6 /\ At(k, "failed")
    BY <1>2, <1>4 DEF Failed, Full, At
  <2>2. /\ Full'
        /\ \A n \in 1..6 : n < k => steps'[n] = steps[n]
        /\ \A n \in 1..6 : n >= k => At(n, "pending")'
    BY <1>2, <1>4, <2>1, Resets
  <2>3. \A n \in 1..6 : n >= k => ~At(n, "succeeded")
    <3> SUFFICES ASSUME NEW n \in 1..6, n >= k PROVE ~At(n, "succeeded")
      OBVIOUS
    <3>1. CASE n = k
      BY <2>1, <3>1 DEF At
    <3>2. CASE n > k
      BY <1>4, <2>1, <3>2 DEF Prefix, Waits, At
    <3> QED
      BY <2>1, <3>1, <3>2
  <2>4. \A n \in 1..6 : At(n, "succeeded")' <=> At(n, "succeeded")
    BY <2>1, <2>2, <2>3 DEF At
  <2>5. Prefix'
    <3> SUFFICES ASSUME NEW m \in 1..6, NEW n \in 1..6, m < n, ~Waits(n)' PROVE At(m, "succeeded")'
      BY DEF Prefix
    <3>1. n < k
      BY <2>1, <2>2 DEF Waits
    <3>2. ~Waits(n)
      BY <2>2, <3>1 DEF Waits, At
    <3>3. At(m, "succeeded")
      BY <1>4, <3>2 DEF Prefix
    <3> QED
      BY <2>4, <3>3
  <2>6. \A n \in 1..6 : ~At(n, "running")'
    <3>1. \A n \in 1..6 : ~At(n, "running")
      BY <1>1, <1>4 DEF IInv, Shape
    <3> QED
      BY <2>1, <2>2, <3>1 DEF At
  <2>7. Shape' /\ TypeOK'
    BY <1>1, <2>2, <2>5, <2>6, TwoLists DEF IInv, Shape, TypeOK
  <2>8. (Known => Known') /\ (Lost => Lost')
    BY <1>1, <1>4, <2>2, <2>4 DEF Known, Lost
  <2> QED
    BY <1>1, <2>7, <2>8 DEF IInv, KnowledgeInv
<1> QED
  BY <1>1, <1>3, <1>4

\* The accounts are lost; a list started over, or not begun, has its configure
\* step to do, and for a later one the step counts as done without its knowledge.
LEMMA RefreshInv == ASSUME IInv, Refresh PROVE IInv'
<1>1. /\ status \in {"cancelled", "pending", "failed"} /\ status' = "pending"
      /\ params' = Resolved(form)
      /\ \/ steps' = ResetFrom(1) /\ late' \in BOOLEAN
         \/ /\ status = "pending" /\ steps' = steps
            /\ late' = (late \/ Done("configure"))
      /\ UNCHANGED <<form, master, target, registered, instance, runs>>
  BY DEF Refresh, StartsOver
<1>2. Old \/ (Full /\ Prefix)
  BY <1>1 DEF IInv, Shape
<1>3. params' \in Params /\ ~params'.accounts
  BY <1>1 DEF IInv, TypeOK, Resolved, Params, Forms, ServerIds, Installs
<1>4. late' \in BOOLEAN
  BY <1>1
<1>5. CASE Old
  <2>1. Old'
    <3>1. CASE steps' = ResetFrom(1)
      BY <1>5, <3>1, OldResets
    <3>2. CASE steps' = steps /\ late' = (late \/ Done("configure"))
      BY <1>5, <3>2, OldDone DEF Old, At
    <3> QED
      BY <1>1, <3>1, <3>2
  <2>2. Shape' /\ TypeOK'
    BY <1>1, <1>3, <1>4, <2>1, TwoLists DEF IInv, Shape, TypeOK
  <2> QED
    BY <1>1, <1>3, <2>1, <2>2, TwoLists DEF IInv, KnowledgeInv, Lost
<1>6. CASE Full /\ Prefix
  <2>1. /\ Full' /\ Prefix'
        /\ \A n \in 1..6 : ~At(n, "running")'
        /\ At(1, "succeeded")' => late'
    <3>1. CASE steps' = ResetFrom(1)
      <4>1. Full' /\ \A n \in 1..6 : At(n, "pending")'
        BY <1>6, <3>1, Resets
      <4> QED
        BY <4>1 DEF Prefix, Waits, At
    <3>2. CASE status = "pending" /\ steps' = steps /\ late' = (late \/ Done("configure"))
      <4>1. Done("configure") <=> At(1, "succeeded")
        BY <1>6, FullStatus, CodeSets DEF Place
      <4>2. \A n \in 1..6 : ~At(n, "running")
        BY <1>6, <3>2 DEF IInv, Shape
      <4> QED
        BY <1>6, <3>2, <4>1, <4>2 DEF Full, Prefix, Waits, At
    <3> QED
      BY <1>1, <3>1, <3>2
  <2>2. Shape' /\ TypeOK'
    BY <1>1, <1>3, <1>4, <2>1, TwoLists DEF IInv, Shape, TypeOK
  <2> QED
    BY <1>1, <1>3, <2>1, <2>2 DEF IInv, KnowledgeInv, Lost
<1> QED
  BY <1>2, <1>5, <1>6

LEMMA StartInv == ASSUME IInv, Start, MaxRuns \in Nat PROVE IInv'
<1>1. /\ status \in {"pending", "failed"} /\ status' \in {"running", status}
      /\ steps' = Converted /\ runs' \in 0..MaxRuns
      /\ UNCHANGED <<form, params, master, target, registered, instance, late>>
  BY DEF Start, IInv, TypeOK
<1>2. Old \/ (Full /\ Prefix)
  BY <1>1 DEF IInv, Shape
<1>3. CASE Full /\ Prefix
  <2>1. steps' = steps
    BY <1>1, <1>3, Converts
  <2>2. /\ Full' /\ Prefix'
        /\ \A n \in 1..6 : ~At(n, "running")'
        /\ \A n \in 1..6 : At(n, "succeeded")' <=> At(n, "succeeded")
    <3>1. \A n \in 1..6 : ~At(n, "running")
      BY <1>1, <1>3 DEF IInv, Shape
    <3> QED
      BY <1>3, <2>1, <3>1 DEF Full, Prefix, Waits, At
  <2>3. Shape' /\ TypeOK'
    BY <1>1, <2>2, TwoLists DEF IInv, TypeOK, Shape
  <2>4. (Known => Known') /\ (Lost => Lost')
    BY <1>1, <1>3, <2>2 DEF Known, Lost
  <2> QED
    BY <1>1, <2>3, <2>4 DEF IInv, KnowledgeInv
<1>4. CASE Old
  <2>1. /\ Full' /\ Prefix' /\ ~Full
        /\ \A n \in 1..6 : ~At(n, "running")'
        /\ \A n \in 2..6 : ~At(n, "succeeded")'
        /\ At(1, "succeeded")' => late
    BY <1>1, <1>4, Converts, TwoLists
  <2>2. Shape' /\ TypeOK'
    BY <1>1, <2>1, TwoLists DEF IInv, TypeOK, Shape
  <2>3. ~late => (Known => Known') /\ Lost'
    BY <1>1, <2>1 DEF Known, Lost
  <2> QED
    BY <1>1, <2>2, <2>3 DEF IInv, KnowledgeInv
<1> QED
  BY <1>2, <1>3, <1>4

LEMMA BeginStepInv == ASSUME IInv, BeginStep PROVE IInv'
<1>1. /\ status = "running" /\ Full /\ Prefix
      /\ UNCHANGED <<status, form, params, master, target, registered, instance, runs, late>>
  BY DEF BeginStep, IInv, Shape
<1>2. PICK k \in 1..6 :
          /\ ~At(k, "succeeded")
          /\ \A m \in 1..(k - 1) : steps[m].status = "succeeded"
          /\ steps' = [steps EXCEPT ![k].status = "running"]
  BY <1>1 DEF BeginStep, Full, At
<1>3. /\ Full'
      /\ \A n \in 1..6 : n # k => steps'[n] = steps[n]
      /\ At(k, "running")'
  BY <1>1, <1>2 DEF Full, Step, StepStatus, At
<1>4. \A n \in 1..6 : /\ n < k => At(n, "succeeded")
                      /\ n > k => Waits(n)
  BY <1>1, <1>2 DEF Prefix, At
<1>5. \A n \in 1..6 : /\ At(n, "succeeded")' <=> At(n, "succeeded")
                      /\ n > k => Waits(n)'
  BY <1>2, <1>3, <1>4 DEF Waits, At
<1>6. Prefix'
  BY <1>4, <1>5 DEF Prefix
<1>7. Shape' /\ TypeOK'
  BY <1>1, <1>3, <1>6, TwoLists DEF IInv, Shape, TypeOK
<1>8. (Known => Known') /\ (Lost => Lost')
  BY <1>1, <1>3, <1>5 DEF Known, Lost
<1> QED
  BY <1>1, <1>7, <1>8 DEF IInv, KnowledgeInv

LEMMA StepInv == ASSUME MaxRuns \in Nat PROVE IInv /\ [Next]_vars => IInv'
  BY CreateInv, InheritInv, StatusInv, ResumeInv, RefreshInv, StartInv, BeginStepInv, WorkInv DEF Next, Work

--------------------------------------------------------------------------------
(* Theorems *)

\* The state of a job, its steps and its parameters have their types.
THEOREM ReplicaTypes == ASSUME MaxRuns \in Nat PROVE Spec => []TypeOK
<1>1. IInv => TypeOK
  BY DEF IInv
<1> QED
  BY InitIInv, StepInv, <1>1, PTL DEF Spec

\* However often the job fails, is resumed, cancelled and retried, a replica
\* that replicates has a server_id of its own (mysql_replica.py).
THEOREM ServerIdOwned == ASSUME MaxRuns \in Nat PROVE Spec => []OwnServerId
<1>1. IInv => OwnServerId
  <2> SUFFICES ASSUME IInv, ~late
               PROVE  /\ Done("repl_setup") => target # master.sid
                      /\ Done("repl_verify") /\ registered # None => registered = target
    BY DEF OwnServerId
  <2>1. CASE Full /\ Prefix
    <3>1. /\ Done("repl_setup") <=> At(4, "succeeded")
          /\ Done("repl_verify") <=> At(5, "succeeded")
      BY <2>1, FullStatus, CodeSets DEF Place
    <3>2. At(5, "succeeded") => At(4, "succeeded")
      BY <2>1 DEF Prefix, Waits, At
    <3>3. At(4, "succeeded") => At(1, "succeeded")
      BY <2>1 DEF Prefix, Waits, At
    <3>4. ~params.accounts => ~At(1, "succeeded")
      BY <2>1 DEF IInv, KnowledgeInv, Lost
    <3> QED
      BY <2>1, <3>1, <3>2, <3>3, <3>4 DEF IInv, KnowledgeInv, Known
  <2>2. CASE Old
    BY <2>2, OldDone
  <2>3. CASE status = "none"
    BY <2>3 DEF IInv, Shape, Done, Indexes
  <2> QED
    BY <2>1, <2>2, <2>3 DEF IInv, Shape, TypeOK
<1> QED
  BY InitIInv, StepInv, <1>1, PTL DEF Spec

\* The row in the ledger comes last, after every other step of the job, for
\* old jobs and new ones (ensure_mysql_replica_job_steps).
THEOREM RowComesLast == ASSUME MaxRuns \in Nat PROVE Spec => RegisteredLast
<1>1. IInv /\ [Next]_vars =>
        [status # "none" /\ registered' # registered =>
           \A code \in ToSet(ReplicaSteps) \ {"register_cmdb"} : Done(code)]_vars
  <2> SUFFICES ASSUME IInv, [Next]_vars, status # "none", registered' # registered,
                      NEW code \in ToSet(ReplicaSteps) \ {"register_cmdb"}
               PROVE  Done(code)
    OBVIOUS
  <2>1. Register
    BY DEF Next, vars, Create, Inherit, Cancel, Resume, Refresh, EditMaster, Start, BeginStep, Finish,
           Configure, Bootstrap, SemiSync, Setup, Verify
  <2>2. Running("register_cmdb") /\ (Succeeds("register_cmdb") \/ Fails("register_cmdb"))
        /\ "register_cmdb" \in ToSet(ReplicaSteps) /\ Place("register_cmdb") = 6
    BY <2>1, CodeSets DEF Register, Place
  <2>3. Full /\ \A n \in 1..5 : At(n, "succeeded")
    BY <2>2, EndsAt
  <2>4. Place(code) \in 1..5
    BY CodeSets DEF Place
  <2> QED
    BY <2>3, <2>4, FullStatus
<1> QED
  BY InitIInv, StepInv, <1>1, PTL DEF Spec, RegisteredLast
================================================================================
